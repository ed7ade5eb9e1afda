---------------------------- MODULE MCMailCenter ----------------------------
(* MailCenter for TLC: the inputs that are records.                        *)
EXTENDS MailCenter, TLC

MCSymmetry == Permutations(Equipment) \cup Permutations(Channels)

\* A region 01 code, region 42 by five digits, a 42 barcode that carries region
\* 13, one that carries letters, a short one.
MCBarcodes ==
  {[length |-> 5, head |-> <<0, 1>>, inner |-> <<2, 3>>, allDigits |-> TRUE],
   [length |-> 5, head |-> <<4, 2>>, inner |-> <<1, 3>>, allDigits |-> TRUE],
   [length |-> 7, head |-> <<4, 2>>, inner |-> <<1, 3>>, allDigits |-> TRUE],
   [length |-> 8, head |-> <<4, 2>>, inner |-> <<10, 10>>, allDigits |-> FALSE],
   [length |-> 4, head |-> <<0, 1>>, inner |-> <<2, 3>>, allDigits |-> TRUE]}

\* Parcels of one code for two chutes, one of them without an induction.
MCParcelData ==
  {[induction |-> 1, chute |-> 1, code |-> "seoul"],
   [induction |-> Null, chute |-> 2, code |-> "seoul"]}

\* The counts up to MaxCount for which (count / 200) * 100 ends in a half and comes
\* out below it in floating point
MCRoundedDown == {29, 57, 113, 115, 201}

\* The next syncs, two and three ticks away
MCSyncInterval == [SIMS |-> 2, KPLAS |-> 3]

\* Kept postal codes, two of one region; codes that are kept, near one, unknown
MCZipCodes == << <<0, 6, 0, 0, 0>>, <<0, 6, 0, 1, 0>>, <<1, 3, 1, 0, 0>> >>
MCLookedUp == {<<0, 6, 0, 1, 0>>, <<1, 3, 1, 9, 9>>, <<0, 6, 5, 0, 0>>, <<9, 9, 9, 9, 9>>}
=============================================================================
