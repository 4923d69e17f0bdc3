------------------------------ MODULE MCFat32 ------------------------------
(***************************************************************************)
(* A small disk for TLC: names, their 8.3 forms and checksums.  README.TXT  *)
(* is its own short name; readme.txt differs from it in case, so it has an  *)
(* LFN slot; the long name has two, and all three have one short name.  The *)
(* last name has four, which with its entry is more than a sector holds.    *)
(***************************************************************************)
EXTENDS Fat32Tree

Plain == <<"README.TXT">>
Lower == <<"readme.txt">>
Long == <<"readme.txt_of", "_april">>
Vast == <<"minutes_of_th", "e_annual_gene", "ral_meeting_o", "f_2024.txt">>
MCName == {Plain, Lower, Long, Vast}

MCShortName ==
    {"README.TXT", "README~1.TXT", "README~2.TXT", "MINUTES_.TXT", "MINUTE~1.TXT", "MINUTE~2.TXT"}
MCPiece ==
    MCShortName \cup {"readme.txt", "readme.txt_of", "_april", "README.TXT_OF", "_APRIL"}
                \cup {"minutes_of_th", "e_annual_gene", "ral_meeting_o", "f_2024.txt"}
MCFold ==
    [p \in MCPiece |->
        CASE p = "readme.txt" -> "README.TXT"
          [] p = "readme.txt_of" -> "README.TXT_OF"
          [] p = "_april" -> "_APRIL"
          [] OTHER -> p]

MCMakeShort == [n \in MCName |-> IF n = Vast THEN "MINUTES_.TXT" ELSE "README.TXT"]
MCTilde ==
    [s \in MCShortName \X (1..MAX_ALT) |->
        CASE s[1] = "MINUTES_.TXT" -> IF s[2] = 1 THEN "MINUTE~1.TXT" ELSE "MINUTE~2.TXT"
          [] OTHER -> IF s[2] = 1 THEN "README~1.TXT" ELSE "README~2.TXT"]
MCShortDecode == [s \in MCShortName |-> <<s>>]

(* The checksums of the first two short names collide.                      *)
MCChecksum == [s \in MCShortName |-> IF s = "README~2.TXT" THEN 25 ELSE 115]

(* Files of no cluster, of all that the root leaves free, and of one more.   *)
MCBlock == {"x", "y", "z"}
MCContents == {<<>>, <<"y", "z">>, <<"x", "y", "z">>}

(* Nothing is claimed after a torn operation, and after the last power cut   *)
(* only what the next boot finds.                                           *)
Bounded == torn = {} /\ (cuts = MaxCuts => pc # "idle")
=============================================================================
