------------------------------ MODULE MCPoolShares ------------------------------
(***************************************************************************)
(* The stratum server in three parts, each explored by itself: the shares of *)
(* one session, whose difficulty changes; the sessions of a miner, which     *)
(* connects and authorizes again and writes its nonces in several ways, for  *)
(* one job at one difficulty; and the variable difficulty of a port.  In     *)
(* PoolShares a retarget may choose any difficulty, so shares and variable   *)
(* difficulty need not run together.                                         *)
(***************************************************************************)
EXTENDS PoolShares, VarDiff

VARIABLE part

Weights == [n \in Nonces |-> n]

(* Ways to write a nonce: lower case, upper case, and with a character that   *)
(* is no hexadecimal digit behind the digits that matter.                     *)
Plain == {"0", "197", "198", "200"}
Rewritten == {"200 upper", "200 cut"}
AllTexts == Plain \cup Rewritten
LowerCases == [x \in Texts |-> IF x = "200 upper" THEN "200" ELSE x]
Decodings ==
    [x \in Texts |-> CASE x = "0" -> 0 [] x = "197" -> 197 [] x = "198" -> 198 [] OTHER -> 200]

-----------------------------------------------------------------------------
(* What the parts of the shares and of the sessions are limited to.           *)
OneSession ==
    \A c \in Clients :
      /\ connects[c] <= 1 /\ Len(asked[c]) <= 1
      /\ \A i \in DOMAIN toPool[c] : toPool[c][i].text \in Plain

OneJob ==
    /\ newestJob = 1
    /\ \A c \in Clients :
         /\ session[c].difficulty \in {0, Initial}
         /\ \A i \in DOMAIN toPool[c] : i = 1 /\ toPool[c][i].text \in {"200"} \cup Rewritten

ServerInit == part \in {"shares", "sessions", "vardiff"} /\ Init /\ VarDiffInit

ServerNext ==
    \/ part = "shares" /\ Next /\ OneSession' /\ UNCHANGED <<difficultyVars, part>>
    \/ part = "sessions" /\ Next /\ OneJob' /\ UNCHANGED <<difficultyVars, part>>
    \/ part = "vardiff" /\ VarDiffNext /\ UNCHANGED <<vars, part>>

ServerSpec == ServerInit /\ [][ServerNext]_<<vars, difficultyVars, part>>

-----------------------------------------------------------------------------
(* Types of the server's state; in particular the windows keep their lengths. *)
ServerTypeOK == TypeOK /\ VarDiffTypeOK

=============================================================================
