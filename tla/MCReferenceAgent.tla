------------------------- MODULE MCReferenceAgent -------------------------
(* Two halves that share no state.  "desk": three users, one of them in no      *)
(* directory, share a session on two threads.                                  *)
(* The first owns an asset.  A message names a software without a reason, gives *)
(* a reason, asks for a person or reports a fault; the model hints at a         *)
(* restricted software, at an asset, or away from what the text asks for.       *)
(* "session": a session of tests of such an application.                       *)
EXTENDS ReferenceAgent, TestSession, TLC

CONSTANTS u1, u2, u3, vpn, admin, pc, testA, testB

VARIABLE half

MCRank == (admin :> 0) @@ (vpn :> 1)
MCAssetOwner == pc :> u1

Text(intent, software, justified) ==
  [intent |-> intent, software |-> software, justified |-> justified, asset |-> Nothing,
   human |-> FALSE]
MCMessages ==
  {Text("access", vpn, FALSE), Text("other", Nothing, TRUE),
   [Text("access", vpn, TRUE) EXCEPT !.human = TRUE],
   [Text("ticket", Nothing, FALSE) EXCEPT !.asset = pc]}

Hinted(intent, software, justified, asset) ==
  [intent |-> intent, software |-> software, justified |-> justified, asset |-> asset]
MCHints ==
  {Hinted("access", admin, TRUE, Nothing), Hinted("access", Nothing, FALSE, Nothing),
   Hinted("ticket", Nothing, FALSE, pc), Hinted("other", Nothing, FALSE, Nothing)}

Symmetry == Permutations(Workers) \cup Permutations(Tests)

------------------------------------------------------------------------------
DeskInit ==
  /\ half \in {"desk", "session"}
  /\ Init /\ SessionInit
  /\ IF half = "desk" THEN policy = "required" ELSE production

DeskNext ==
  /\ UNCHANGED half
  /\ \/ half = "desk" /\ Next /\ UNCHANGED sessionVars
     \/ half = "session" /\ SessionNext /\ UNCHANGED vars

DeskSpec == DeskInit /\ [][DeskNext]_<<half, vars, sessionVars>>
=============================================================================
