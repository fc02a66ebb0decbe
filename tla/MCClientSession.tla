-------------------------- MODULE MCClientSession --------------------------
(***************************************************************************)
(* Small instances of ClientSession.                                       *)
(***************************************************************************)
EXTENDS ClientSession, TLC

CONSTANTS ann, bob, c1, c2, r1

MCSymmetry == Permutations(Users) \cup Permutations(Calls)

\* No property but the type says anything of a till once a recovery or a rival has
\* clashed: it is followed further only as long as it has made no request.
Explored == clash => calls = 0
=============================================================================
