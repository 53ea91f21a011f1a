---------------------------- MODULE MCAdoSession ----------------------------
(***************************************************************************)
(* AdoSession with a name of its own for whatever RecordSet, the other     *)
(* part of the database access, has too: what TLC checks, and what is      *)
(* proved beside RecordSet.                                                *)
(***************************************************************************)
EXTENDS Integers

CONSTANTS Threads, Connections, MaxStatements

\* Thread ids are multiples of 4 on Windows.
ASSUME ThreadsAssumption ==
  /\ Threads \subseteq Nat /\ \A t \in Threads : t % 4 = 0
  /\ Connections \in Nat \ {0} /\ MaxStatements \in Nat

VARIABLES m_FreeDbList, server, pc, issued, stored, result

Ado == INSTANCE AdoSession

AdoSpec == Ado!FairSpec

\* The statements of a transaction reach the database together when it is
\* committed, or never, whenever the connection breaks and is opened again.
AllOrNothing == Ado!AllOrNothing

\* A thread that asks for its connection gets one that works, however often
\* the old one broke.
ConnectionComesBack == Ado!ConnectionComesBack
=============================================================================
