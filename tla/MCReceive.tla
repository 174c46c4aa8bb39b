------------------------------ MODULE MCReceive ------------------------------
(* The receive path: the buffer of a network client (TcpRing), the parser of  *)
(* the ground link (OcuFrame) and those of the robot's boards (DeviceFrame).  *)
(* A behaviour moves one of them and leaves the others at rest.               *)
EXTENDS OcuFrame, DeviceFrame

CONSTANTS MEMSIZE, MaxLen, MaxBytes, MaxClients

ASSUME RingAssumption == /\ {MEMSIZE, MaxBytes, MaxClients} \subseteq Nat
                         /\ MaxLen \in 1 .. (MEMSIZE - 1)

VARIABLES
  side,  \* "ring", "ground" or "boards": what moves
  HeadAddr, EndAddr, DataAddr, used, pc, len, todo, held, clients, received,
  fresh, behind, lapped, strayed

Ring == INSTANCE TcpRing

ringVars == <<HeadAddr, EndAddr, DataAddr, used, pc, len, todo, held, clients, received,
              fresh, behind, lapped, strayed>>

MCInit ==
  /\ Init /\ DevInit /\ Ring!Init
  /\ \/ side = "ring" /\ plain /\ ~noisy /\ port = "head" /\ simple /\ ~noise
     \/ side = "ground" /\ port = "head" /\ simple /\ ~noise
     \/ side = "boards" /\ plain /\ ~noisy

MCNext == \/ side = "ring" /\ Ring!Next /\ UNCHANGED <<side, vars, devVars>>
          \/ side = "ground" /\ Next /\ UNCHANGED <<side, ringVars, devVars>>
          \/ side = "boards" /\ DevNext /\ UNCHANGED <<side, ringVars, vars>>

MCSpec == MCInit /\ [][MCNext]_<<side, ringVars, vars, devVars>>

-----------------------------------------------------------------------------
(* Properties of the ring.                                                 *)

\* No byte of a client is skipped for a reader that is not overtaken, nor when
\* the buffer comes from one client to another (TcpRing).
NoneSkipped == Ring!NoneSkipped

\* Old bytes, an earlier client's among them, are handed out only between the
\* restart of the two indices (TcpRing).
ReplayOnlyBehind == Ring!ReplayOnlyBehind
=============================================================================
