------------------------------- MODULE InputSession -------------------------------
(* A lifecycle session (src/apk_lifecycle_bridge.cpp): a client queues input        *)
(* events, and RunDeterministicProof sends the lifecycle states and then the       *)
(* queued events through a looper.  The looper's queue is local to the proof, so    *)
(* posting and dispatching are one step.                                           *)
(*                                                                               *)
(* An event is [action, x, y, key, id]; its action is "touch" or "key", standing    *)
(* for every phase of the two, or one the session does not know.                   *)
EXTENDS Integers, FiniteSets, Sequences
LOCAL INSTANCE SequencesExt

CONSTANTS
  Screens,      \* contexts: [width, height, bound], bound to an app or not
  InputEvents,  \* what a client may enqueue
  MaxEvents,    \* bound: enqueue calls of a session
  MaxProofs     \* bound: proofs of a session

EventType ==
  [action : {"touch", "key", "unknown"}, x : Int, y : Int, key : Int, id : Nat]
ASSUME InputAssumption ==
  /\ Screens \subseteq [width : Int, height : Int, bound : BOOLEAN]
  /\ InputEvents \subseteq EventType
  /\ MaxEvents \in Nat /\ MaxProofs \in Nat

VARIABLES
  screen, queued, nextId, rejected,
  results,      \* what the client was answered
  proofs

inputVars == <<screen, queued, nextId, rejected, results, proofs>>

SessionNew ==
  /\ queued = << >> /\ nextId = 1 /\ rejected = 0
  /\ results = << >> /\ proofs = << >>
InputInit == screen \in Screens /\ SessionNew

OnScreen(e) == e.x >= 0 /\ e.y >= 0 /\ e.x < screen.width /\ e.y < screen.height
Accepts(e) ==
  \/ e.action = "touch" /\ OnScreen(e) /\ e.key = 0
  \/ e.action = "key" /\ e.key > 0

(* An event that brings an id of its own keeps it, and takes none from the session. *)
Number(e) == IF e.id = 0 THEN nextId ELSE e.id
EnqueueInputEvent(e) ==
  /\ Len(results) < MaxEvents
  /\ IF Accepts(e)
       THEN /\ queued' = Append(queued, [e EXCEPT !.id = Number(e)])
            /\ nextId' = IF e.id = 0 THEN nextId + 1 ELSE nextId
            /\ UNCHANGED rejected
       ELSE rejected' = rejected + 1 /\ UNCHANGED <<queued, nextId>>
  /\ results' = Append(results, [accepted |-> Accepts(e), own |-> e.id # 0])
  /\ UNCHANGED <<screen, proofs>>

Touch(x, y) == [action |-> "touch", x |-> x, y |-> y, key |-> 0, id |-> 0]
Key(code)   == [action |-> "key", x |-> 0, y |-> 0, key |-> code, id |-> 0]
\* Mutant: the touch moves to the corner that is no longer on the screen.
DefaultEventsOffScreen ==
  <<Touch(screen.width \div 4, screen.height \div 4),
    Touch(screen.width, screen.height), Touch(screen.width, screen.height),
    Key(29), Key(29)>>
DefaultEvents ==
  <<Touch(screen.width \div 4, screen.height \div 4),
    Touch(screen.width \div 2, screen.height \div 2),
    Touch(screen.width \div 2, screen.height \div 2),
    Key(29), Key(29)>>

States == <<"created", "started", "resumed", "paused", "stopped", "destroyed">>

\* Mutant: the lifecycle states are numbered from one in every proof.
StateIdsAnew(first) == [k \in DOMAIN States |-> k]
StateIds(first) == [k \in DOMAIN States |-> first + k - 1]

\* Mutant: what a proof has dispatched is taken out of the queue.
KeptDispatched(events) == << >>
Kept(events) == events

(* A session nobody has queued anything in proves itself with events of its own.  A   *)
(* file that cannot be written makes the call throw once all this has happened: then  *)
(* the proof is one whose report nobody got.                                      *)
Offered(e) == IF Accepts(e) THEN <<e>> ELSE << >>
OfferedDefaults ==
  Offered(DefaultEvents[1]) \o Offered(DefaultEvents[2]) \o Offered(DefaultEvents[3])
    \o Offered(DefaultEvents[4]) \o Offered(DefaultEvents[5])
Prove ==
  LET own      == IF queued = << >> THEN OfferedDefaults ELSE << >>
      refused  == IF queued = << >> THEN Len(DefaultEvents) - Len(own) ELSE 0
      posted   == queued \o [k \in DOMAIN own |-> [own[k] EXCEPT !.id = nextId + k - 1]] IN
  /\ queued' = Kept(posted)
  /\ rejected' = rejected + refused
  /\ nextId' = nextId + Len(own) + Len(States)
  /\ proofs' = Append(proofs, [bound |-> TRUE, ready |-> rejected' = 0,
                               states |-> StateIds(nextId + Len(own)), inputs |-> posted,
                               after |-> Len(results)])

Unbound == [bound |-> FALSE, ready |-> FALSE, states |-> << >>, inputs |-> << >>,
            after |-> Len(results)]
RunDeterministicProof ==
  /\ Len(proofs) < MaxProofs
  /\ IF screen.bound THEN Prove
     ELSE proofs' = Append(proofs, Unbound) /\ UNCHANGED <<queued, rejected, nextId>>
  /\ UNCHANGED <<screen, results>>

SessionOver == Len(proofs) = MaxProofs /\ UNCHANGED inputVars

InputNext ==
  \/ \E e \in InputEvents : EnqueueInputEvent(e)
  \/ RunDeterministicProof
  \/ SessionOver
InputSpec == InputInit /\ [][InputNext]_inputVars

--------------------------------------------------------------------------------
(* Properties.                                                                  *)

BoundProofs == {k \in DOMAIN proofs : proofs[k].bound}

(* Types: an event that was rejected is not queued, and numbers are handed out from  *)
(* one (EnqueueInputEvent).                                                       *)
InputTypeOK ==
  /\ \A k \in DOMAIN queued : Accepts(queued[k]) /\ queued[k].id # 0
  /\ nextId > 0 /\ rejected >= Cardinality({r \in DOMAIN results : ~results[r].accepted})
  /\ Len(results) <= MaxEvents /\ Len(proofs) <= MaxProofs

(* The log of a session numbers no two lifecycle states alike, and none like an      *)
(* input it numbered itself, over all the proofs run on it (next_sequence_id_).     *)
StateNumbers == UNION {{<<k, n>> : n \in DOMAIN proofs[k].states} : k \in BoundProofs}
NumbersDiffer ==
  /\ \A p, q \in StateNumbers :
       proofs[p[1]].states[p[2]] = proofs[q[1]].states[q[2]] => p = q
  /\ (\A r \in DOMAIN results : ~results[r].own) =>
       \A p \in StateNumbers, k \in BoundProofs :
         \A n \in DOMAIN proofs[k].inputs :
           proofs[p[1]].states[p[2]] # proofs[k].inputs[n].id

(* A session dispatches again what it dispatched before: the queue of inputs is      *)
(* kept from one proof to the next, in its order (queued_input_events_).            *)
LaterProofsReplay ==
  \A j, k \in BoundProofs : j < k => IsPrefix(proofs[j].inputs, proofs[k].inputs)

(* A proof is ready exactly if no client call before it was refused, and the events  *)
(* it fell back on, if it had to, fit on the screen (rejected_input_events_ is never *)
(* reset, RunDeterministicProof picks the fallback's coordinates).                  *)
NothingRefused(k) == \A r \in 1 .. proofs[k].after : results[r].accepted
ReadyTellsTheSession ==
  \A k \in BoundProofs :
    proofs[k].ready <=>
      /\ NothingRefused(k)
      /\ proofs[1].after = 0 => screen.width > 0 /\ screen.height > 0
================================================================================
