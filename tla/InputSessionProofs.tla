--------------------------- MODULE InputSessionProofs ---------------------------
(* What a lifecycle session guarantees for any screen, any events and any number    *)
(* of proofs (InputSession).                                                     *)
EXTENDS InputSession, FiniteSetTheorems, TLAPS
LOCAL INSTANCE SequencesExt

Result == [accepted : BOOLEAN, own : BOOLEAN]
Proof  == [bound : BOOLEAN, ready : BOOLEAN, states : Seq(Nat), inputs : Seq(EventType),
           after : Nat]

InputTypes ==
  /\ screen \in Screens
  /\ queued \in Seq(EventType) /\ nextId \in Nat \ {0} /\ rejected \in Nat
  /\ results \in Seq(Result) /\ proofs \in Seq(Proof)

(* A session is bound to its app from the start, and a proof follows the answers    *)
(* the client has had.                                                           *)
ProofsFollow ==
  \A k \in DOMAIN proofs : proofs[k].bound = screen.bound /\ proofs[k].after <= Len(results)

(* Nothing leaves the queue.                                                      *)
QueueKeeps == \A k \in BoundProofs : IsPrefix(proofs[k].inputs, queued)

(* Every proof takes a block of numbers of its own for its states, and an event the *)
(* session has numbered lies outside all of them.                                 *)
First(k) == proofs[k].states[1]
Past(k)  == First(k) + Len(States)
StatesNumbered ==
  /\ \A k \in BoundProofs : proofs[k].states = StateIds(First(k)) /\ Past(k) <= nextId
  /\ \A j, k \in BoundProofs : j < k => Past(j) <= First(k)

NoIdsBrought == \A r \in DOMAIN results : ~results[r].own
InputsNumbered ==
  NoIdsBrought =>
    \A i \in DOMAIN queued :
      /\ queued[i].id < nextId
      /\ \A k \in BoundProofs : queued[i].id < First(k) \/ Past(k) <= queued[i].id

(* The count of rejected events is zero exactly while nothing was refused.          *)
AllAccepted == \A r \in DOMAIN results : results[r].accepted
FallbackFits == screen.width > 0 /\ screen.height > 0
Counted ==
  IF BoundProofs = {}
    THEN /\ rejected = 0 <=> AllAccepted
         /\ results = << >> => queued = << >>
         /\ queued = << >> /\ results # << >> => ~AllAccepted
    ELSE /\ queued # << >>
         /\ rejected = 0 <=> AllAccepted /\ (proofs[1].after = 0 => FallbackFits)

InputIInv ==
  /\ InputTypes /\ ProofsFollow /\ QueueKeeps /\ StatesNumbered /\ InputsNumbered /\ Counted
  /\ LaterProofsReplay /\ ReadyTellsTheSession

--------------------------------------------------------------------------------
(* Sequences.                                                                    *)

LEMMA PrefixMeans ==
  ASSUME NEW S, NEW s \in Seq(S), NEW t \in Seq(S)
  PROVE  IsPrefix(s, t) <=> Len(s) <= Len(t) /\ \A i \in 1 .. Len(s) : s[i] = t[i]
<1>1. SubSeq(s, 1, Len(s)) = [i \in 1 .. Len(s) |-> s[i]]
  OBVIOUS
<1>2. SubSeq(t, 1, Len(s)) = [i \in 1 .. Len(s) |-> t[i]]
  OBVIOUS
<1>3. QED
  BY <1>1, <1>2 DEF IsPrefix

(* A queue that grows keeps its prefixes.                                         *)
LEMMA PrefixGrows ==
  ASSUME NEW S, NEW r \in Seq(S), NEW s \in Seq(S), NEW t \in Seq(S),
         IsPrefix(r, s), IsPrefix(s, t)
  PROVE  IsPrefix(r, t)
<1>1. Len(r) <= Len(s) /\ \A i \in 1 .. Len(r) : r[i] = s[i]
  BY PrefixMeans
<1>2. Len(s) <= Len(t) /\ \A i \in 1 .. Len(s) : s[i] = t[i]
  BY PrefixMeans
<1>3. Len(r) <= Len(t) /\ \A i \in 1 .. Len(r) : r[i] = t[i]
  BY <1>1, <1>2
<1>4. QED
  BY <1>3, PrefixMeans

LEMMA AppendIs ==
  ASSUME NEW S, NEW s \in Seq(S), NEW x \in S
  PROVE  /\ Append(s, x) \in Seq(S) /\ Len(Append(s, x)) = Len(s) + 1
         /\ DOMAIN Append(s, x) = DOMAIN s \cup {Len(s) + 1}
         /\ \A i \in DOMAIN s : i # Len(s) + 1 /\ Append(s, x)[i] = s[i]
         /\ Append(s, x)[Len(s) + 1] = x
         /\ Append(s, x) # << >>
         /\ IsPrefix(s, Append(s, x))
<1>1. /\ Append(s, x) \in Seq(S) /\ Len(Append(s, x)) = Len(s) + 1
      /\ DOMAIN Append(s, x) = DOMAIN s \cup {Len(s) + 1}
      /\ \A i \in DOMAIN s : i # Len(s) + 1 /\ Append(s, x)[i] = s[i]
      /\ Append(s, x)[Len(s) + 1] = x
  OBVIOUS
<1>2. Append(s, x) # << >>
  OBVIOUS
<1> DEFINE t == Append(s, x)
<1>3. /\ t \in Seq(S) /\ Len(s) <= Len(t)
      /\ \A i \in 1 .. Len(s) : s[i] = t[i]
  BY <1>1
<1> HIDE DEF t
<1>4. IsPrefix(s, t)
  BY <1>3, PrefixMeans
<1>5. QED
  BY <1>1, <1>2, <1>4, Zenon DEF t

LEMMA SequenceOf ==
  ASSUME NEW S, NEW n \in Nat, NEW f \in [1 .. n -> S]
  PROVE  f \in Seq(S) /\ Len(f) = n /\ DOMAIN f = 1 .. n
  OBVIOUS

LEMMA ConcatIs ==
  ASSUME NEW S, NEW s \in Seq(S), NEW t \in Seq(S)
  PROVE  /\ s \o t \in Seq(S) /\ Len(s \o t) = Len(s) + Len(t)
         /\ \A i \in 1 .. Len(s) : (s \o t)[i] = s[i]
         /\ \A i \in DOMAIN (s \o t) : i \notin DOMAIN s =>
              i - Len(s) \in 1 .. Len(t) /\ (s \o t)[i] = t[i - Len(s)]
<1>1. s \o t \in Seq(S) /\ Len(s \o t) = Len(s) + Len(t)
  OBVIOUS
<1>2. Len(s) \in Nat /\ Len(t) \in Nat /\ DOMAIN s = 1 .. Len(s)
      /\ DOMAIN (s \o t) = 1 .. Len(s) + Len(t)
  BY <1>1
<1>3. \A i \in 1 .. Len(s) + Len(t) :
        (s \o t)[i] = IF i <= Len(s) THEN s[i] ELSE t[i - Len(s)]
  OBVIOUS
<1>4. QED
  BY <1>1, <1>2, <1>3

LEMMA PrefixOfItself ==
  ASSUME NEW S, NEW s \in Seq(S)
  PROVE  IsPrefix(s, s)
  BY PrefixMeans

LEMMA StateIdsAre ==
  ASSUME NEW first \in Nat
  PROVE  /\ StateIds(first) \in Seq(Nat) /\ DOMAIN StateIds(first) = 1 .. 6
         /\ \A n \in 1 .. 6 : StateIds(first)[n] = first + n - 1
         /\ Len(States) = 6
<1>1. Len(States) = 6 /\ DOMAIN States = 1 .. 6
  BY DEF States
<1>2. \A n \in 1 .. 6 : first + n - 1 \in Nat
  OBVIOUS
<1>3. StateIds(first) = [n \in 1 .. 6 |-> first + n - 1]
  BY <1>1 DEF StateIds
<1>4. StateIds(first) \in Seq(Nat)
  BY <1>2, <1>3
<1>5. QED
  BY <1>1, <1>3, <1>4

--------------------------------------------------------------------------------
(* The events a session falls back on.                                            *)

LEMMA ScreenType ==
  ASSUME InputTypes
  PROVE  screen.width \in Int /\ screen.height \in Int /\ screen.bound \in BOOLEAN
  BY InputAssumption DEF InputTypes

LEMMA OfferedIs ==
  ASSUME NEW e \in EventType
  PROVE  /\ Offered(e) \in Seq(EventType)
         /\ Len(Offered(e)) = IF Accepts(e) THEN 1 ELSE 0
<1>1. <<e>> \in Seq(EventType) /\ Len(<<e>>) = 1
  OBVIOUS
<1>2. << >> \in Seq(EventType) /\ Len(<< >>) = 0
  OBVIOUS
<1>3. QED
  BY <1>1, <1>2 DEF Offered

LEMMA TouchIs ==
  ASSUME InputTypes, NEW x \in Int, NEW y \in Int
  PROVE  /\ Touch(x, y) \in EventType
         /\ Accepts(Touch(x, y)) <=>
              x >= 0 /\ y >= 0 /\ x < screen.width /\ y < screen.height
<1>1. Touch(x, y) \in EventType
  BY DEF Touch, EventType
<1>2. QED
  BY <1>1 DEF Touch, Accepts, OnScreen

LEMMA KeyIs == Key(29) \in EventType /\ Accepts(Key(29))
  BY DEF Key, EventType, Accepts

(* The keys always fit, the touches exactly on a screen that has pixels.            *)
LEMMA OfferedDefaultsAre ==
  ASSUME InputTypes
  PROVE  /\ OfferedDefaults \in Seq(EventType)
         /\ Len(OfferedDefaults) \in 2 .. 5
         /\ Len(OfferedDefaults) = 5 <=> FallbackFits
         /\ Len(DefaultEvents) = 5
<1> DEFINE w == screen.width
           h == screen.height
           a == Touch(w \div 4, h \div 4)
           b == Touch(w \div 2, h \div 2)
           c == Key(29)
<1>1. w \in Int /\ h \in Int
  BY ScreenType
<1>2. w \div 4 \in Int /\ h \div 4 \in Int /\ w \div 2 \in Int /\ h \div 2 \in Int
  BY <1>1
<1>3. /\ w \div 4 >= 0 /\ w \div 4 < w <=> w > 0
      /\ h \div 4 >= 0 /\ h \div 4 < h <=> h > 0
      /\ w \div 2 >= 0 /\ w \div 2 < w <=> w > 0
      /\ h \div 2 >= 0 /\ h \div 2 < h <=> h > 0
  BY <1>1
<1>4. DefaultEvents = <<a, b, b, c, c>>
  BY DEF DefaultEvents
<1>5. a \in EventType /\ (Accepts(a) <=> FallbackFits)
  BY <1>2, <1>3, TouchIs DEF FallbackFits
<1>6. b \in EventType /\ (Accepts(b) <=> FallbackFits)
  BY <1>2, <1>3, TouchIs DEF FallbackFits
<1>7. c \in EventType /\ Accepts(c)
  BY KeyIs
<1> HIDE DEF a, b, c
<1>8. OfferedDefaults = Offered(a) \o Offered(b) \o Offered(b) \o Offered(c) \o Offered(c)
  BY <1>4 DEF OfferedDefaults
<1>9. /\ Offered(a) \in Seq(EventType) /\ Offered(b) \in Seq(EventType) /\ Offered(c) \in Seq(EventType)
      /\ Len(Offered(a)) = IF FallbackFits THEN 1 ELSE 0
      /\ Len(Offered(b)) = IF FallbackFits THEN 1 ELSE 0
      /\ Len(Offered(c)) = 1
  BY <1>5, <1>6, <1>7, OfferedIs
<1>10. \A s, t \in Seq(EventType) :
         s \o t \in Seq(EventType) /\ Len(s \o t) = Len(s) + Len(t)
  OBVIOUS
<1> DEFINE ab   == Offered(a) \o Offered(b)
           abb  == ab \o Offered(b)
           abbc == abb \o Offered(c)
<1>11. ab \in Seq(EventType) /\ Len(ab) = Len(Offered(a)) + Len(Offered(b))
  BY <1>9, <1>10
<1>12. OfferedDefaults = abbc \o Offered(c)
  BY <1>8
<1> HIDE DEF ab
<1>13. abb \in Seq(EventType) /\ Len(abb) = Len(ab) + Len(Offered(b))
  BY <1>9, <1>10, <1>11
<1> HIDE DEF abb
<1>14. abbc \in Seq(EventType) /\ Len(abbc) = Len(abb) + Len(Offered(c))
  BY <1>9, <1>10, <1>13
<1> HIDE DEF abbc
<1>15. /\ OfferedDefaults \in Seq(EventType)
       /\ Len(OfferedDefaults) = Len(abbc) + Len(Offered(c))
  BY <1>9, <1>10, <1>12, <1>14
<1>16. Len(DefaultEvents) = 5
  BY <1>4
<1>17. QED
  BY <1>9, <1>11, <1>13, <1>14, <1>15, <1>16

--------------------------------------------------------------------------------
(* Every call keeps the session's promises.                                       *)

LEMMA InputInitKeeps ==
  ASSUME InputInit
  PROVE  InputIInv
<1>1. /\ screen \in Screens /\ queued = << >> /\ nextId = 1 /\ rejected = 0
      /\ results = << >> /\ proofs = << >>
  BY DEF InputInit, SessionNew
<1>2. InputTypes
  BY <1>1 DEF InputTypes
<1>3. DOMAIN proofs = {} /\ BoundProofs = {}
  BY <1>1 DEF BoundProofs
<1>4. DOMAIN results = {} /\ DOMAIN queued = {}
  BY <1>1
<1>5. Counted
  BY <1>1, <1>3, <1>4 DEF Counted, AllAccepted
<1>6. QED
  BY <1>2, <1>3, <1>4, <1>5 DEF InputIInv, ProofsFollow, QueueKeeps, StatesNumbered,
     InputsNumbered, LaterProofsReplay, ReadyTellsTheSession

LEMMA ProofParts ==
  ASSUME InputTypes, NEW k \in DOMAIN proofs
  PROVE  /\ k \in 1 .. Len(proofs) /\ proofs[k] \in Proof
         /\ proofs[k].inputs \in Seq(EventType) /\ proofs[k].after \in Nat
         /\ proofs[k].states \in Seq(Nat)
<1>1. proofs[k] \in Proof /\ k \in 1 .. Len(proofs)
  BY DEF InputTypes
<1>2. QED
  BY <1>1 DEF Proof

(* The number a proof's states start with.                                        *)
LEMMA FirstType ==
  ASSUME InputTypes, StatesNumbered, NEW k \in BoundProofs
  PROVE  First(k) \in Nat /\ Past(k) = First(k) + 6
<1>1. k \in DOMAIN proofs
  BY DEF BoundProofs
<1>2. proofs[k].states \in Seq(Nat) /\ proofs[k].states = StateIds(First(k))
  BY <1>1, ProofParts DEF StatesNumbered
<1>3. DOMAIN States = 1 .. 6 /\ Len(States) = 6
  BY DEF States
<1>4. 1 \in DOMAIN proofs[k].states
  BY <1>2, <1>3 DEF StateIds
<1>5. QED
  BY <1>2, <1>3, <1>4 DEF First, Past

LEMMA EnqueueKeeps ==
  ASSUME InputIInv, NEW e \in InputEvents, EnqueueInputEvent(e)
  PROVE  InputIInv'
<1> DEFINE numbered == [e EXCEPT !.id = Number(e)]
           answer == [accepted |-> Accepts(e), own |-> e.id # 0]
<1>1. /\ IF Accepts(e)
           THEN /\ queued' = Append(queued, numbered)
                /\ nextId' = IF e.id = 0 THEN nextId + 1 ELSE nextId
                /\ rejected' = rejected
           ELSE rejected' = rejected + 1 /\ queued' = queued /\ nextId' = nextId
      /\ results' = Append(results, answer) /\ screen' = screen /\ proofs' = proofs
  BY DEF EnqueueInputEvent
<1>2. InputTypes
  BY DEF InputIInv
<1>3. e \in EventType /\ e.id \in Nat
  BY InputAssumption DEF EventType
<1>4. numbered \in EventType /\ numbered.id = Number(e)
  BY <1>2, <1>3 DEF Number, EventType, InputTypes
<1>5. answer \in Result /\ answer.accepted = Accepts(e) /\ answer.own = (e.id # 0)
  BY DEF Result, Accepts
<1> HIDE DEF numbered, answer
<1>6. queued \in Seq(EventType) /\ results \in Seq(Result) /\ nextId \in Nat \ {0}
      /\ rejected \in Nat
  BY <1>2 DEF InputTypes
<1>7. /\ results' \in Seq(Result) /\ Len(results') = Len(results) + 1
      /\ \A r \in DOMAIN results : r \in DOMAIN results' /\ results'[r] = results[r]
      /\ Len(results') \in DOMAIN results' /\ results'[Len(results')] = answer
      /\ \A r \in DOMAIN results' : r \in DOMAIN results \/ r = Len(results')
  BY <1>1, <1>5, <1>6
<1>8. /\ queued' \in Seq(EventType) /\ nextId' \in Nat \ {0} /\ rejected' \in Nat
      /\ nextId <= nextId'
  <2>1. CASE Accepts(e)
    <3>1. queued' = Append(queued, numbered) /\ rejected' = rejected
          /\ nextId' = IF e.id = 0 THEN nextId + 1 ELSE nextId
      BY <1>1, <2>1
    <3>2. QED
      BY <1>4, <1>6, <3>1, AppendIs
  <2>2. CASE ~Accepts(e)
    BY <1>1, <1>6, <2>2
  <2>3. QED
    BY <2>1, <2>2
<1>9. InputTypes'
  BY <1>1, <1>2, <1>7, <1>8 DEF InputTypes
<1>10. BoundProofs' = BoundProofs /\ StateNumbers' = StateNumbers
       /\ \A k : First(k)' = First(k) /\ Past(k)' = Past(k)
  BY <1>1 DEF BoundProofs, StateNumbers, First, Past
<1>11. ProofsFollow'
  <2>1. ASSUME NEW k \in DOMAIN proofs
        PROVE  proofs[k].bound = screen.bound /\ proofs[k].after <= Len(results')
    <3>1. proofs[k].after \in Nat /\ proofs[k].after <= Len(results) /\ Len(results) \in Nat
      BY <1>2, <1>6, ProofParts DEF InputIInv, ProofsFollow
    <3>2. QED
      BY <1>7, <3>1 DEF InputIInv, ProofsFollow
  <2>2. QED
    BY <1>1, <2>1 DEF ProofsFollow
<1>12. QueueKeeps'
  <2>1. IsPrefix(queued, queued')
    <3>1. CASE Accepts(e)
      <4>1. IsPrefix(queued, Append(queued, numbered))
        BY <1>4, <1>6, AppendIs
      <4>2. queued' = Append(queued, numbered)
        BY <1>1, <3>1
      <4>3. QED
        BY <4>1, <4>2, Zenon
    <3>2. CASE ~Accepts(e)
      BY <1>1, <1>6, <3>2, PrefixOfItself
    <3>3. QED
      BY <3>1, <3>2
  <2>2. ASSUME NEW k \in BoundProofs
        PROVE  IsPrefix(proofs[k].inputs, queued')
    <3>1. proofs[k].inputs \in Seq(EventType) /\ IsPrefix(proofs[k].inputs, queued)
      BY <1>2, ProofParts DEF InputIInv, QueueKeeps, BoundProofs
    <3>2. QED
      BY <1>6, <1>8, <2>1, <3>1, PrefixGrows
  <2>3. QED
    BY <1>1, <1>10, <2>2 DEF QueueKeeps
<1>13. StatesNumbered'
  <2>1. StatesNumbered
    BY DEF InputIInv
  <2>2. \A k \in BoundProofs : Past(k) <= nextId'
    BY <1>2, <1>6, <1>8, <2>1, FirstType DEF StatesNumbered
  <2>3. QED
    BY <1>1, <1>10, <2>1, <2>2 DEF StatesNumbered, StateIds
<1>14. InputsNumbered'
  <2>1. SUFFICES ASSUME NoIdsBrought', NEW i \in DOMAIN queued'
                 PROVE  /\ queued'[i].id < nextId'
                        /\ \A k \in BoundProofs : queued'[i].id < First(k) \/ Past(k) <= queued'[i].id
    BY <1>10 DEF InputsNumbered
  <2>2. NoIdsBrought /\ e.id = 0
    BY <1>5, <1>7, <2>1 DEF NoIdsBrought
  <2>3. CASE i \in DOMAIN queued
    <3>1. queued[i].id \in Nat
      <4>1. queued[i] \in EventType
        BY <1>6, <2>3
      <4>2. QED
        BY <4>1 DEF EventType
    <3>2. queued'[i] = queued[i]
      <4>1. CASE Accepts(e)
        BY <1>1, <1>4, <1>6, <2>3, <4>1, AppendIs
      <4>2. CASE ~Accepts(e)
        BY <1>1, <4>2
      <4>3. QED
        BY <4>1, <4>2
    <3>3. QED
      BY <1>6, <1>8, <2>2, <2>3, <3>1, <3>2 DEF InputIInv, InputsNumbered
  <2>4. CASE i \notin DOMAIN queued
    <3>1. Accepts(e) /\ queued'[i] = numbered
      <4>1. Accepts(e)
        BY <1>1, <2>1, <2>4
      <4>2. QED
        BY <1>1, <1>4, <1>6, <2>1, <2>4, <4>1, AppendIs
    <3>2. queued'[i].id = nextId /\ nextId' = nextId + 1
      BY <1>1, <1>4, <2>2, <3>1 DEF Number
    <3>3. \A k \in BoundProofs : Past(k) <= nextId
      BY DEF InputIInv, StatesNumbered
    <3>4. QED
      BY <1>6, <3>2, <3>3
  <2>5. QED
    BY <2>3, <2>4
<1>15. AllAccepted' <=> AllAccepted /\ Accepts(e)
  BY <1>5, <1>7 DEF AllAccepted
<1>16. queued' # << >> <=> queued # << >> \/ Accepts(e)
  BY <1>1, <1>4, <1>6
<1>17. rejected' = 0 <=> rejected = 0 /\ Accepts(e)
  BY <1>1, <1>6
<1>18. results' # << >>
  BY <1>6, <1>7
<1>19. Counted'
  <2>1. Counted
    BY DEF InputIInv
  <2>2. FallbackFits' = FallbackFits
    BY <1>1 DEF FallbackFits
  <2>3. CASE BoundProofs = {}
    <3>1. /\ rejected = 0 <=> AllAccepted
          /\ results = << >> => queued = << >>
          /\ queued = << >> /\ results # << >> => ~AllAccepted
      BY <2>1, <2>3 DEF Counted
    <3>2. queued' = << >> => ~AllAccepted'
      BY <1>15, <1>16
    <3>3. QED
      BY <1>10, <1>15, <1>17, <1>18, <2>3, <3>1, <3>2 DEF Counted
  <2>4. CASE BoundProofs # {}
    <3>1. queued # << >>
          /\ (rejected = 0 <=> AllAccepted /\ (proofs[1].after = 0 => FallbackFits))
      BY <2>1, <2>4 DEF Counted
    <3>2. QED
      BY <1>1, <1>10, <1>15, <1>16, <1>17, <2>2, <2>4, <3>1 DEF Counted
  <2>5. QED
    BY <2>3, <2>4
<1>20. LaterProofsReplay'
  BY <1>1, <1>10 DEF InputIInv, LaterProofsReplay
<1>21. ReadyTellsTheSession'
  <2>1. ASSUME NEW k \in BoundProofs
        PROVE  NothingRefused(k)' <=> NothingRefused(k)
    <3>1. proofs[k].after \in Nat /\ proofs[k].after <= Len(results) /\ Len(results) \in Nat
      BY <1>2, <1>6, ProofParts DEF InputIInv, ProofsFollow, BoundProofs
    <3>2. \A r \in 1 .. proofs[k].after : r \in DOMAIN results
      BY <1>6, <3>1
    <3>3. \A r \in 1 .. proofs[k].after : results'[r] = results[r]
      BY <1>7, <3>2
    <3>4. QED
      BY <1>1, <3>3 DEF NothingRefused
  <2>2. QED
    BY <1>1, <1>10, <2>1 DEF InputIInv, ReadyTellsTheSession
<1>22. QED
  BY <1>9, <1>11, <1>12, <1>13, <1>14, <1>19, <1>20, <1>21 DEF InputIInv

(* A proof that is added leaves the ones before it as they are.                     *)
LEMMA ProofAdded ==
  ASSUME InputTypes, NEW p \in Proof, proofs' = Append(proofs, p)
  PROVE  /\ proofs' \in Seq(Proof) /\ Len(proofs') = Len(proofs) + 1
         /\ DOMAIN proofs' = DOMAIN proofs \cup {Len(proofs) + 1}
         /\ \A k \in DOMAIN proofs :
              /\ proofs'[k] = proofs[k] /\ k <= Len(proofs)
              /\ First(k)' = First(k) /\ Past(k)' = Past(k)
         /\ proofs'[Len(proofs) + 1] = p
         /\ BoundProofs' = BoundProofs \cup (IF p.bound THEN {Len(proofs) + 1} ELSE {})
<1>1. proofs \in Seq(Proof)
  BY DEF InputTypes
<1>2. /\ proofs' \in Seq(Proof) /\ Len(proofs') = Len(proofs) + 1
      /\ DOMAIN proofs' = DOMAIN proofs \cup {Len(proofs) + 1}
      /\ \A k \in DOMAIN proofs : k # Len(proofs) + 1 /\ proofs'[k] = proofs[k]
      /\ proofs'[Len(proofs) + 1] = p
  BY <1>1, AppendIs
<1>3. \A k \in DOMAIN proofs : k <= Len(proofs)
  BY <1>1
<1>4. \A k \in DOMAIN proofs : First(k)' = First(k) /\ Past(k)' = Past(k)
  BY <1>2 DEF First, Past
<1>5. BoundProofs' = BoundProofs \cup (IF p.bound THEN {Len(proofs) + 1} ELSE {})
  BY <1>2 DEF BoundProofs
<1>6. QED
  BY <1>2, <1>3, <1>4, <1>5

LEMMA UnboundProofKeeps ==
  ASSUME InputIInv, RunDeterministicProof, ~screen.bound
  PROVE  InputIInv'
<1>1. /\ proofs' = Append(proofs, Unbound) /\ screen' = screen /\ results' = results
      /\ queued' = queued /\ rejected' = rejected /\ nextId' = nextId
  BY DEF RunDeterministicProof
<1>2. InputTypes /\ ProofsFollow
  BY DEF InputIInv
<1>3. results \in Seq(Result)
  BY <1>2 DEF InputTypes
<1>4. Unbound \in Proof /\ Unbound.bound = FALSE /\ Unbound.after = Len(results)
  BY <1>3 DEF Unbound, Proof
<1>5. BoundProofs = {}
  BY <1>2 DEF ProofsFollow, BoundProofs
<1>6. /\ proofs' \in Seq(Proof) /\ BoundProofs' = {}
      /\ DOMAIN proofs' = DOMAIN proofs \cup {Len(proofs) + 1}
      /\ \A k \in DOMAIN proofs : proofs'[k] = proofs[k]
      /\ proofs'[Len(proofs) + 1] = Unbound
  BY <1>1, <1>2, <1>4, <1>5, ProofAdded
<1>7. InputTypes'
  BY <1>1, <1>2, <1>6 DEF InputTypes
<1>8. ProofsFollow'
  <2>1. screen.bound = FALSE
    BY <1>2, ScreenType
  <2>2. Len(results) <= Len(results)
    BY <1>3
  <2>3. QED
    BY <1>1, <1>2, <1>4, <1>6, <2>1, <2>2 DEF ProofsFollow
<1>9. Counted'
  BY <1>1, <1>5, <1>6 DEF InputIInv, Counted, AllAccepted
<1>10. InputsNumbered'
  BY <1>1, <1>6 DEF InputIInv, InputsNumbered, NoIdsBrought
<1>11. QED
  BY <1>6, <1>7, <1>8, <1>9, <1>10
     DEF InputIInv, QueueKeeps, StatesNumbered, LaterProofsReplay, ReadyTellsTheSession

(* What a proof posts: the queue, and behind it the events it fell back on.         *)
LEMMA PostedAre ==
  ASSUME NEW q \in Seq(EventType), NEW own \in Seq(EventType), NEW n \in Nat \ {0},
         NEW posted,
         posted = q \o [k \in DOMAIN own |-> [own[k] EXCEPT !.id = n + k - 1]]
  PROVE  /\ posted \in Seq(EventType) /\ Len(posted) = Len(q) + Len(own)
         /\ IsPrefix(q, posted)
         /\ \A i \in DOMAIN posted :
              \/ i \in DOMAIN q /\ posted[i] = q[i]
              \/ posted[i].id >= n /\ posted[i].id < n + Len(own)
<1> DEFINE tail == [k \in DOMAIN own |-> [own[k] EXCEPT !.id = n + k - 1]]
<1>1. DOMAIN own = 1 .. Len(own) /\ Len(own) \in Nat
  OBVIOUS
<1>2. ASSUME NEW k \in 1 .. Len(own)
      PROVE  /\ [own[k] EXCEPT !.id = n + k - 1] \in EventType
             /\ [own[k] EXCEPT !.id = n + k - 1].id = n + k - 1
  <2>1. own[k] \in EventType /\ n + k - 1 \in Nat
    BY <1>1
  <2>2. QED
    BY <2>1 DEF EventType
<1>3. /\ tail \in Seq(EventType) /\ Len(tail) = Len(own)
      /\ \A k \in 1 .. Len(own) : tail[k].id = n + k - 1
  <2>1. tail \in [1 .. Len(own) -> EventType]
    BY <1>1, <1>2
  <2>2. \A k \in 1 .. Len(own) : tail[k].id = n + k - 1
    BY <1>1, <1>2
  <2> HIDE DEF tail
  <2>3. tail \in Seq(EventType) /\ Len(tail) = Len(own)
    BY <1>1, <2>1, SequenceOf
  <2>4. QED
    BY <2>2, <2>3
<1>4. posted = q \o tail
  OBVIOUS
<1> HIDE DEF tail
<1>5. /\ posted \in Seq(EventType) /\ Len(posted) = Len(q) + Len(own)
      /\ \A i \in 1 .. Len(q) : posted[i] = q[i]
      /\ \A i \in DOMAIN posted : i \notin DOMAIN q =>
           i - Len(q) \in 1 .. Len(own) /\ posted[i] = tail[i - Len(q)]
  <2>1. /\ q \o tail \in Seq(EventType) /\ Len(q \o tail) = Len(q) + Len(tail)
        /\ \A i \in 1 .. Len(q) : (q \o tail)[i] = q[i]
        /\ \A i \in DOMAIN (q \o tail) : i \notin DOMAIN q =>
             i - Len(q) \in 1 .. Len(tail) /\ (q \o tail)[i] = tail[i - Len(q)]
    <3>1. tail \in Seq(EventType)
      BY <1>3
    <3>2. QED
      BY <3>1, ConcatIs, Zenon
  <2>2. QED
    BY <1>3, <1>4, <2>1, Zenon
<1>6. IsPrefix(q, posted)
  <2>1. Len(q) <= Len(posted)
    BY <1>1, <1>5
  <2>2. QED
    BY <1>5, <2>1, PrefixMeans
<1>7. ASSUME NEW i \in DOMAIN posted
      PROVE  \/ i \in DOMAIN q /\ posted[i] = q[i]
             \/ posted[i].id >= n /\ posted[i].id < n + Len(own)
  <2>1. CASE i \in DOMAIN q
    BY <1>5, <2>1
  <2>2. CASE i \notin DOMAIN q
    <3>1. i - Len(q) \in 1 .. Len(own) /\ posted[i].id = n + (i - Len(q)) - 1
      BY <1>3, <1>5, <2>2
    <3>2. QED
      BY <1>1, <3>1
  <2>3. QED
    BY <2>1, <2>2
<1>8. QED
  BY <1>5, <1>6, <1>7

LEMMA BoundProofKeeps ==
  ASSUME InputIInv, RunDeterministicProof, screen.bound
  PROVE  InputIInv'
<1> DEFINE own     == IF queued = << >> THEN OfferedDefaults ELSE << >>
           refused == IF queued = << >> THEN Len(DefaultEvents) - Len(own) ELSE 0
           posted  == queued \o [k \in DOMAIN own |-> [own[k] EXCEPT !.id = nextId + k - 1]]
           first   == nextId + Len(own)
           new     == [bound |-> TRUE, ready |-> rejected' = 0, states |-> StateIds(first),
                       inputs |-> posted, after |-> Len(results)]
<1>0. PICK last : last = Len(proofs) + 1
  OBVIOUS
<1>1. /\ queued' = posted /\ rejected' = rejected + refused
      /\ nextId' = first + Len(States) /\ proofs' = Append(proofs, new)
      /\ screen' = screen /\ results' = results
  BY DEF RunDeterministicProof, Prove, Kept
<1>2. InputTypes
  BY DEF InputIInv
<1>3. /\ queued \in Seq(EventType) /\ nextId \in Nat \ {0} /\ rejected \in Nat
      /\ results \in Seq(Result) /\ proofs \in Seq(Proof)
  BY <1>2 DEF InputTypes
<1>4. /\ own \in Seq(EventType) /\ Len(own) \in Nat
      /\ queued = << >> => Len(own) \in 2 .. 5 /\ refused = 5 - Len(own)
                           /\ (Len(own) = 5 <=> FallbackFits)
      /\ queued # << >> => refused = 0
  BY <1>2, OfferedDefaultsAre
<1> HIDE DEF own, refused
<1>5. refused \in Nat /\ (refused = 0 <=> queued # << >> \/ FallbackFits)
  <2>1. CASE queued = << >>
    <3>1. Len(own) \in 2 .. 5 /\ refused = 5 - Len(own)
      BY <1>4, <2>1
    <3>2. Len(own) = 5 <=> FallbackFits
      BY <1>4, <2>1
    <3>3. refused \in Nat /\ (refused = 0 <=> Len(own) = 5)
      <4>1. \A l \in 2 .. 5 : 5 - l \in Nat /\ (5 - l = 0 <=> l = 5)
        OBVIOUS
      <4>2. QED
        BY <3>1, <4>1, Zenon
    <3>4. QED
      BY <2>1, <3>2, <3>3
  <2>2. CASE queued # << >>
    BY <1>4, <2>2
  <2>3. QED
    BY <2>1, <2>2
<1>6. /\ posted \in Seq(EventType) /\ Len(posted) = Len(queued) + Len(own)
      /\ IsPrefix(queued, posted)
      /\ \A i \in DOMAIN posted :
           \/ i \in DOMAIN queued /\ posted[i] = queued[i]
           \/ posted[i].id >= nextId /\ posted[i].id < first
  <2>1. nextId \in Nat \ {0}
    BY <1>3
  <2>2. QED
    BY <1>3, <1>4, <2>1, PostedAre
<1>7. first \in Nat /\ nextId <= first /\ nextId' = first + 6 /\ Len(States) = 6
  <2>1. first \in Nat /\ nextId <= first
    BY <1>3, <1>4
  <2>2. Len(States) = 6
    BY DEF States
  <2>3. QED
    BY <1>1, <2>1, <2>2
<1>8. /\ StateIds(first) \in Seq(Nat) /\ StateIds(first)[1] = first
  <2>1. 1 \in 1 .. 6
    OBVIOUS
  <2>2. StateIds(first)[1] = first + 1 - 1
    BY <1>7, <2>1, StateIdsAre
  <2>3. QED
    BY <1>7, <2>2, StateIdsAre
<1> HIDE DEF posted, first
<1>9. (rejected' = 0) \in BOOLEAN /\ Len(results) \in Nat
  BY <1>3
<1>10. /\ new \in Proof /\ new.bound = TRUE /\ new.ready = (rejected' = 0)
       /\ new.states = StateIds(first) /\ new.inputs = posted /\ new.after = Len(results)
  BY <1>6, <1>8, <1>9 DEF Proof
<1> HIDE DEF new
<1>11. /\ proofs' \in Seq(Proof) /\ BoundProofs' = BoundProofs \cup {last}
       /\ DOMAIN proofs' = DOMAIN proofs \cup {last}
       /\ \A k \in DOMAIN proofs :
            /\ proofs'[k] = proofs[k] /\ k <= Len(proofs)
            /\ First(k)' = First(k) /\ Past(k)' = Past(k)
       /\ proofs'[last] = new
  BY <1>0, <1>1, <1>2, <1>10, ProofAdded
<1>12. /\ BoundProofs \subseteq DOMAIN proofs /\ DOMAIN proofs = 1 .. Len(proofs)
       /\ Len(proofs) \in Nat /\ last \in Nat /\ last \notin DOMAIN proofs
  BY <1>0, <1>3 DEF BoundProofs
<1>13. first = First(last)' /\ Past(last)' = first + 6
  BY <1>7, <1>8, <1>10, <1>11 DEF First, Past
<1>14. InputTypes'
  <2>1. nextId' \in Nat \ {0} /\ rejected' \in Nat
    BY <1>1, <1>3, <1>5, <1>7
  <2>2. QED
    BY <1>1, <1>2, <1>6, <1>11, <2>1 DEF InputTypes
<1>15. ProofsFollow'
  <2>1. screen.bound = TRUE
    BY <1>2, ScreenType
  <2>2. Len(results) <= Len(results)
    BY <1>9
  <2>3. \A k \in DOMAIN proofs' :
          proofs'[k].bound = screen.bound /\ proofs'[k].after <= Len(results)
    BY <1>10, <1>11, <2>1, <2>2 DEF InputIInv, ProofsFollow
  <2>4. QED
    BY <1>1, <2>3 DEF ProofsFollow
<1>16. \A k \in BoundProofs : /\ proofs[k].inputs \in Seq(EventType)
                              /\ IsPrefix(proofs[k].inputs, posted)
  <2>1. TAKE k \in BoundProofs
  <2>2. proofs[k].inputs \in Seq(EventType) /\ IsPrefix(proofs[k].inputs, queued)
    BY <1>2, <1>12, ProofParts DEF InputIInv, QueueKeeps
  <2>3. QED
    BY <1>3, <1>6, <2>2, PrefixGrows
<1>17. QueueKeeps'
  <2>1. IsPrefix(posted, posted)
    BY <1>6, PrefixOfItself
  <2>2. QED
    BY <1>1, <1>10, <1>11, <1>12, <1>16, <2>1 DEF QueueKeeps
<1>18. StatesNumbered'
  <2>1. ASSUME NEW k \in BoundProofs
        PROVE  /\ proofs'[k].states = StateIds(First(k)') /\ Past(k)' <= first
               /\ Past(k)' <= nextId'
    <3>1. proofs[k].states = StateIds(First(k)) /\ Past(k) <= nextId
      BY DEF InputIInv, StatesNumbered
    <3>2. Past(k) \in Nat
      BY <1>2, FirstType DEF InputIInv
    <3>3. QED
      BY <1>3, <1>7, <1>11, <1>12, <3>1, <3>2
  <2>2. proofs'[last].states = StateIds(First(last)') /\ Past(last)' <= nextId'
    BY <1>7, <1>10, <1>11, <1>13
  <2>3. ASSUME NEW j \in BoundProofs', NEW k \in BoundProofs', j < k
        PROVE  Past(j)' <= First(k)'
    <3>1. CASE k = last
      <4>1. j \in BoundProofs
        BY <1>11, <1>12, <2>3, <3>1
      <4>2. QED
        BY <1>13, <2>1, <3>1, <4>1
    <3>2. CASE k # last
      <4>1. k \in BoundProofs /\ k <= Len(proofs) /\ k \in 1 .. Len(proofs)
        BY <1>0, <1>3, <1>11, <1>12, <3>2
      <4>2. j \in BoundProofs
        BY <1>0, <1>11, <1>12, <2>3, <4>1
      <4>3. QED
        BY <1>11, <1>12, <2>3, <4>1, <4>2 DEF InputIInv, StatesNumbered
    <3>3. QED
      BY <3>1, <3>2
  <2>4. \A k : StateIds(First(k))' = StateIds(First(k)')
    BY DEF StateIds
  <2>5. QED
    <3>1. \A k \in BoundProofs' : /\ proofs'[k].states = StateIds(First(k)')
                                  /\ Past(k)' <= nextId'
      BY <1>11, <1>12, <2>1, <2>2
    <3>2. QED
      BY <2>3, <2>4, <3>1 DEF StatesNumbered
<1>19. InputsNumbered'
  <2>1. SUFFICES ASSUME NoIdsBrought', NEW i \in DOMAIN posted
                 PROVE  /\ posted[i].id < nextId'
                        /\ \A k \in BoundProofs' :
                             posted[i].id < First(k)' \/ Past(k)' <= posted[i].id
    BY <1>1 DEF InputsNumbered
  <2>2. NoIdsBrought
    BY <1>1, <2>1 DEF NoIdsBrought
  <2>3. posted[i].id \in Nat
    <3>1. posted[i] \in EventType
      BY <1>6, <2>1
    <3>2. QED
      BY <3>1 DEF EventType
  <2>4. posted[i].id < first
    <3>1. CASE i \in DOMAIN queued /\ posted[i] = queued[i]
      BY <1>3, <1>7, <2>2, <2>3, <3>1 DEF InputIInv, InputsNumbered
    <3>2. CASE ~(i \in DOMAIN queued /\ posted[i] = queued[i])
      BY <1>6, <2>1, <3>2
    <3>3. QED
      BY <3>1, <3>2
  <2>5. ASSUME NEW k \in BoundProofs
        PROVE  posted[i].id < First(k) \/ Past(k) <= posted[i].id
    <3>1. CASE i \in DOMAIN queued /\ posted[i] = queued[i]
      BY <2>2, <2>5, <3>1 DEF InputIInv, InputsNumbered
    <3>2. CASE ~(i \in DOMAIN queued /\ posted[i] = queued[i])
      <4>1. posted[i].id >= nextId
        BY <1>6, <2>1, <3>2
      <4>2. Past(k) <= nextId /\ Past(k) \in Nat
        BY <1>2, FirstType DEF InputIInv, StatesNumbered
      <4>3. QED
        BY <1>3, <2>3, <4>1, <4>2
    <3>3. QED
      BY <3>1, <3>2
  <2>6. QED
    BY <1>7, <1>11, <1>12, <1>13, <2>3, <2>4, <2>5
<1>20. /\ (rejected' = 0) <=> AllAccepted /\ (proofs'[1].after = 0 => FallbackFits)
       /\ queued' # << >>
  <2>1. Counted
    BY DEF InputIInv
  <2>2. (rejected' = 0) <=> rejected = 0 /\ refused = 0
    BY <1>1, <1>3, <1>5
  <2>3. CASE BoundProofs = {}
    <3>1. /\ rejected = 0 <=> AllAccepted
          /\ results = << >> => queued = << >>
          /\ queued = << >> /\ results # << >> => ~AllAccepted
      BY <2>1, <2>3 DEF Counted
    <3>2. proofs = << >>
      <4>1. screen.bound = TRUE
        BY <1>2, ScreenType
      <4>2. DOMAIN proofs = {}
        BY <2>3, <4>1 DEF InputIInv, ProofsFollow, BoundProofs
      <4>3. QED
        BY <1>3, <4>2
    <3>3. last = 1
      BY <1>0, <3>2
    <3>4. proofs'[1].after = Len(results)
      BY <1>10, <1>11, <3>3
    <3>5. Len(results) = 0 <=> results = << >>
      BY <1>3
    <3>6. (rejected' = 0) <=> AllAccepted /\ (proofs'[1].after = 0 => FallbackFits)
      BY <1>5, <2>2, <3>1, <3>4, <3>5
    <3>7. Len(posted) > 0
      <4>1. Len(queued) \in Nat /\ (queued # << >> => Len(queued) > 0)
        BY <1>3
      <4>2. CASE queued = << >>
        BY <1>4, <1>6, <4>1, <4>2
      <4>3. CASE queued # << >>
        BY <1>4, <1>6, <4>1, <4>3
      <4>4. QED
        BY <4>2, <4>3
    <3>8. QED
      BY <1>1, <1>6, <3>6, <3>7
  <2>4. CASE BoundProofs # {}
    <3>1. /\ queued # << >>
          /\ rejected = 0 <=> AllAccepted /\ (proofs[1].after = 0 => FallbackFits)
      BY <2>1, <2>4 DEF Counted
    <3>2. 1 \in DOMAIN proofs
      BY <1>3, <1>12, <2>4
    <3>3. Len(posted) > 0
      BY <1>3, <1>4, <1>6, <3>1
    <3>4. QED
      BY <1>1, <1>5, <1>6, <1>11, <2>2, <3>1, <3>2, <3>3
  <2>5. QED
    BY <2>3, <2>4
<1>21. AllAccepted' = AllAccepted /\ FallbackFits' = FallbackFits
  BY <1>1 DEF AllAccepted, FallbackFits
<1>22. Counted'
  BY <1>11, <1>20, <1>21 DEF Counted
<1>23. LaterProofsReplay'
  <2>1. SUFFICES ASSUME NEW j \in BoundProofs', NEW k \in BoundProofs', j < k
                 PROVE  IsPrefix(proofs'[j].inputs, proofs'[k].inputs)
    BY DEF LaterProofsReplay
  <2>2. CASE k = last
    <3>1. j \in BoundProofs
      BY <1>11, <1>12, <2>1, <2>2
    <3>2. QED
      BY <1>10, <1>11, <1>12, <1>16, <2>2, <3>1
  <2>3. CASE k # last
    <3>1. k \in BoundProofs /\ k <= Len(proofs) /\ k \in 1 .. Len(proofs)
      BY <1>0, <1>3, <1>11, <1>12, <2>3
    <3>2. j \in BoundProofs
      BY <1>0, <1>11, <1>12, <2>1, <3>1
    <3>3. QED
      BY <1>11, <1>12, <2>1, <3>1, <3>2 DEF InputIInv, LaterProofsReplay
  <2>4. QED
    BY <2>2, <2>3
<1>24. ReadyTellsTheSession'
  <2>1. SUFFICES ASSUME NEW k \in BoundProofs'
                 PROVE  proofs'[k].ready <=>
                          /\ \A r \in 1 .. proofs'[k].after : results[r].accepted
                          /\ proofs'[1].after = 0 => FallbackFits
    BY <1>1 DEF ReadyTellsTheSession, NothingRefused, FallbackFits
  <2>2. CASE k = last
    <3>1. AllAccepted <=> \A r \in 1 .. proofs'[k].after : results[r].accepted
      BY <1>3, <1>10, <1>11, <2>2 DEF AllAccepted
    <3>2. QED
      BY <1>10, <1>11, <1>20, <2>2, <3>1
  <2>3. CASE k # last
    <3>1. k \in BoundProofs
      BY <1>11, <2>3
    <3>2. 1 \in DOMAIN proofs
      BY <1>3, <1>12, <3>1
    <3>3. QED
      BY <1>11, <1>12, <3>1, <3>2
         DEF InputIInv, ReadyTellsTheSession, NothingRefused, FallbackFits
  <2>4. QED
    BY <2>2, <2>3
<1>25. QED
  BY <1>14, <1>15, <1>17, <1>18, <1>19, <1>22, <1>23, <1>24 DEF InputIInv

LEMMA InputNextKeeps ==
  ASSUME InputIInv, [InputNext]_inputVars
  PROVE  InputIInv'
<1>1. CASE \E e \in InputEvents : EnqueueInputEvent(e)
  BY <1>1, EnqueueKeeps
<1>2. CASE RunDeterministicProof
  BY <1>2, BoundProofKeeps, UnboundProofKeeps
<1>3. CASE UNCHANGED inputVars
  BY <1>3 DEF inputVars, InputIInv, InputTypes, ProofsFollow, QueueKeeps, StatesNumbered,
     InputsNumbered, NoIdsBrought, Counted, AllAccepted, FallbackFits, LaterProofsReplay,
     ReadyTellsTheSession, NothingRefused, BoundProofs, First, Past, StateIds
<1>4. QED
  BY <1>1, <1>2, <1>3 DEF InputNext, SessionOver

LEMMA InputInvariant == InputSpec => []InputIInv
<1>1. InputInit => InputIInv
  BY InputInitKeeps
<1>2. InputIInv /\ [InputNext]_inputVars => InputIInv'
  BY InputNextKeeps
<1>3. QED
  BY <1>1, <1>2, PTL DEF InputSpec

(* Two states of one proof differ by their place in its block, states of different  *)
(* proofs by their blocks, and an input of a proof is in the queue.                 *)
LEMMA BlocksDiffer ==
  ASSUME InputIInv
  PROVE  NumbersDiffer
<1>1. InputTypes /\ StatesNumbered /\ InputsNumbered /\ QueueKeeps
  BY DEF InputIInv
<1>2. ASSUME NEW k \in BoundProofs
      PROVE  /\ k \in Nat /\ First(k) \in Nat /\ Past(k) = First(k) + 6
             /\ DOMAIN proofs[k].states = 1 .. 6
             /\ \A n \in 1 .. 6 : proofs[k].states[n] = First(k) + n - 1
  <2>1. k \in 1 .. Len(proofs) /\ proofs \in Seq(Proof)
    BY <1>1 DEF BoundProofs, InputTypes
  <2>2. First(k) \in Nat /\ Past(k) = First(k) + 6
    BY <1>1, FirstType
  <2>3. proofs[k].states = StateIds(First(k))
    BY <1>1 DEF StatesNumbered
  <2>4. k \in Nat
    BY <2>1
  <2>5. /\ DOMAIN StateIds(First(k)) = 1 .. 6
        /\ \A n \in 1 .. 6 : StateIds(First(k))[n] = First(k) + n - 1
    BY <2>2, StateIdsAre
  <2>6. QED
    BY <2>2, <2>3, <2>4, <2>5, Zenon
<1>3. ASSUME NEW p \in StateNumbers
      PROVE  /\ p = <<p[1], p[2]>> /\ p[1] \in BoundProofs /\ p[2] \in 1 .. 6
             /\ proofs[p[1]].states[p[2]] = First(p[1]) + p[2] - 1
  <2>1. PICK k \in BoundProofs : p \in {<<k, n>> : n \in DOMAIN proofs[k].states}
    BY DEF StateNumbers
  <2>2. PICK n \in 1 .. 6 : p = <<k, n>>
    BY <1>2, <2>1
  <2>3. QED
    BY <1>2, <2>2
<1>4. ASSUME NEW p \in StateNumbers, NEW q \in StateNumbers,
             proofs[p[1]].states[p[2]] = proofs[q[1]].states[q[2]]
      PROVE  p = q
  <2>1. /\ p[1] \in BoundProofs /\ p[2] \in 1 .. 6 /\ q[1] \in BoundProofs /\ q[2] \in 1 .. 6
        /\ First(p[1]) + p[2] - 1 = First(q[1]) + q[2] - 1
    BY <1>3, <1>4
  <2>2. /\ p[1] \in Nat /\ First(p[1]) \in Nat /\ Past(p[1]) = First(p[1]) + 6
        /\ q[1] \in Nat /\ First(q[1]) \in Nat /\ Past(q[1]) = First(q[1]) + 6
    BY <1>2, <2>1
  <2>3. /\ p[1] < q[1] => Past(p[1]) <= First(q[1])
        /\ q[1] < p[1] => Past(q[1]) <= First(p[1])
    BY <1>1, <2>1 DEF StatesNumbered
  <2>4. p[1] = q[1]
    BY <2>1, <2>2, <2>3
  <2>5. p[2] = q[2]
    BY <2>1, <2>2, <2>4
  <2>6. QED
    BY <1>3, <2>4, <2>5
<1>5. ASSUME NoIdsBrought, NEW p \in StateNumbers, NEW k \in BoundProofs,
             NEW n \in DOMAIN proofs[k].inputs
      PROVE  proofs[p[1]].states[p[2]] # proofs[k].inputs[n].id
  <2>1. /\ proofs[k].inputs \in Seq(EventType) /\ IsPrefix(proofs[k].inputs, queued)
        /\ queued \in Seq(EventType)
    BY <1>1, ProofParts DEF QueueKeeps, BoundProofs, InputTypes
  <2>2. n \in DOMAIN queued /\ queued[n] = proofs[k].inputs[n]
    <3>1. /\ Len(proofs[k].inputs) <= Len(queued)
          /\ \A i \in 1 .. Len(proofs[k].inputs) : proofs[k].inputs[i] = queued[i]
      BY <2>1, PrefixMeans
    <3>2. n \in 1 .. Len(proofs[k].inputs) /\ Len(proofs[k].inputs) \in Nat /\ Len(queued) \in Nat
      BY <2>1
    <3>3. QED
      BY <2>1, <3>1, <3>2
  <2>3. queued[n].id \in Nat
    <3>1. queued[n] \in EventType
      BY <2>1, <2>2
    <3>2. QED
      BY <3>1 DEF EventType
  <2>4. p[1] \in BoundProofs /\ p[2] \in 1 .. 6
        /\ proofs[p[1]].states[p[2]] = First(p[1]) + p[2] - 1
    BY <1>3
  <2>5. queued[n].id < First(p[1]) \/ Past(p[1]) <= queued[n].id
    BY <1>1, <1>5, <2>2, <2>4 DEF InputsNumbered
  <2>6. First(p[1]) \in Nat /\ Past(p[1]) = First(p[1]) + 6
    BY <1>2, <2>4
  <2>7. proofs[p[1]].states[p[2]] # queued[n].id
    BY <2>3, <2>4, <2>5, <2>6
  <2>8. QED
    BY <2>2, <2>7
<1>6. QED
  BY <1>4, <1>5 DEF NumbersDiffer, NoIdsBrought

--------------------------------------------------------------------------------
(* What is in the queue, and how often a client was refused.                       *)

(* Whether an event is accepted does not depend on the number it is given.          *)
LEMMA NumberedAccepts ==
  ASSUME NEW e \in EventType, NEW n \in Nat
  PROVE  /\ [e EXCEPT !.id = n] \in EventType /\ [e EXCEPT !.id = n].id = n
         /\ Accepts([e EXCEPT !.id = n]) <=> Accepts(e)
  BY DEF EventType, Accepts, OnScreen

LEMMA OfferedAccepts ==
  ASSUME NEW s \in Seq(EventType), \A k \in DOMAIN s : Accepts(s[k]), NEW e \in EventType
  PROVE  /\ s \o Offered(e) \in Seq(EventType)
         /\ \A k \in DOMAIN (s \o Offered(e)) : Accepts((s \o Offered(e))[k])
<1>1. Offered(e) \in Seq(EventType)
  BY OfferedIs
<1>2. \A k \in 1 .. Len(Offered(e)) : Accepts(Offered(e)[k])
  BY DEF Offered
<1>3. PICK t : t = s \o Offered(e)
  OBVIOUS
<1>4. /\ t \in Seq(EventType)
      /\ \A k \in 1 .. Len(s) : t[k] = s[k]
      /\ \A k \in DOMAIN t : k \notin DOMAIN s =>
           k - Len(s) \in 1 .. Len(Offered(e)) /\ t[k] = Offered(e)[k - Len(s)]
  BY <1>1, <1>3, ConcatIs, Zenon
<1>5. ASSUME NEW k \in DOMAIN t PROVE Accepts(t[k])
  <2>1. CASE k \in DOMAIN s
    BY <1>4, <2>1
  <2>2. CASE k \notin DOMAIN s
    BY <1>2, <1>4, <2>2
  <2>3. QED
    BY <2>1, <2>2
<1>6. QED
  BY <1>3, <1>4, <1>5

LEMMA DefaultsAccept ==
  ASSUME InputTypes, NEW k \in DOMAIN OfferedDefaults
  PROVE  Accepts(OfferedDefaults[k])
<1>1. screen.width \in Int /\ screen.height \in Int
  BY ScreenType
<1>2. PICK a, b, c : /\ DefaultEvents = <<a, b, b, c, c>>
                     /\ a \in EventType /\ b \in EventType /\ c \in EventType
  <2>1. screen.width \div 4 \in Int /\ screen.height \div 4 \in Int
        /\ screen.width \div 2 \in Int /\ screen.height \div 2 \in Int
    BY <1>1
  <2>2. Touch(screen.width \div 4, screen.height \div 4) \in EventType
        /\ Touch(screen.width \div 2, screen.height \div 2) \in EventType
    BY <2>1, TouchIs
  <2>3. QED
    BY <2>2, KeyIs DEF DefaultEvents
<1>3. PICK e1, e2, e3, e4, e5 :
        /\ e1 = Offered(a) /\ e2 = e1 \o Offered(b) /\ e3 = e2 \o Offered(b)
        /\ e4 = e3 \o Offered(c) /\ e5 = e4 \o Offered(c)
  OBVIOUS
<1>4. OfferedDefaults = e5
  BY <1>2, <1>3 DEF OfferedDefaults
<1>5. e1 \in Seq(EventType) /\ \A i \in DOMAIN e1 : Accepts(e1[i])
  <2>1. Offered(a) \in Seq(EventType)
    BY <1>2, OfferedIs
  <2>2. \A i \in DOMAIN Offered(a) : Accepts(Offered(a)[i])
    BY DEF Offered
  <2>3. QED
    BY <1>3, <2>1, <2>2
<1>6. e2 \in Seq(EventType) /\ \A i \in DOMAIN e2 : Accepts(e2[i])
  BY <1>2, <1>3, <1>5, OfferedAccepts
<1>7. e3 \in Seq(EventType) /\ \A i \in DOMAIN e3 : Accepts(e3[i])
  BY <1>2, <1>3, <1>6, OfferedAccepts
<1>8. e4 \in Seq(EventType) /\ \A i \in DOMAIN e4 : Accepts(e4[i])
  BY <1>2, <1>3, <1>7, OfferedAccepts
<1>9. e5 \in Seq(EventType) /\ \A i \in DOMAIN e5 : Accepts(e5[i])
  BY <1>2, <1>3, <1>8, OfferedAccepts
<1>10. QED
  BY <1>4, <1>9

(* What the queue holds after a proof: what it held, and the fallbacks that fitted.  *)
LEMMA PostedAccept ==
  ASSUME NEW q \in Seq(EventType), NEW own \in Seq(EventType), NEW n \in Nat \ {0},
         \A k \in DOMAIN q : Accepts(q[k]) /\ q[k].id # 0,
         \A k \in DOMAIN own : Accepts(own[k]),
         NEW posted,
         posted = q \o [k \in DOMAIN own |-> [own[k] EXCEPT !.id = n + k - 1]]
  PROVE  \A i \in DOMAIN posted : Accepts(posted[i]) /\ posted[i].id # 0
<1>1. PICK tail : tail = [k \in DOMAIN own |-> [own[k] EXCEPT !.id = n + k - 1]]
  OBVIOUS
<1>2. DOMAIN own = 1 .. Len(own) /\ Len(own) \in Nat
  OBVIOUS
<1>3. ASSUME NEW k \in 1 .. Len(own)
      PROVE  tail[k] \in EventType /\ Accepts(tail[k]) /\ tail[k].id # 0
  <2>1. own[k] \in EventType /\ Accepts(own[k]) /\ n + k - 1 \in Nat /\ n + k - 1 # 0
    BY <1>2
  <2>2. tail[k] = [own[k] EXCEPT !.id = n + k - 1]
    BY <1>1, <1>2
  <2>3. QED
    BY <2>1, <2>2, NumberedAccepts
<1>4. tail \in Seq(EventType) /\ Len(tail) = Len(own)
  <2>1. tail \in [1 .. Len(own) -> EventType]
    BY <1>1, <1>2, <1>3
  <2>2. QED
    BY <1>2, <2>1, SequenceOf
<1>5. posted = q \o tail
  BY <1>1
<1>6. tail \in Seq(EventType)
  BY <1>4
<1>7. /\ q \o tail \in Seq(EventType) /\ Len(q \o tail) = Len(q) + Len(tail)
      /\ \A i \in 1 .. Len(q) : (q \o tail)[i] = q[i]
      /\ \A i \in DOMAIN (q \o tail) : i \notin DOMAIN q =>
           i - Len(q) \in 1 .. Len(tail) /\ (q \o tail)[i] = tail[i - Len(q)]
  BY <1>6, ConcatIs, Zenon
<1>8. /\ \A i \in 1 .. Len(q) : posted[i] = q[i]
      /\ \A i \in DOMAIN posted : i \notin DOMAIN q =>
           i - Len(q) \in 1 .. Len(own) /\ posted[i] = tail[i - Len(q)]
  BY <1>4, <1>5, <1>7, Zenon
<1>9. ASSUME NEW i \in DOMAIN posted PROVE Accepts(posted[i]) /\ posted[i].id # 0
  <2>1. CASE i \in DOMAIN q
    <3>1. i \in 1 .. Len(q)
      BY <2>1
    <3>2. QED
      BY <1>8, <2>1, <3>1
  <2>2. CASE i \notin DOMAIN q
    <3>1. i - Len(q) \in 1 .. Len(own) /\ posted[i] = tail[i - Len(q)]
      BY <1>8, <1>9, <2>2, Zenon
    <3>2. QED
      BY <1>3, <3>1, Zenon
  <2>3. QED
    BY <2>1, <2>2
<1>10. QED
  BY <1>9

(* The answers that said no.                                                      *)
Refusals == {r \in DOMAIN results : ~results[r].accepted}

LEMMA RefusalsGrow ==
  ASSUME InputTypes, NEW a \in Result, results' = Append(results, a)
  PROVE  /\ Cardinality(Refusals) \in Nat /\ Cardinality(Refusals') \in Nat
         /\ Cardinality(Refusals') <= Cardinality(Refusals) + 1
         /\ a.accepted => Cardinality(Refusals') = Cardinality(Refusals)
<1>1. /\ results' \in Seq(Result)
      /\ DOMAIN results' = DOMAIN results \cup {Len(results) + 1}
      /\ \A r \in DOMAIN results : r # Len(results) + 1 /\ results'[r] = results[r]
      /\ results'[Len(results) + 1] = a
  <2>1. results \in Seq(Result)
    BY DEF InputTypes
  <2>2. QED
    BY <2>1, AppendIs
<1>2. IsFiniteSet(DOMAIN results)
  <2>1. Len(results) \in Nat /\ DOMAIN results = 1 .. Len(results)
    BY DEF InputTypes
  <2>2. QED
    BY <2>1, FS_Interval
<1>3. Refusals \in SUBSET DOMAIN results /\ IsFiniteSet(Refusals)
  BY <1>2, FS_Subset DEF Refusals
<1>4. Refusals' = IF a.accepted THEN Refusals ELSE Refusals \cup {Len(results) + 1}
  <2>1. \A r : r \in Refusals' <=> r \in DOMAIN results' /\ ~results'[r].accepted
    BY DEF Refusals
  <2>2. \A r : r \in Refusals <=> r \in DOMAIN results /\ ~results[r].accepted
    BY DEF Refusals
  <2>3. CASE a.accepted
    <3>1. \A r : r \in Refusals' <=> r \in Refusals
      BY <1>1, <2>1, <2>2, <2>3
    <3>2. QED
      BY <2>3, <3>1
  <2>4. CASE ~a.accepted
    <3>1. \A r : r \in Refusals' <=> r \in Refusals \/ r = Len(results) + 1
      BY <1>1, <2>1, <2>2, <2>4
    <3>2. QED
      BY <2>4, <3>1
  <2>5. QED
    BY <2>3, <2>4
<1>5. Cardinality(Refusals) \in Nat
  BY <1>3, FS_CardinalityType
<1>6. PICK last : last = Len(results) + 1
  OBVIOUS
<1>7. /\ Cardinality(Refusals \cup {last}) \in Nat
      /\ Cardinality(Refusals \cup {last}) <= Cardinality(Refusals) + 1
  <2>1. IsFiniteSet(Refusals)
    BY <1>3
  <2>2. Cardinality(Refusals \cup {last})
          = IF last \in Refusals THEN Cardinality(Refusals) ELSE Cardinality(Refusals) + 1
    BY <2>1, FS_AddElement, Zenon
  <2>3. QED
    BY <1>5, <2>2
<1>8. CASE a.accepted
  BY <1>4, <1>5, <1>8
<1>9. CASE ~a.accepted
  <2>1. Refusals' = Refusals \cup {last}
    BY <1>4, <1>6, <1>9
  <2>2. QED
    BY <1>5, <1>7, <1>9, <2>1
<1>10. QED
  BY <1>8, <1>9

LEMMA EnqueueKeepsTypes ==
  ASSUME InputIInv, InputTypeOK, NEW e \in InputEvents, EnqueueInputEvent(e)
  PROVE  InputTypeOK'
<1>1. PICK numbered, answer :
        /\ numbered = [e EXCEPT !.id = Number(e)]
        /\ answer = [accepted |-> Accepts(e), own |-> e.id # 0]
  OBVIOUS
<1>2. /\ IF Accepts(e)
           THEN queued' = Append(queued, numbered) /\ rejected' = rejected
           ELSE rejected' = rejected + 1 /\ queued' = queued
      /\ results' = Append(results, answer) /\ screen' = screen /\ proofs' = proofs
      /\ Len(results) < MaxEvents
  BY <1>1 DEF EnqueueInputEvent
<1>3. /\ InputTypes /\ InputIInv' /\ queued \in Seq(EventType) /\ nextId \in Nat \ {0}
      /\ rejected \in Nat /\ results \in Seq(Result)
  BY EnqueueKeeps DEF InputIInv, InputTypes
<1>4. e \in EventType /\ e.id \in Nat
  BY InputAssumption DEF EventType
<1>5. /\ numbered \in EventType /\ numbered.id # 0
      /\ Accepts(numbered) <=> Accepts(e)
  <2>1. Number(e) \in Nat /\ Number(e) # 0
    BY <1>3, <1>4 DEF Number
  <2>2. QED
    BY <1>1, <1>4, <2>1, NumberedAccepts
<1>6. answer \in Result /\ answer.accepted = Accepts(e)
  BY <1>1 DEF Result, Accepts
<1>7. \A k \in DOMAIN queued : Accepts(queued[k]) /\ queued[k].id # 0
  BY DEF InputTypeOK
<1>8. \A k \in DOMAIN queued' : Accepts(queued'[k]) /\ queued'[k].id # 0
  <2>1. CASE Accepts(e)
    BY <1>2, <1>3, <1>5, <1>7, <2>1, AppendIs
  <2>2. CASE ~Accepts(e)
    BY <1>2, <1>7, <2>2
  <2>3. QED
    BY <2>1, <2>2
<1>9. \A f : Accepts(f)' <=> Accepts(f)
  <2>1. screen' = screen
    BY <1>2
  <2>2. QED
    BY <2>1 DEF Accepts, OnScreen
<1>10. rejected' >= Cardinality(Refusals')
  <2>1. rejected >= Cardinality(Refusals)
    BY DEF InputTypeOK, Refusals
  <2>2. /\ Cardinality(Refusals) \in Nat /\ Cardinality(Refusals') \in Nat
        /\ Cardinality(Refusals') <= Cardinality(Refusals) + 1
        /\ Accepts(e) => Cardinality(Refusals') = Cardinality(Refusals)
    BY <1>2, <1>3, <1>6, RefusalsGrow
  <2>3. QED
    BY <1>2, <1>3, <2>1, <2>2
<1>11. Len(results') <= MaxEvents
  <2>1. Len(results') = Len(results) + 1 /\ Len(results) \in Nat
    BY <1>2, <1>3, <1>6, AppendIs
  <2>2. QED
    BY <1>2, <2>1, InputAssumption
<1>12. nextId' > 0
  BY <1>3 DEF InputIInv, InputTypes
<1>13. QED
  BY <1>2, <1>8, <1>9, <1>10, <1>11, <1>12 DEF InputTypeOK, Refusals

LEMMA ProofKeepsTypes ==
  ASSUME InputIInv, InputTypeOK, RunDeterministicProof
  PROVE  InputTypeOK'
<1>1. InputTypes /\ InputIInv'
  BY BoundProofKeeps, UnboundProofKeeps DEF InputIInv
<1>2. /\ queued \in Seq(EventType) /\ nextId \in Nat \ {0} /\ rejected \in Nat
      /\ proofs \in Seq(Proof) /\ rejected' \in Nat /\ nextId' > 0 /\ proofs' \in Seq(Proof)
  BY <1>1 DEF InputIInv, InputTypes
<1>3. screen' = screen /\ results' = results /\ Len(proofs) < MaxProofs
  BY DEF RunDeterministicProof
<1>4. \A k \in DOMAIN queued : Accepts(queued[k]) /\ queued[k].id # 0
  BY DEF InputTypeOK
<1>5. Len(proofs') <= MaxProofs
  <2>1. \E p : proofs' = Append(proofs, p)
    BY DEF RunDeterministicProof, Prove
  <2>2. Len(proofs') = Len(proofs) + 1 /\ Len(proofs) \in Nat
    BY <1>2, <2>1
  <2>3. QED
    BY <1>3, <2>2, InputAssumption
<1>6. /\ \A k \in DOMAIN queued' : Accepts(queued'[k]) /\ queued'[k].id # 0
      /\ rejected' >= rejected
  <2>1. CASE ~screen.bound
    BY <1>2, <1>4, <2>1 DEF RunDeterministicProof
  <2>2. CASE screen.bound
    <3>1. PICK own, refused :
            /\ own = IF queued = << >> THEN OfferedDefaults ELSE << >>
            /\ refused = IF queued = << >> THEN Len(DefaultEvents) - Len(own) ELSE 0
      OBVIOUS
    <3>2. /\ queued' = queued \o [k \in DOMAIN own |-> [own[k] EXCEPT !.id = nextId + k - 1]]
          /\ rejected' = rejected + refused
      BY <2>2, <3>1 DEF RunDeterministicProof, Prove, Kept
    <3>3. own \in Seq(EventType) /\ \A k \in DOMAIN own : Accepts(own[k])
      BY <1>1, <3>1, OfferedDefaultsAre, DefaultsAccept
    <3>4. refused \in Nat
      <4>1. CASE queued = << >>
        <5>1. Len(own) \in 2 .. 5 /\ refused = 5 - Len(own)
          BY <1>1, <3>1, <4>1, OfferedDefaultsAre
        <5>2. \A l \in 2 .. 5 : 5 - l \in Nat
          OBVIOUS
        <5>3. QED
          BY <5>1, <5>2
      <4>2. CASE queued # << >>
        BY <3>1, <4>2
      <4>3. QED
        BY <4>1, <4>2
    <3>5. rejected' >= rejected
      BY <1>2, <3>2, <3>4
    <3>6. QED
      BY <1>2, <1>4, <3>2, <3>3, <3>5, PostedAccept
  <2>3. QED
    BY <2>1, <2>2
<1>7. \A f : Accepts(f)' <=> Accepts(f)
  <2>1. screen' = screen
    BY <1>3
  <2>2. QED
    BY <2>1 DEF Accepts, OnScreen
<1>8. rejected' >= Cardinality({r \in DOMAIN results : ~results[r].accepted})
  <2>1. rejected >= Cardinality(Refusals)
    BY DEF InputTypeOK, Refusals
  <2>2. Cardinality(Refusals) \in Nat
    <3>1. Len(results) \in Nat /\ DOMAIN results = 1 .. Len(results)
      BY <1>1 DEF InputTypes
    <3>2. IsFiniteSet(DOMAIN results) /\ Refusals \in SUBSET DOMAIN results
      BY <3>1, FS_Interval DEF Refusals
    <3>3. QED
      BY <3>2, FS_Subset, FS_CardinalityType
  <2>3. QED
    BY <1>2, <1>6, <2>1, <2>2 DEF Refusals
<1>9. QED
  BY <1>2, <1>3, <1>5, <1>6, <1>7, <1>8 DEF InputTypeOK

LEMMA SessionNewTypes == ASSUME SessionNew PROVE InputTypeOK
<1>1. queued = << >> /\ nextId = 1 /\ rejected = 0 /\ results = << >> /\ proofs = << >>
  BY DEF SessionNew
<1>2. {r \in DOMAIN results : ~results[r].accepted} = {}
  BY <1>1
<1>3. QED
  BY <1>1, <1>2, FS_EmptySet, InputAssumption DEF InputTypeOK

LEMMA InputTypesKept ==
  ASSUME InputIInv, InputTypeOK, [InputNext]_inputVars
  PROVE  InputTypeOK'
<1>1. CASE \E e \in InputEvents : EnqueueInputEvent(e)
  BY <1>1, EnqueueKeepsTypes
<1>2. CASE RunDeterministicProof
  BY <1>2, ProofKeepsTypes
<1>3. CASE UNCHANGED inputVars
  BY <1>3 DEF inputVars, InputTypeOK, Accepts, OnScreen
<1>4. QED
  BY <1>1, <1>2, <1>3 DEF InputNext, SessionOver

--------------------------------------------------------------------------------
(* The theorems.                                                                  *)

(* Whatever a client queues and however many proofs it runs, the log of the session *)
(* numbers no two lifecycle states alike, and none like an event it numbered itself *)
(* (next_sequence_id_ in EnqueueInputEvent and RunDeterministicProof).              *)
THEOREM NumbersAreUnique == InputSpec => []NumbersDiffer
  BY InputInvariant, BlocksDiffer, PTL

(* Every proof of a session dispatches again what the ones before it dispatched, in *)
(* the same order (queued_input_events_, which RunDeterministicProof only copies).  *)
THEOREM ProofsReplayTheQueue == InputSpec => []LaterProofsReplay
<1>1. InputIInv => LaterProofsReplay
  BY DEF InputIInv
<1>2. QED
  BY <1>1, InputInvariant, PTL

(* A bound proof is ready exactly if nothing was refused before it: no call of the  *)
(* client, and none of the events it fell back on (rejected_input_events_).        *)
THEOREM ReadinessIsHonest == InputSpec => []ReadyTellsTheSession
<1>1. InputIInv => ReadyTellsTheSession
  BY DEF InputIInv
<1>2. QED
  BY <1>1, InputInvariant, PTL

(* Whatever is queued and proved, the queue holds only events that fit, each with a   *)
(* number, and every refusal is counted (EnqueueInputEvent, RunDeterministicProof).  *)
THEOREM QueuesAreClean == InputSpec => []InputTypeOK
<1>1. InputInit => InputTypeOK
  BY SessionNewTypes DEF InputInit
<1>2. InputIInv /\ InputTypeOK /\ [InputNext]_inputVars => InputTypeOK'
  BY InputTypesKept
<1>3. QED
  BY <1>1, <1>2, InputInvariant, PTL DEF InputSpec
================================================================================
