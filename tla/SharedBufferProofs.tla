------------------------ MODULE SharedBufferProofs ------------------------
(***************************************************************************)
(* Proofs about the event buffer for every capacity, every set of classes, *)
(* every number of events and every order of calls.                        *)
(*                                                                         *)
(* Accounted is inductive once joined with TypeOK: its first conjunct (no  *)
(* two events share a number) is what makes removing by mark and removing  *)
(* by number the same thing, and the finiteness in TypeOK is what makes    *)
(* the eviction of the oldest event well defined.                          *)
(***************************************************************************)
EXTENDS SharedBuffer, FiniteSetTheorems, TLAPS

(* A leaf that names no prover is given this long.                         *)
USE SMTT(30)

Inv == TypeOK /\ Accounted /\ DropsCounted

----------------------------------------------------------------------------
(* A set of natural numbers that is not empty has a least one.  The order  *)
(* of the intervals 0..n under inclusion is the order of the numbers, and  *)
(* inclusion is well founded on finite sets.                               *)
LEMMA LeastNatural ==
    ASSUME NEW N \in SUBSET Nat, N # {}
    PROVE  \E n \in N : \A m \in N : n <= m
<1> DEFINE T == {0..n : n \in N}
<1>1. T \subseteq FiniteSubsetsOf(Nat)
  <2> SUFFICES ASSUME NEW n \in N PROVE 0..n \in FiniteSubsetsOf(Nat)
    OBVIOUS
  <2>1. IsFiniteSet(0..n)
    BY FS_Interval
  <2> QED BY <2>1 DEF FiniteSubsetsOf
<1>2. T # {}
  BY Zenon
<1>3. \E x \in T : \A y \in T : <<y, x>> \notin StrictSubsetOrdering(Nat)
  BY <1>1, <1>2, FS_StrictSubsetOrderingWellFounded, WFMin, Zenon
<1>4. PICK n \in N : \A m \in N : <<0..m, 0..n>> \notin StrictSubsetOrdering(Nat)
  BY <1>3, Zenon
<1>5. ASSUME NEW m \in N, m < n PROVE FALSE
  <2>1. 0..m \subseteq 0..n /\ n \in 0..n /\ n \notin 0..m
    BY <1>5
  <2>2. <<0..m, 0..n>> \in StrictSubsetOrdering(Nat)
    BY <2>1 DEF StrictSubsetOrdering
  <2> QED BY <1>4, <2>2
<1>6. \A m \in N : n <= m
  BY <1>5
<1> QED BY <1>6

(* A set of events that is not empty has an oldest one.                    *)
LEMMA OldestExists ==
    ASSUME NEW S \in SUBSET Event, S # {}
    PROVE  Oldest(S) \in S /\ \A f \in S : Oldest(S).seq <= f.seq
<1>1. Seqs(S) \subseteq Nat /\ Seqs(S) # {}
  BY DEF Seqs, Event
<1>2. PICK n \in Seqs(S) : \A m \in Seqs(S) : n <= m
  BY <1>1, LeastNatural
<1>3. \E e \in S : \A f \in S : e.seq <= f.seq
  BY <1>2 DEF Seqs
<1> QED
  BY <1>3 DEF Oldest

(* Marking changes no number, adds and removes no event.                   *)
LEMMA MarkKeepsEvents ==
    ASSUME NEW S \in SUBSET Event, NEW picked, NEW value \in BOOLEAN,
           \A e, f \in S : e.seq = f.seq => e = f
    PROVE  /\ Mark(S, picked, value) \in SUBSET Event
           /\ Seqs(Mark(S, picked, value)) = Seqs(S)
           /\ \A e, f \in Mark(S, picked, value) : e.seq = f.seq => e = f
<1> DEFINE M(e) == IF e.seq \in picked THEN [e EXCEPT !.selected = value] ELSE e
<1>1. \A e \in S : M(e) \in Event /\ M(e).seq = e.seq
  BY DEF Event
<1>2. Mark(S, picked, value) = {M(e) : e \in S}
  BY DEF Mark
<1>3. Mark(S, picked, value) \in SUBSET Event
  BY <1>1, <1>2
<1>4. Seqs(Mark(S, picked, value)) = Seqs(S)
  <2> HIDE DEF M
  <2> QED BY <1>1, <1>2 DEF Seqs
<1>5. \A e, f \in Mark(S, picked, value) : e.seq = f.seq => e = f
  <2> HIDE DEF M
  <2> QED BY <1>1, <1>2
<1> QED BY <1>3, <1>4, <1>5

(* Marking keeps the number of events, so the capacity is kept too.        *)
LEMMA MarkKeepsSize ==
    ASSUME NEW S, IsFiniteSet(S), NEW picked, NEW value
    PROVE  /\ IsFiniteSet(Mark(S, picked, value))
           /\ Cardinality(Mark(S, picked, value)) <= Cardinality(S)
<1> DEFINE T == Mark(S, picked, value)
           f == [e \in S |-> IF e.seq \in picked
                             THEN [e EXCEPT !.selected = value] ELSE e]
<1>1. f \in [S -> T]
  BY DEF Mark
<1>2. \A t \in T : \E e \in S : f[e] = t
  BY DEF Mark
<1>3. f \in Surjection(S, T)
  BY <1>1, <1>2, Zenon DEF Surjection
<1> QED BY <1>3, FS_Surjection

(* A set of events of which no two share a number has as many numbers as   *)
(* events.                                                                 *)
LEMMA SeqsCount ==
    ASSUME NEW S, IsFiniteSet(S), NEW T \in SUBSET S,
           \A e, f \in S : e.seq = f.seq => e = f
    PROVE  IsFiniteSet(Seqs(T)) /\ Cardinality(Seqs(T)) = Cardinality(T)
<1> DEFINE f == [e \in T |-> e.seq]
<1>1. IsFiniteSet(T)
  BY FS_Subset
<1>2. f \in Surjection(T, Seqs(T))
  BY DEF Surjection, Seqs
<1>3. f \in Injection(T, Seqs(T))
  BY DEF Injection, IsInjective, Seqs
<1> QED BY <1>1, <1>2, <1>3, FS_Surjection

(* A set of the numbers given out so far is finite.                        *)
LEMMA NumbersFinite ==
    ASSUME NEW n \in Nat, NEW N, N \subseteq 1..n
    PROVE  IsFiniteSet(N) /\ Cardinality(N) \in Nat
<1>1. IsFiniteSet(1..n)
  BY ONLY 1 \in Int, n \in Int, FS_Interval
<1>2. IsFiniteSet(N)
  BY ONLY N \subseteq 1..n, <1>1, FS_Subset, Zenon
<1> QED BY ONLY <1>2, FS_CardinalityType

(* The events lost are finitely many, being among those raised.            *)
LEMMA LostFinite ==
    ASSUME Inv
    PROVE  IsFiniteSet(buf.lost)
<1>1. buf.lost \subseteq 1..buf.nextSeq /\ buf.nextSeq \in Nat
  BY DEF Inv, TypeOK, Accounted, Raised, Buffer
<1> QED BY ONLY <1>1, NumbersFinite

----------------------------------------------------------------------------
(* One lemma for the three methods that only mark events, one for the      *)
(* three that remove some.                                                 *)
LEMMA MarkingPreservesInv ==
    ASSUME Inv, NEW picked, NEW value \in BOOLEAN, NEW d \in Nat,
           buf' = [buf EXCEPT !.dropsAtSelect = d,
                              !.events = Mark(buf.events, picked, value)]
    PROVE  Inv'
<1> DEFINE E == Mark(buf.events, picked, value)
<1>1. buf.events \in SUBSET Event /\ buf \in Buffer /\ IsFiniteSet(buf.events)
  BY DEF Inv, TypeOK, Buffer
<1>2. /\ E \in SUBSET Event
      /\ Seqs(E) = Seqs(buf.events)
      /\ \A e, f \in E : e.seq = f.seq => e = f
  BY <1>1, MarkKeepsEvents DEF Inv, Accounted
<1>3. IsFiniteSet(E) /\ Cardinality(E) <= Cardinality(buf.events)
  BY <1>1, MarkKeepsSize
<1> HIDE DEF E
<1>4. /\ buf' = [buf EXCEPT !.dropsAtSelect = d, !.events = E]
      /\ buf'.events = E /\ buf'.nextSeq = buf.nextSeq
      /\ buf'.confirmed = buf.confirmed /\ buf'.lost = buf.lost
      /\ buf'.wiped = buf.wiped /\ buf'.drops = buf.drops
  BY <1>1 DEF E, Buffer
<1>5. TypeOK'
  <2>1. buf' \in Buffer
    BY <1>1, <1>2, <1>4, Zenon DEF Buffer
  <2>2. Cardinality(E) \in Nat /\ Cardinality(buf.events) \in Nat
    BY <1>1, <1>3, FS_CardinalityType
  <2> QED BY <1>3, <1>4, <2>1, <2>2, MaxEventsAssumption DEF Inv, TypeOK
<1>6. Accounted'
  BY <1>2, <1>4 DEF Inv, Accounted, Raised
<1>7. DropsCounted'
  BY <1>4 DEF Inv, DropsCounted
<1> QED BY <1>5, <1>6, <1>7 DEF Inv

(* out is what is removed; of its numbers, conf go to confirmed, lost to   *)
(* lost and wiped to wiped.                                                *)
LEMMA RemovingPreservesInv ==
    ASSUME Inv, NEW out \in SUBSET buf.events, NEW o \in BOOLEAN,
           NEW conf, NEW lost, NEW wiped,
           \/ conf = Seqs(out) /\ lost = {} /\ wiped = {}
           \/ conf = {} /\ lost = Seqs(out) /\ wiped = {}
           \/ conf = {} /\ lost = {} /\ wiped = Seqs(out),
           buf' = [buf EXCEPT !.events = buf.events \ out, !.overflow = o,
                              !.drops = buf.drops + Cardinality(lost),
                              !.confirmed = buf.confirmed \cup conf,
                              !.lost = buf.lost \cup lost,
                              !.wiped = buf.wiped \cup wiped]
    PROVE  Inv'
<1> DEFINE E == buf.events \ out
<1>1. /\ buf \in Buffer /\ IsFiniteSet(buf.events)
      /\ buf.events \in SUBSET Event /\ out \in SUBSET Event
      /\ IsFiniteSet(buf.lost) /\ buf.lost \in SUBSET Nat
  BY LostFinite DEF Inv, TypeOK, Buffer
<1>2. /\ Seqs(out) \subseteq Nat /\ Seqs(buf.events) = Seqs(E) \cup Seqs(out)
      /\ Seqs(E) \cap Seqs(out) = {}
  BY <1>1 DEF Inv, Accounted, Seqs, Event
<1>3. IsFiniteSet(E) /\ Cardinality(E) <= Cardinality(buf.events)
  BY <1>1, FS_Subset
<1>4. IsFiniteSet(Seqs(out)) /\ Cardinality(Seqs(out)) \in Nat
  <2>1. Seqs(out) \subseteq 1..buf.nextSeq /\ buf.nextSeq \in Nat
    BY <1>1, <1>2 DEF Inv, Accounted, Raised, Buffer
  <2> QED BY ONLY <2>1, NumbersFinite
<1>5. IsFiniteSet(lost) /\ Cardinality(lost) \in Nat
  BY <1>4, FS_EmptySet
<1>6. /\ buf'.events = E /\ buf'.nextSeq = buf.nextSeq
      /\ buf'.confirmed = buf.confirmed \cup conf
      /\ buf'.lost = buf.lost \cup lost
      /\ buf'.wiped = buf.wiped \cup wiped
      /\ buf'.drops = buf.drops + Cardinality(lost)
  BY <1>1 DEF Buffer
<1>7. TypeOK'
  <2>1. conf \subseteq Nat /\ lost \subseteq Nat /\ wiped \subseteq Nat
    BY <1>2
  <2>2. buf' \in Buffer
    <3>1. /\ E \in SUBSET Event /\ buf.drops + Cardinality(lost) \in Nat
          /\ buf.confirmed \cup conf \in SUBSET Nat
          /\ buf.lost \cup lost \in SUBSET Nat
          /\ buf.wiped \cup wiped \in SUBSET Nat
      BY <1>1, <1>5, <2>1 DEF Buffer
    <3>2. buf' = [events |-> E, overflow |-> o,
                  drops |-> buf.drops + Cardinality(lost),
                  dropsAtSelect |-> buf.dropsAtSelect, nextSeq |-> buf.nextSeq,
                  confirmed |-> buf.confirmed \cup conf,
                  lost |-> buf.lost \cup lost, wiped |-> buf.wiped \cup wiped]
      BY <1>1, Zenon DEF Buffer
    <3>3. buf.dropsAtSelect \in Nat /\ buf.nextSeq \in Nat
      BY <1>1 DEF Buffer
    <3> HIDE DEF E
    <3> QED BY <3>1, <3>2, <3>3 DEF Buffer
  <2>3. Cardinality(E) \in Nat /\ Cardinality(buf.events) \in Nat
    BY <1>1, <1>3, FS_CardinalityType
  <2> HIDE DEF E
  <2> QED BY <1>3, <1>6, <2>2, <2>3, MaxEventsAssumption DEF Inv, TypeOK
<1>8. Accounted'
  <2>1. \A e, f \in buf'.events : e.seq = f.seq => e = f
    BY <1>6 DEF Inv, Accounted
  <2> HIDE DEF E
  <2> QED BY <1>2, <1>6, <2>1, Zenon DEF Inv, Accounted, Raised
<1>9. DropsCounted'
  <2>1. buf.lost \cap lost = {}
    BY <1>2 DEF Inv, Accounted
  <2>2. Cardinality(buf.lost \cup lost)
          = Cardinality(buf.lost) + Cardinality(lost) - Cardinality({})
    BY <1>1, <1>5, <2>1, FS_Union
  <2>3. Cardinality(buf.lost) \in Nat /\ Cardinality({}) = 0
    BY <1>1, FS_CardinalityType, FS_EmptySet
  <2> QED BY <1>5, <1>6, <2>2, <2>3 DEF Inv, DropsCounted
<1> QED BY <1>7, <1>8, <1>9 DEF Inv

(* The newest event comes in under a number nobody has had.                *)
LEMMA AddPreservesInv ==
    ASSUME Inv, NEW c \in Class, NEW ok \in BOOLEAN, buf' = Add(buf, c, ok)
    PROVE  Inv'
<1> DEFINE new == Fresh(buf, c, ok)
           out == Evicted(buf)
           E   == buf.events \ out
           n   == buf.nextSeq + 1
<1>1. /\ buf \in Buffer /\ IsFiniteSet(buf.events)
      /\ buf.events \in SUBSET Event
      /\ IsFiniteSet(buf.lost) /\ buf.lost \in SUBSET Nat
      /\ buf.nextSeq \in Nat /\ buf.drops \in Nat
      /\ Cardinality(buf.events) \in Nat
  BY LostFinite, FS_CardinalityType DEF Inv, TypeOK, Buffer
<1>2. new \in Event /\ new.seq = n
  BY <1>1 DEF Event, Fresh
<1>3. n \notin Raised /\ 1..n = Raised \cup {n}
  BY <1>1 DEF Raised
<1>4. n \notin Seqs(buf.events) /\ new \notin buf.events
  BY <1>2, <1>3 DEF Inv, Accounted, Seqs
<1>5. /\ out \in SUBSET buf.events /\ IsFiniteSet(E)
      /\ Cardinality(E) + 1 <= MaxEvents
      /\ IsFiniteSet(Seqs(out))
      /\ Cardinality(Seqs(out)) = IF Full(buf) THEN 1 ELSE 0
  <2>1. CASE Full(buf)
    <3>1. buf.events # {}
      BY <1>1, <2>1, MaxEventsAssumption, FS_EmptySet DEF Full
    <3>2. PICK old \in buf.events : out = {old}
      BY <1>1, <2>1, <3>1, OldestExists DEF Evicted
    <3>3. IsFiniteSet(E) /\ Cardinality(E) = Cardinality(buf.events) - 1
      <4>1. E = buf.events \ {old}
        BY <3>2, Zenon
      <4>2. /\ IsFiniteSet(buf.events \ {old})
            /\ Cardinality(buf.events \ {old}) = Cardinality(buf.events) - 1
        BY <1>1, FS_RemoveElement, Zenon
      <4> QED BY <4>1, <4>2, Zenon
    <3>4. Seqs(out) = {old.seq}
      BY <3>2 DEF Seqs
    <3>5. IsFiniteSet(Seqs(out)) /\ Cardinality(Seqs(out)) = 1
      BY <3>4, FS_Singleton, Zenon
    <3> HIDE DEF E
    <3> QED BY <1>1, <2>1, <3>2, <3>3, <3>5, MaxEventsAssumption DEF Inv, TypeOK
  <2>2. CASE ~Full(buf)
    <3>1. out = {} /\ E = buf.events /\ Seqs(out) = {}
      BY <2>2 DEF Evicted, Seqs
    <3> HIDE DEF E, out
    <3>2. IsFiniteSet({}) /\ Cardinality({}) = 0
      BY FS_EmptySet, Zenon
    <3>3. Cardinality(E) + 1 <= MaxEvents
      BY <1>1, <2>2, <3>1, MaxEventsAssumption DEF Full
    <3> QED BY <1>1, <2>2, <3>1, <3>2, <3>3, Zenon
  <2> QED BY <2>1, <2>2
<1>6. /\ Seqs(buf.events) = Seqs(E) \cup Seqs(out)
      /\ Seqs(E) \cap Seqs(out) = {} /\ Seqs(out) \subseteq Nat
      /\ Seqs(E \cup {new}) = Seqs(E) \cup {n}
  <2> HIDE DEF out, new
  <2> QED BY <1>1, <1>2, <1>5 DEF Inv, Accounted, Seqs, Event
<1>7. /\ buf' \in Buffer
      /\ buf'.events = E \cup {new} /\ buf'.nextSeq = n
      /\ buf'.confirmed = buf.confirmed /\ buf'.wiped = buf.wiped
      /\ buf'.lost = buf.lost \cup Seqs(out)
      /\ buf'.drops = IF Full(buf) THEN buf.drops + 1 ELSE buf.drops
  <2>1. /\ E \cup {new} \in SUBSET Event /\ n \in Nat
        /\ buf.lost \cup Seqs(out) \in SUBSET Nat
    BY <1>1, <1>2, <1>5, <1>6
  <2>2. Full(buf) \in BOOLEAN
    BY DEF Full
  <2> DEFINE d == IF Full(buf) THEN buf.drops + 1 ELSE buf.drops
             o == buf.overflow \/ Full(buf)
  <2>3. d \in Nat /\ o \in BOOLEAN
    BY <1>1, <2>2 DEF Buffer
  <2>4. buf' = [events |-> E \cup {new}, overflow |-> o, drops |-> d,
                dropsAtSelect |-> buf.dropsAtSelect, nextSeq |-> n,
                confirmed |-> buf.confirmed,
                lost |-> buf.lost \cup Seqs(out), wiped |-> buf.wiped]
    BY <1>1, Zenon DEF Add, Buffer
  <2>5. /\ buf.dropsAtSelect \in Nat
        /\ buf.confirmed \in SUBSET Nat /\ buf.wiped \in SUBSET Nat
    BY <1>1 DEF Buffer
  <2> HIDE DEF E, n, new, out, d, o
  <2>6. buf' \in Buffer
    BY <2>1, <2>3, <2>4, <2>5 DEF Buffer
  <2>7. buf'.drops = d
    BY <2>4
  <2> QED BY <2>4, <2>6, <2>7 DEF d
<1> HIDE DEF n, new, out
<1>8. TypeOK'
  <2>1. /\ IsFiniteSet(E \cup {new})
        /\ Cardinality(E \cup {new}) = Cardinality(E) + 1
    BY <1>4, <1>5, FS_AddElement, Zenon
  <2> QED BY <1>5, <1>7, <2>1 DEF TypeOK
<1>9. Accounted'
  <2>1. \A e, f \in buf'.events : e.seq = f.seq => e = f
    BY <1>2, <1>4, <1>7 DEF Inv, Accounted, Seqs
  <2>2. Raised' = Raised \cup {n}
    BY <1>3, <1>7 DEF Raised
  <2> HIDE DEF E
  <2>3. Seqs(buf'.events) = Seqs(E) \cup {n}
    BY <1>6, <1>7, Zenon
  <2>4. n \notin buf.confirmed \cup buf.lost \cup buf.wiped
    BY <1>3 DEF Inv, Accounted
  <2>5. Raised' = Seqs(buf'.events) \cup buf'.confirmed \cup buf'.lost \cup buf'.wiped
    BY <1>6, <1>7, <2>2, <2>3, Zenon DEF Inv, Accounted
  <2>6. Seqs(buf'.events) \cap (buf'.confirmed \cup buf'.lost \cup buf'.wiped) = {}
    <3>1. Seqs(buf.events) \cap (buf.confirmed \cup buf.lost \cup buf.wiped) = {}
      BY Zenon DEF Inv, Accounted
    <3>2. n \notin Seqs(out)
      BY <1>4, <1>6, Zenon
    <3>3. \A x \in Seqs(E) : x \notin buf.confirmed \cup buf.lost \cup buf.wiped \cup Seqs(out)
      BY <1>6, <3>1, Zenon
    <3>4. \A x \in Seqs(buf'.events) : x \notin buf'.confirmed \cup buf'.lost \cup buf'.wiped
      BY <1>7, <2>3, <2>4, <3>2, <3>3, Zenon
    <3> QED BY <3>4, Zenon
  <2>7. /\ buf'.confirmed \cap (buf'.lost \cup buf'.wiped) = {}
        /\ buf'.lost \cap buf'.wiped = {}
    BY <1>6, <1>7 DEF Inv, Accounted
  <2> QED BY <2>1, <2>5, <2>6, <2>7 DEF Accounted
<1>10. DropsCounted'
  <2>1. buf.lost \cap Seqs(out) = {}
    BY <1>6 DEF Inv, Accounted
  <2>2. Cardinality(buf.lost \cup Seqs(out))
          = Cardinality(buf.lost) + Cardinality(Seqs(out)) - Cardinality({})
    BY <1>1, <1>5, <2>1, FS_Union
  <2>3. Cardinality(buf.lost) \in Nat /\ Cardinality({}) = 0
    BY <1>1, FS_CardinalityType, FS_EmptySet
  <2> QED BY <1>1, <1>5, <1>7, <2>2, <2>3 DEF Inv, DropsCounted
<1> QED BY <1>8, <1>9, <1>10 DEF Inv

----------------------------------------------------------------------------
(* The invariant holds initially and every call keeps it.                  *)
LEMMA InvInit == Init => Inv
<1> SUFFICES ASSUME Init PROVE Inv
  OBVIOUS
<1>1. buf \in Buffer
  BY DEF Init, NewEventBuffer, Buffer
<1>2. /\ buf.events = {} /\ buf.nextSeq = 0 /\ buf.drops = 0
      /\ buf.confirmed = {} /\ buf.lost = {} /\ buf.wiped = {}
  BY DEF Init, NewEventBuffer
<1>3. TypeOK
  BY <1>1, <1>2, FS_EmptySet, MaxEventsAssumption DEF TypeOK
<1>4. Accounted
  BY <1>2 DEF Accounted, Raised, Seqs
<1>5. DropsCounted
  BY <1>2, FS_EmptySet DEF DropsCounted
<1> QED BY <1>3, <1>4, <1>5 DEF Inv

(* Every method of the buffer keeps the invariant.                         *)
LEMMA InvNext == Inv /\ [Next]_buf => Inv'
<1> SUFFICES ASSUME Inv, [Next]_buf PROVE Inv'
  OBVIOUS
<1>a. buf \in Buffer
  BY DEF Inv, TypeOK
<1>b. /\ buf.drops + Cardinality({}) = buf.drops
      /\ buf.confirmed \cup {} = buf.confirmed
      /\ buf.lost \cup {} = buf.lost
      /\ buf.wiped \cup {} = buf.wiped
      /\ buf.events \ buf.events = {}
  BY <1>a, FS_EmptySet DEF Buffer
<1>1. CASE DoAdd
  BY <1>1, AddPreservesInv DEF DoAdd
<1>2. CASE DoSelect
  <2>1. PICK mask \in SUBSET Class, limit \in Limits : buf' = Select(buf, mask, limit)
    BY <1>2 DEF DoSelect
  <2>2. buf.drops \in Nat
    BY <1>a DEF Buffer
  <2> QED BY <2>1, <2>2, MarkingPreservesInv, Zenon DEF Select
<1>3. CASE DoConfirm
  <2> DEFINE out == SelectedIn(buf.events)
             o   == buf.overflow /\ ~(out # {} /\ buf.drops = buf.dropsAtSelect)
  <2>1. out \in SUBSET buf.events /\ o \in BOOLEAN
    BY <1>a DEF SelectedIn, Buffer
  <2>2. buf' = [buf EXCEPT !.events = buf.events \ out, !.overflow = o,
                           !.drops = buf.drops + Cardinality({}),
                           !.confirmed = buf.confirmed \cup Seqs(out),
                           !.lost = buf.lost \cup {},
                           !.wiped = buf.wiped \cup {}]
    BY <1>3, <1>a, <1>b, Zenon DEF DoConfirm, Confirm, Buffer
  <2> HIDE DEF out, o
  <2> QED BY <2>1, <2>2, RemovingPreservesInv, Zenon
<1>4. CASE DoUnselect
  <2>1. buf' = [buf EXCEPT !.dropsAtSelect = buf.dropsAtSelect,
                           !.events = Mark(buf.events, Seqs(buf.events), FALSE)]
    BY <1>4, <1>a, Zenon DEF DoUnselect, Unselect, Buffer
  <2>2. buf.dropsAtSelect \in Nat
    BY <1>a DEF Buffer
  <2> QED BY <2>1, <2>2, MarkingPreservesInv, Zenon
<1>5. CASE DoRelease
  <2>1. PICK seqs \in SUBSET Raised : buf' = Release(buf, seqs)
    BY <1>5 DEF DoRelease
  <2>2. buf' = [buf EXCEPT !.dropsAtSelect = buf.dropsAtSelect,
                           !.events = Mark(buf.events, seqs, FALSE)]
    BY <2>1, <1>a, Zenon DEF Release, Buffer
  <2>3. buf.dropsAtSelect \in Nat
    BY <1>a DEF Buffer
  <2> QED BY <2>2, <2>3, MarkingPreservesInv, Zenon
<1>6. CASE DoDiscard
  <2>1. PICK seqs \in SUBSET Raised : buf' = Discard(buf, seqs)
    BY <1>6 DEF DoDiscard
  <2> DEFINE out == {e \in SelectedIn(buf.events) : e.seq \in seqs}
             o   == buf.overflow \/ out # {}
  <2>2. out \in SUBSET buf.events /\ o \in BOOLEAN
    BY <1>a DEF SelectedIn, Buffer
  <2>3. Cardinality(Seqs(out)) = Cardinality(out)
    BY <2>2, SeqsCount DEF Inv, TypeOK, Accounted
  <2>4. buf' = [buf EXCEPT !.events = buf.events \ out, !.overflow = o,
                           !.drops = buf.drops + Cardinality(Seqs(out)),
                           !.confirmed = buf.confirmed \cup {},
                           !.lost = buf.lost \cup Seqs(out),
                           !.wiped = buf.wiped \cup {}]
    BY <2>1, <2>3, <1>a, <1>b, Zenon DEF Discard, Buffer
  <2> HIDE DEF out, o
  <2> QED BY <2>2, <2>4, RemovingPreservesInv, Zenon
<1>7. CASE DoClearOverflow
  <2>1. buf' = [buf EXCEPT !.overflow = FALSE]
    BY <1>7 DEF DoClearOverflow, ClearOverflow
  <2>2. /\ buf' \in Buffer
        /\ buf'.events = buf.events /\ buf'.nextSeq = buf.nextSeq
        /\ buf'.confirmed = buf.confirmed /\ buf'.lost = buf.lost
        /\ buf'.wiped = buf.wiped /\ buf'.drops = buf.drops
    BY <2>1, <1>a, Zenon DEF Buffer
  <2> QED BY <2>2 DEF Inv, TypeOK, Accounted, DropsCounted, Raised
<1>8. CASE DoReset
  <2> DEFINE out == buf.events
  <2>1. buf' = [buf EXCEPT !.events = buf.events \ out, !.overflow = FALSE,
                           !.drops = buf.drops + Cardinality({}),
                           !.confirmed = buf.confirmed \cup {},
                           !.lost = buf.lost \cup {},
                           !.wiped = buf.wiped \cup Seqs(out)]
    BY <1>8, <1>a, <1>b, Zenon DEF DoReset, Reset, Buffer
  <2> QED BY <2>1, RemovingPreservesInv, Zenon
<1>9. CASE buf' = buf
  BY <1>9 DEF Inv, TypeOK, Accounted, DropsCounted, Raised
<1> QED
  BY <1>1, <1>2, <1>3, <1>4, <1>5, <1>6, <1>7, <1>8, <1>9 DEF Next

(* Every event raised is in the buffer once or left it once, whatever the  *)
(* capacity and whatever the order of the calls of the buffer's methods.   *)
THEOREM EventsAccounted == Spec => []Accounted
<1>1. Inv => Accounted
  BY DEF Inv
<1> QED BY <1>1, InvInit, InvNext, PTL DEF Spec

(* The buffer keeps its shape and never holds more than MaxEvents events   *)
(* (Add evicts the oldest).                                                *)
THEOREM BufferTyped == Spec => []TypeOK
<1>1. Inv => TypeOK
  BY DEF Inv
<1> QED BY <1>1, InvInit, InvNext, PTL DEF Spec

(* drops, which Confirm compares with dropsAtSelect, counts exactly the    *)
(* events lost to Add and Discard.                                         *)
THEOREM LossesCounted == Spec => []DropsCounted
<1>1. Inv => DropsCounted
  BY DEF Inv
<1> QED BY <1>1, InvInit, InvNext, PTL DEF Spec

----------------------------------------------------------------------------
(* How marking and removing look through the refinement mapping.           *)
Distinct(S) == \A e, f \in S : e.seq = f.seq => e = f

(* What the lifecycle sees of a set of events: the numbers of those that   *)
(* are not selected are queued, of those that are, offered.                *)
LEMMA Mapped ==
    ASSUME NEW S, NEW n
    PROVE  /\ n \in Queued(S) <=> \E e \in S : ~e.selected /\ e.seq = n
           /\ n \in Offered(S) <=> \E e \in S : e.selected /\ e.seq = n
           /\ n \in Seqs(S) <=> \E e \in S : e.seq = n
BY DEF Queued, Offered, SelectedIn, Seqs

(* Marking events as selected moves their numbers from queued to offered.  *)
LEMMA OfferMark ==
    ASSUME NEW S \in SUBSET Event, Distinct(S), NEW P \in SUBSET S,
           \A e \in P : ~e.selected
    PROVE  /\ Seqs(P) \subseteq Queued(S)
           /\ Queued(Mark(S, Seqs(P), TRUE)) = Queued(S) \ Seqs(P)
           /\ Offered(Mark(S, Seqs(P), TRUE)) = Offered(S) \cup Seqs(P)
<1> DEFINE M(e) == IF e.seq \in Seqs(P) THEN [e EXCEPT !.selected = TRUE] ELSE e
           T == Mark(S, Seqs(P), TRUE)
<1>1. T = {M(e) : e \in S}
  BY DEF Mark
<1>2. \A e \in S : e.seq \in Seqs(P) <=> e \in P
  BY DEF Distinct, Seqs
<1>3. \A e \in S : M(e).seq = e.seq /\ (M(e).selected <=> e \in P \/ e.selected)
  BY <1>2 DEF Event
<1>4. Seqs(P) \subseteq Queued(S)
  BY DEF Queued, Seqs
<1> HIDE DEF M, T
<1>5. ASSUME NEW n PROVE n \in Queued(T) <=> n \in Queued(S) \ Seqs(P)
  <2>1. n \in Queued(T) <=> \E e \in S : ~M(e).selected /\ M(e).seq = n
    BY <1>1, Mapped
  <2>2. n \in Queued(T) <=> \E e \in S : ~e.selected /\ e \notin P /\ e.seq = n
    BY <1>3, <2>1
  <2> QED BY <1>2, <2>2, Mapped
<1>6. ASSUME NEW n PROVE n \in Offered(T) <=> n \in Offered(S) \cup Seqs(P)
  <2>1. n \in Offered(T) <=> \E e \in S : M(e).selected /\ M(e).seq = n
    BY <1>1, Mapped
  <2>2. n \in Offered(T) <=> \E e \in S : (e.selected \/ e \in P) /\ e.seq = n
    BY <1>3, <2>1
  <2> QED BY <2>2, Mapped
<1>7. Queued(T) = Queued(S) \ Seqs(P) /\ Offered(T) = Offered(S) \cup Seqs(P)
  BY <1>5, <1>6
<1> QED BY <1>4, <1>7, Zenon DEF T

(* Marking events as not selected moves their numbers back to queued.      *)
LEMMA TakeBackMark ==
    ASSUME NEW S \in SUBSET Event, Distinct(S), NEW picked
    PROVE  /\ Queued(Mark(S, picked, FALSE)) = Queued(S) \cup (Offered(S) \cap picked)
           /\ Offered(Mark(S, picked, FALSE)) = Offered(S) \ (Offered(S) \cap picked)
<1> DEFINE M(e) == IF e.seq \in picked THEN [e EXCEPT !.selected = FALSE] ELSE e
           T == Mark(S, picked, FALSE)
<1>1. T = {M(e) : e \in S}
  BY DEF Mark
<1>2. \A e \in S : M(e).seq = e.seq /\ (M(e).selected <=> e.selected /\ e.seq \notin picked)
  BY DEF Event
<1> HIDE DEF M, T
<1>3. ASSUME NEW n
      PROVE  n \in Queued(T) <=> n \in Queued(S) \cup (Offered(S) \cap picked)
  <2>1. n \in Queued(T) <=> \E e \in S : ~M(e).selected /\ M(e).seq = n
    BY <1>1, Mapped
  <2>2. n \in Queued(T) <=> \E e \in S : (~e.selected \/ e.seq \in picked) /\ e.seq = n
    BY <1>2, <2>1
  <2> QED BY <2>2, Mapped
<1>4. ASSUME NEW n
      PROVE  n \in Offered(T) <=> n \in Offered(S) \ (Offered(S) \cap picked)
  <2>1. n \in Offered(T) <=> \E e \in S : M(e).selected /\ M(e).seq = n
    BY <1>1, Mapped
  <2>2. n \in Offered(T) <=> \E e \in S : e.selected /\ e.seq \notin picked /\ e.seq = n
    BY <1>2, <2>1
  <2> QED BY <2>2, Mapped
<1>5. /\ Queued(T) = Queued(S) \cup (Offered(S) \cap picked)
      /\ Offered(T) = Offered(S) \ (Offered(S) \cap picked)
  BY <1>3, <1>4
<1> QED BY <1>5, Zenon DEF T

(* Removing events removes their numbers and no others.                    *)
LEMMA RemoveMapped ==
    ASSUME NEW S, Distinct(S), NEW out \in SUBSET S
    PROVE  /\ Queued(S \ out) = Queued(S) \ Seqs(out)
           /\ Offered(S \ out) = Offered(S) \ Seqs(out)
           /\ Seqs(out) \subseteq Queued(S) \cup Offered(S)
BY DEF Distinct, Queued, Offered, SelectedIn, Seqs

----------------------------------------------------------------------------
(* Every call is a step of the lifecycle, or changes nothing in it.        *)
LEMMA LifecycleStep == Inv /\ [Next]_buf => [Lifecycle!Next]_(Lifecycle!vars)
<1> SUFFICES ASSUME Inv, [Next]_buf PROVE [Lifecycle!Next]_(Lifecycle!vars)
  OBVIOUS
<1> DEFINE S == buf.events
<1>a. /\ buf \in Buffer /\ S \in SUBSET Event /\ Distinct(S)
      /\ buf.nextSeq \in Nat
  BY DEF Inv, TypeOK, Accounted, Buffer, Distinct
<1>b. Queued(S) \cup Offered(S) = Seqs(S)
  BY DEF Queued, Offered, SelectedIn, Seqs
<1>1. CASE DoAdd
  <2>1. PICK c \in Class, ok \in BOOLEAN : buf' = Add(buf, c, ok)
    BY <1>1 DEF DoAdd
  <2> DEFINE n   == buf.nextSeq + 1
             out == Evicted(buf)
             new == Fresh(buf, c, ok)
  <2>2. /\ buf'.events = (S \ out) \cup {new} /\ buf'.confirmed = buf.confirmed
        /\ buf'.lost = buf.lost \cup Seqs(out) /\ buf'.wiped = buf.wiped
    BY <1>a, <2>1 DEF Add, Buffer
  <2>3. out \in SUBSET S
    <3>1. CASE Full(buf)
      <4>1. S # {}
        BY <3>1, FS_EmptySet, MaxEventsAssumption DEF Full, Inv, TypeOK
      <4> QED BY <1>a, <3>1, <4>1, OldestExists DEF Evicted
    <3> QED BY <3>1 DEF Evicted
  <2>4. new.seq = n /\ ~new.selected
    BY DEF Fresh
  <2>5. n \in 1..MaxAdded
    BY <1>1, <1>a, SharedBufferAssumption DEF DoAdd
  <2>6. n \notin Queued(S) \cup Offered(S) \cup buf.confirmed \cup (buf.lost \cup buf.wiped)
    BY <1>a, <1>b DEF Inv, Accounted, Raised
  <2> HIDE DEF n, out, new
  <2>7. /\ Queued(buf'.events) = (Queued(S) \ Seqs(out)) \cup {n}
        /\ Offered(buf'.events) = Offered(S) \ Seqs(out)
    <3>1. /\ Queued(buf'.events) = Queued(S \ out) \cup {n}
          /\ Offered(buf'.events) = Offered(S \ out)
      BY <2>2, <2>4 DEF Queued, Offered, SelectedIn, Seqs
    <3> QED BY <1>a, <2>3, <3>1, RemoveMapped, Zenon
  <2>8. Seqs(out) \in SUBSET (Queued(S) \cup Offered(S))
    BY <1>a, <2>3, RemoveMapped, Zenon
  <2>9. Lifecycle!Raise
    <3>1. n \in 1..MaxAdded \ Lifecycle!Known
      BY <2>5, <2>6, Zenon DEF Lifecycle!Known
    <3>2. buf'.lost \cup buf'.wiped = (buf.lost \cup buf.wiped) \cup Seqs(out)
      BY <2>2, Zenon
    <3> QED BY <2>2, <2>7, <2>8, <3>1, <3>2, Zenon DEF Lifecycle!Raise
  <2> QED BY <2>9 DEF Lifecycle!Next
<1>2. CASE DoSelect
  <2>1. PICK mask \in SUBSET Class, limit \in Limits : buf' = Select(buf, mask, limit)
    BY <1>2 DEF DoSelect
  <2> DEFINE P == HandedOut(buf, mask, limit)
  <2>2. P \in SUBSET S /\ \A e \in P : ~e.selected
    BY DEF HandedOut, Matching
  <2>3. /\ buf'.events = Mark(S, Seqs(P), TRUE) /\ buf'.confirmed = buf.confirmed
        /\ buf'.lost = buf.lost /\ buf'.wiped = buf.wiped
    BY <1>a, <2>1 DEF Select, Buffer
  <2> HIDE DEF P
  <2>4. /\ Seqs(P) \subseteq Queued(S)
        /\ Queued(buf'.events) = Queued(S) \ Seqs(P)
        /\ Offered(buf'.events) = Offered(S) \cup Seqs(P)
    BY <1>a, <2>2, <2>3, OfferMark, Zenon
  <2>5. Lifecycle!Offer
    BY <2>3, <2>4, Zenon DEF Lifecycle!Offer
  <2> QED BY <2>5 DEF Lifecycle!Next
<1>3. CASE DoConfirm
  <2> DEFINE out == SelectedIn(S)
  <2>1. /\ buf'.events = S \ out /\ buf'.confirmed = buf.confirmed \cup Offered(S)
        /\ buf'.lost = buf.lost /\ buf'.wiped = buf.wiped
    BY <1>3, <1>a DEF DoConfirm, Confirm, Offered, Buffer
  <2>2. Queued(buf'.events) = Queued(S) /\ Offered(buf'.events) = {}
    BY <2>1 DEF Queued, Offered, SelectedIn, Seqs
  <2>3. Lifecycle!Acknowledge
    BY <2>1, <2>2 DEF Lifecycle!Acknowledge
  <2> QED BY <2>3 DEF Lifecycle!Next
<1>4. ASSUME NEW picked, buf'.events = Mark(S, picked, FALSE),
             buf'.confirmed = buf.confirmed, buf'.lost = buf.lost,
             buf'.wiped = buf.wiped
      PROVE  Lifecycle!Next
  <2>1. /\ Queued(buf'.events) = Queued(S) \cup (Offered(S) \cap picked)
        /\ Offered(buf'.events) = Offered(S) \ (Offered(S) \cap picked)
    BY <1>4, <1>a, TakeBackMark, Zenon
  <2>2. Lifecycle!TakeBack
    BY <1>4, <2>1, Zenon DEF Lifecycle!TakeBack
  <2> QED BY <2>2 DEF Lifecycle!Next
<1>5. CASE DoUnselect
  BY <1>4, <1>5, <1>a, Zenon DEF DoUnselect, Unselect, Buffer
<1>6. CASE DoRelease
  BY <1>4, <1>6, <1>a, Zenon DEF DoRelease, Release, Buffer
<1>7. ASSUME NEW out \in SUBSET S, buf'.events = S \ out,
             buf'.confirmed = buf.confirmed,
             buf'.lost \cup buf'.wiped = (buf.lost \cup buf.wiped) \cup Seqs(out)
      PROVE  Lifecycle!Next
  <2>1. /\ Queued(buf'.events) = Queued(S) \ Seqs(out)
        /\ Offered(buf'.events) = Offered(S) \ Seqs(out)
        /\ Seqs(out) \in SUBSET (Queued(S) \cup Offered(S))
    BY <1>7, <1>a, RemoveMapped, Zenon
  <2>2. Lifecycle!GiveUp
    BY <1>7, <2>1, Zenon DEF Lifecycle!GiveUp
  <2> QED BY <2>2 DEF Lifecycle!Next
<1>8. CASE DoDiscard
  <2>1. PICK seqs \in SUBSET Raised : buf' = Discard(buf, seqs)
    BY <1>8 DEF DoDiscard
  <2> DEFINE out == {e \in SelectedIn(S) : e.seq \in seqs}
  <2>2. out \in SUBSET S
    BY DEF SelectedIn
  <2>3. /\ buf'.events = S \ out /\ buf'.confirmed = buf.confirmed
        /\ buf'.lost = buf.lost \cup Seqs(out) /\ buf'.wiped = buf.wiped
    BY <1>a, <2>1 DEF Discard, Buffer
  <2> HIDE DEF out
  <2> QED BY <1>7, <2>2, <2>3
<1>9. CASE DoClearOverflow
  <2>1. UNCHANGED <<buf.events, buf.confirmed, buf.lost, buf.wiped>>
    BY <1>9, <1>a DEF DoClearOverflow, ClearOverflow, Buffer
  <2> QED BY <2>1 DEF Lifecycle!vars
<1>10. CASE DoReset
  <2>1. /\ buf'.events = S \ S /\ buf'.confirmed = buf.confirmed
        /\ buf'.lost = buf.lost /\ buf'.wiped = buf.wiped \cup Seqs(S)
    BY <1>10, <1>a DEF DoReset, Reset, Buffer
  <2>2. buf'.lost \cup buf'.wiped = (buf.lost \cup buf.wiped) \cup Seqs(S)
    BY <2>1
  <2> HIDE DEF S
  <2> QED BY <1>7, <2>1, <2>2
<1>11. CASE buf' = buf
  BY <1>11 DEF Lifecycle!vars
<1> QED
  BY <1>1, <1>2, <1>3, <1>5, <1>6, <1>8, <1>9, <1>10, <1>11 DEF Next

(* The buffer implements EventLifecycle: an event is removed as confirmed  *)
(* only from a response it was selected for, what is taken back is queued  *)
(* as before, and what has left the buffer never returns.                  *)
THEOREM BufferImplementsLifecycle == Spec => ImplementsLifecycle
<1>1. Init => Lifecycle!Init
  BY DEF Init, NewEventBuffer, Lifecycle!Init, Queued, Offered, SelectedIn, Seqs
<1> QED BY <1>1, LifecycleStep, InvInit, InvNext, PTL
        DEF Spec, ImplementsLifecycle, Lifecycle!Spec

----------------------------------------------------------------------------
(* No event is newly selected by a call after which every selected event   *)
(* is one that was selected before.                                        *)
LEMMA NoneNewly ==
    ASSUME Inv, \A e \in buf'.events : e.selected => e \in buf.events
    PROVE  Newly = {}
<1> SUFFICES ASSUME NEW e \in Newly PROVE FALSE
  OBVIOUS
<1> DEFINE e0 == [e EXCEPT !.selected = FALSE]
<1>1. e \in buf.events /\ e.selected /\ e0 \in buf.events
  BY DEF Newly
<1>2. e \in Event /\ e0.seq = e.seq /\ e0.selected = FALSE
  BY <1>1 DEF Inv, TypeOK, Buffer, Event
<1>3. e0 = e
  BY <1>1, <1>2, Zenon DEF Inv, Accounted
<1> QED BY <1>1, <1>2, <1>3, Zenon

(* Taking marks away selects nothing.                                      *)
LEMMA TakingBackSelectsNone ==
    ASSUME Inv, NEW picked, buf'.events = Mark(buf.events, picked, FALSE)
    PROVE  Newly = {}
<1> SUFFICES ASSUME NEW e \in buf'.events, e.selected PROVE e \in buf.events
  BY NoneNewly, Zenon
<1>1. PICK g \in buf.events :
        e = IF g.seq \in picked THEN [g EXCEPT !.selected = FALSE] ELSE g
  BY DEF Mark
<1>2. g \in Event
  BY DEF Inv, TypeOK, Buffer
<1> QED BY <1>1, <1>2 DEF Event

(* What selectWhere hands out is older than every event of the same class  *)
(* it leaves.  An event it leaves has at least limit older ones among the  *)
(* matching, an event it hands out fewer.                                  *)
LEMMA HandsOutOldest ==
    ASSUME Inv, NEW mask, NEW limit \in Nat,
           NEW g \in HandedOut(buf, mask, limit),
           NEW h \in Matching(buf, mask), h \notin HandedOut(buf, mask, limit)
    PROVE  g.seq < h.seq
<1> DEFINE M == Matching(buf, mask)
           older(x) == {f \in M : f.seq < x.seq}
<1>1. M \subseteq buf.events /\ buf.events \subseteq Event /\ IsFiniteSet(M)
  BY FS_Subset DEF Inv, TypeOK, Buffer, Matching
<1>2. /\ g \in M /\ Cardinality(older(g)) < limit
      /\ ~(Cardinality(older(h)) < limit)
  BY DEF HandedOut
<1>3. g.seq \in Nat /\ h.seq \in Nat /\ \A f \in M : f.seq \in Nat
  BY <1>1, <1>2 DEF Event
<1>4. SUFFICES ASSUME h.seq <= g.seq PROVE FALSE
  BY <1>3
<1>5. older(h) \subseteq older(g)
  BY <1>3, <1>4
<1>6. IsFiniteSet(older(g)) /\ IsFiniteSet(older(h))
  BY <1>1, FS_Subset
<1>7. Cardinality(older(h)) <= Cardinality(older(g))
  BY <1>5, <1>6, FS_Subset
<1>8. Cardinality(older(h)) \in Nat /\ Cardinality(older(g)) \in Nat
  BY <1>6, FS_CardinalityType
<1> HIDE DEF older
<1> QED BY <1>2, <1>7, <1>8

(* Every step keeps the order: Select by the last lemma, the other methods *)
(* because they select nothing.                                            *)
InOrder == \A e \in Newly, f \in buf'.events : ~f.selected /\ f.class = e.class => e.seq < f.seq

LEMMA OrderStep == Inv /\ [Next]_buf => [InOrder]_buf
<1> SUFFICES ASSUME Inv, Next PROVE InOrder
  OBVIOUS
<1>a. buf \in Buffer /\ buf.events \subseteq Event
  BY DEF Inv, TypeOK, Buffer
<1>b. Newly = {} => InOrder
  BY DEF InOrder
<1>1. CASE DoAdd
  <2>1. PICK c \in Class, ok \in BOOLEAN : buf' = Add(buf, c, ok)
    BY <1>1 DEF DoAdd
  <2>2. buf'.events = (buf.events \ Evicted(buf)) \cup {Fresh(buf, c, ok)}
    BY <2>1, <1>a DEF Add, Buffer
  <2>3. ~Fresh(buf, c, ok).selected
    BY DEF Fresh
  <2> QED BY <2>2, <2>3, <1>b, NoneNewly
<1>2. CASE DoSelect
  <2>1. PICK mask \in SUBSET Class, limit \in Limits : buf' = Select(buf, mask, limit)
    BY <1>2 DEF DoSelect
  <2> DEFINE H == HandedOut(buf, mask, limit)
  <2>2. buf'.events = Mark(buf.events, Seqs(H), TRUE)
    BY <2>1, <1>a DEF Select, Buffer
  <2>3. H \subseteq Matching(buf, mask) /\ Matching(buf, mask) \subseteq buf.events
    BY DEF HandedOut, Matching
  <2>4. \A g \in buf.events : g.seq \in Seqs(H) <=> g \in H
    BY <2>3 DEF Inv, Accounted, Seqs
  <2> HIDE DEF H
  <2> SUFFICES ASSUME NEW e \in Newly, NEW f \in buf'.events,
                      ~f.selected, f.class = e.class
               PROVE  e.seq < f.seq
    BY DEF InOrder
  <2>5. PICK g \in buf.events :
          e = IF g.seq \in Seqs(H) THEN [g EXCEPT !.selected = TRUE] ELSE g
    BY <2>2 DEF Newly, Mark
  <2>6. g \in H /\ g.seq = e.seq /\ g.class = e.class
    <3>1. g \in Event /\ g.seq = e.seq /\ g.class = e.class
      BY <2>5, <1>a DEF Event
    <3>2. e \in Event /\ e.selected /\ [e EXCEPT !.selected = FALSE] \in buf.events
      BY <2>5, <3>1, Zenon DEF Newly, Event
    <3>3. [e EXCEPT !.selected = FALSE] = g
      BY <3>1, <3>2 DEF Inv, Accounted, Event
    <3>4. ~g.selected
      BY <3>2, <3>3 DEF Event
    <3> QED BY <2>4, <2>5, <3>1, <3>2, <3>4
  <2>7. f \in buf.events /\ f \notin H
    <3>1. PICK h \in buf.events :
            f = IF h.seq \in Seqs(H) THEN [h EXCEPT !.selected = TRUE] ELSE h
      BY <2>2 DEF Mark
    <3>2. h \in Event
      BY <1>a
    <3> QED BY <2>4, <3>1, <3>2 DEF Event
  <2>8. f \in Matching(buf, mask)
    BY <2>3, <2>6, <2>7 DEF Matching
  <2>9. limit \in Nat
    BY SharedBufferAssumption
  <2> QED BY <2>6, <2>7, <2>8, <2>9, HandsOutOldest DEF H
<1>3. CASE DoConfirm \/ DoDiscard \/ DoClearOverflow \/ DoReset
  <2>1. buf'.events \subseteq buf.events
    <3>1. CASE DoConfirm
      BY <3>1, <1>a DEF DoConfirm, Confirm, Buffer
    <3>2. CASE DoDiscard
      <4>1. PICK seqs \in SUBSET Raised : buf' = Discard(buf, seqs)
        BY <3>2 DEF DoDiscard
      <4> QED BY <4>1, <1>a DEF Discard, Buffer
    <3>3. CASE DoClearOverflow
      BY <3>3, <1>a DEF DoClearOverflow, ClearOverflow, Buffer
    <3>4. CASE DoReset
      BY <3>4, <1>a DEF DoReset, Reset, Buffer
    <3> QED BY <1>3, <3>1, <3>2, <3>3, <3>4
  <2> QED BY <2>1, <1>b, NoneNewly
<1>4. CASE DoUnselect \/ DoRelease
  <2>1. \E picked : buf'.events = Mark(buf.events, picked, FALSE)
    BY <1>4, <1>a, Zenon DEF DoUnselect, DoRelease, Unselect, Release, Buffer
  <2> QED BY <2>1, <1>b, TakingBackSelectsNone, Zenon
<1> QED BY <1>1, <1>2, <1>3, <1>4 DEF Next

(* Events of one class are selected in the order they were raised, for     *)
(* every capacity, every limit a caller passes and every order of the      *)
(* calls of the buffer's methods (selectWhere).                            *)
THEOREM SelectsOldestFirst == Spec => OldestFirst
<1>1. Init => Inv
  BY InvInit
<1>2. Inv /\ [Next]_buf => Inv' /\ [InOrder]_buf
  BY InvNext, OrderStep
<1> QED BY <1>1, <1>2, PTL DEF Spec, OldestFirst, InOrder
=============================================================================
