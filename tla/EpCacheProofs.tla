---------------------------- MODULE EpCacheProofs ----------------------------
(***************************************************************************)
(* Proofs about the entry points, for any number of threads, slots, caches *)
(* and schemas: the types, the lifetime of caches, that every step of a    *)
(* call is one step of the schema service or none, that no two threads     *)
(* share a scratch slot, and that every slot fits the loaded schema.       *)
(***************************************************************************)
EXTENDS EpCacheRefinement, FiniteSetTheorems, TLAPS

-----------------------------------------------------------------------------
(* The inductive invariant *)

InCodec == {"check", "tdata", "encmem", "rlock", "lookup", "work", "runlock"}
InLoad == {"create", "build", "presize", "widths"}
InWriter == {"wlock", "swap"}

\* What a thread is processing fits where it is in its call.
CallOK ==
    \A t \in Thread :
        /\ pc[t] \in InCodec => op[t] \in Codec /\ arg[t] \in Name
        /\ pc[t] \in InLoad => op[t] = "load" /\ arg[t] \in Schema
        /\ pc[t] \in InWriter => (op[t] = "load" /\ arg[t] \in Schema) \/ op[t] = "purge"
        /\ pc[t] = "setopt" => arg[t] \in Seq(OptItem)
        /\ pc[t] \in UsingSlot => tls[t] \in Slot
        /\ pc[t] \in {"presize", "widths"} => at[t] \in Slot
        /\ pc[t] \in {"idle", "create", "build", "wlock"} => at[t] = 0

\* The lock is held as the program counters say, by one writer or by readers.
LockOK ==
    /\ \A t \in Thread : t \in readers <=> pc[t] \in LockedRead
    /\ \A t \in Thread : writer = t <=> pc[t] \in LockedWrite
    /\ writer # Null => readers = {}

\* Which calls own a cache, and that a load still has one when it installs it.
OwnerOK ==
    \A t \in Thread :
        /\ pc[t] \in {"build", "presize", "widths"} => mine[t] # Null
        /\ pc[t] \in {"wlock", "swap"} /\ op[t] = "load" => mine[t] # Null
        /\ mine[t] # Null => pc[t] \in {"build", "wlock", "presize", "widths",
                                        "swap", "wunlock", "destroy"}
        /\ pc[t] \in {"wlock", "swap"} /\ op[t] = "purge" => mine[t] = Null

IInv == TypeOK /\ CallOK /\ LockOK /\ OwnerOK /\ CacheOwnership /\ InFlightCacheValid

-----------------------------------------------------------------------------
(* Sequences of spot widths *)

LEMMA RegrownType ==
    ASSUME NEW s \in Seq(Nat), NEW n \in Nat
    PROVE  Regrown(s, n) \in Seq(Nat) /\ Len(Regrown(s, n)) = n
<1>1. Regrown(s, n) \in [1 .. n -> Nat]
  BY DEF Regrown
<1> QED
  BY <1>1

LEMMA WidenedType ==
    ASSUME NEW s \in Seq(Nat), NEW k \in Nat, NEW w \in Nat
    PROVE  Widened(s, k, w) \in Seq(Nat) /\ Len(Widened(s, k, w)) = Len(s)
<1>1. Widened(s, k, w) \in [1 .. Len(s) -> Nat]
  BY DEF Widened, Wider
<1> QED
  BY <1>1

LEMMA UpdateType ==
    ASSUME NEW s \in Seq(Nat), NEW i, NEW w \in Nat
    PROVE  [s EXCEPT ![i] = Wider(@, w)] \in Seq(Nat)
<1>1. s \in [1 .. Len(s) -> Nat]
  OBVIOUS
<1>2. [s EXCEPT ![i] = Wider(@, w)] \in [1 .. Len(s) -> Nat]
  BY <1>1 DEF Wider
<1> QED
  BY <1>2

LEMMA ClaimedSlotType == \A n \in Nat : ClaimedSlot(n) \in Slot
  BY SlotAssumption DEF ClaimedSlot, Slot

LEMMA PresizeToType ==
    ASSUME NEW i \in Slot, NEW schema \in Schema, spots \in [Slot -> Seq(Nat)]
    PROVE  PresizeTo(i, schema) \in Nat
<1>1. 0 \in Slot
  BY SlotAssumption DEF Slot
<1>2. Len(spots[0]) \in Nat /\ Len(spots[i]) \in Nat
  BY <1>1
<1> QED
  BY <1>2 DEF PresizeTo, Wider

-----------------------------------------------------------------------------
(* Every step keeps the types *)

LEMMA InitInv == Init => IInv
<1> SUFFICES ASSUME Init PROVE IInv
  OBVIOUS
<1> USE SlotAssumption, NullAssumption, SchemaAssumption, ClientAssumption
<1>1. TypeOK
  <2>1. [i \in 1 .. StackInit |-> 0] \in Seq(Nat)
    OBVIOUS
  <2> QED
    BY <2>1 DEF Init, TypeOK, Label, LockedRead, LockedWrite, Slot
<1>2. CallOK /\ LockOK /\ OwnerOK
  BY DEF Init, CallOK, LockOK, OwnerOK, InCodec, InLoad, InWriter, UsingSlot,
         LockedRead, LockedWrite
<1>3. CacheOwnership /\ InFlightCacheValid
  BY DEF Init, CacheOwnership, InFlightCacheValid
<1> QED
  BY <1>1, <1>2, <1>3 DEF IInv

LEMMA TypeStep == IInv /\ [Next]_vars => TypeOK'
<1> SUFFICES ASSUME IInv, [Next]_vars PROVE TypeOK'
  OBVIOUS
<1> USE DEF IInv, TypeOK, shared, slots, local, At, Goto, Decide, Label,
            LockedRead, LockedWrite, Outcome
<1>1. ASSUME NEW t \in Thread, Invoke(t) PROVE TypeOK'
  BY <1>1, ClientAssumption DEF Invoke, ArgsOf, FirstLabel, Codec
<1>2. ASSUME NEW t \in Thread, Return(t) PROVE TypeOK'
  BY <1>2 DEF Return
<1>3. ASSUME NEW t \in Thread, Check(t) PROVE TypeOK'
  BY <1>3 DEF Check
<1>4. ASSUME NEW t \in Thread, GetTdata(t) PROVE TypeOK'
  <2>1. tls' \in [Thread -> Slot \cup {Null}] /\ slotNext' \in Nat
    <3>1. CASE UNCHANGED <<slotNext, tls>>
      BY <3>1
    <3>2. CASE /\ tls' = [tls EXCEPT ![t] = ClaimedSlot(slotNext)]
               /\ slotNext' = slotNext + 1
      BY <3>2, ClaimedSlotType
    <3> QED
      BY <1>4, <3>1, <3>2 DEF GetTdata
  <2>2. pc' \in [Thread -> Label]
    BY <1>4 DEF GetTdata
  <2> QED
    BY <1>4, <2>1, <2>2 DEF GetTdata
<1>5. ASSUME NEW t \in Thread, EncMem(t) PROVE TypeOK'
  BY <1>5 DEF EncMem, CallOK, UsingSlot
<1>6. ASSUME NEW t \in Thread, RLock(t) PROVE TypeOK'
  BY <1>6 DEF RLock
<1>7. ASSUME NEW t \in Thread, Lookup(t) PROVE TypeOK'
  <2>1. arg[t] \in Name
    BY <1>7 DEF Lookup, CallOK, InCodec
  <2>2. cache # Null => heap[cache] \in Schema
    BY DEF CacheOwnership
  <2>3. pc' \in [Thread -> Label] /\ ret' \in [Thread -> Outcome \cup {Null}]
    BY <1>7, <2>1, <2>2 DEF Lookup
  <2>4. node' \in [Thread -> CacheId \cup {Null}] /\ vm' \in {"up", "down"}
    BY <1>7 DEF Lookup
  <2> QED
    BY <1>7, <2>3, <2>4 DEF Lookup
<1>8. ASSUME NEW t \in Thread, EnterSpot(t) PROVE TypeOK'
  <2> DEFINE s == tls[t]
             i == at[t] + 1
             grown == IF i > Len(spots[s]) THEN Regrown(spots[s], 2 * Len(spots[s]))
                      ELSE spots[s]
  <2>1. s \in Slot /\ pc[t] = "work"
    BY <1>8 DEF EnterSpot, CallOK, UsingSlot
  <2>2. heap[node[t]] \in Schema /\ heap[node[t]] = ret[t]
    BY <2>1 DEF InFlightCacheValid, CacheOwnership
  <2>3. grown \in Seq(Nat)
    BY <2>1, RegrownType
  <2>4. \A w \in 1 .. Width[heap[node[t]]] : [grown EXCEPT ![i] = Wider(@, w)] \in Seq(Nat)
    <3>1. 1 .. Width[heap[node[t]]] \subseteq Nat
      BY <2>2, SchemaAssumption
    <3> HIDE DEF grown, i
    <3> QED
      BY <2>3, <3>1, UpdateType
  <2>5. PICK stack \in Seq(Nat) : spots' = [spots EXCEPT ![s] = stack]
    <3>1. CASE \E w \in 1 .. Width[heap[node[t]]] : spots' = [spots EXCEPT ![s] =
                   IF op[t] = "decode" THEN [grown EXCEPT ![i] = Wider(@, w)] ELSE grown]
      BY <3>1, <2>3, <2>4
    <3>2. CASE spots' = [spots EXCEPT ![s] = grown]
      BY <3>2, <2>3
    <3> QED
      BY <1>8, <3>1, <3>2 DEF EnterSpot
  <2>6. at' \in [Thread -> Nat]
    <3>1. at[t] + 1 \in Nat
      OBVIOUS
    <3> QED
      BY <1>8, <3>1 DEF EnterSpot
  <2>7. pc' \in [Thread -> Label]
    BY <1>8 DEF EnterSpot
  <2> QED
    BY <1>8, <2>1, <2>5, <2>6, <2>7 DEF EnterSpot
<1>9. ASSUME NEW t \in Thread, ReadString(t) PROVE TypeOK'
  BY <1>9 DEF ReadString
<1>10. ASSUME NEW t \in Thread, FinishWork(t) \/ RUnlock(t) PROVE TypeOK'
  BY <1>10 DEF FinishWork, RUnlock
<1>11. ASSUME NEW t \in Thread, Create(t) PROVE TypeOK'
  <2>1. arg[t] \in Schema
    BY <1>11 DEF Create, CallOK, InLoad
  <2>2. heap' \in [CacheId -> Schema \cup {Null}]
    BY <1>11, <2>1 DEF Create
  <2>3. mine' \in [Thread -> CacheId \cup {Null}]
    BY <1>11 DEF Create
  <2>4. pc' \in [Thread -> Label] /\ ret' \in [Thread -> Outcome \cup {Null}]
    BY <1>11 DEF Create
  <2> QED
    BY <1>11, <2>2, <2>3, <2>4 DEF Create
<1>12. ASSUME NEW t \in Thread, Build(t) PROVE TypeOK'
  BY <1>12 DEF Build
<1>13. ASSUME NEW t \in Thread, WLock(t) PROVE TypeOK'
  BY <1>13 DEF WLock
<1>14. ASSUME NEW t \in Thread, Presize(t) PROVE TypeOK'
  <2>1. at[t] \in Slot /\ arg[t] \in Schema
    BY <1>14 DEF Presize, CallOK, InLoad
  <2>2. Regrown(spots[at[t]], PresizeTo(at[t], arg[t])) \in Seq(Nat)
    BY <2>1, RegrownType, PresizeToType
  <2>3. spots' \in [Slot -> Seq(Nat)]
    BY <1>14, <2>1, <2>2 DEF Presize
  <2>4. at' \in [Thread -> Nat]
    <3>1. \A j \in Nat : (IF j + 1 = LockN THEN 0 ELSE j + 1) \in Nat
      OBVIOUS
    <3> QED
      BY <1>14, <3>1 DEF Presize
  <2>5. pc' \in [Thread -> Label] /\ ret' \in [Thread -> Outcome \cup {Null}]
    BY <1>14 DEF Presize
  <2> QED
    BY <1>14, <2>3, <2>4, <2>5 DEF Presize
<1>15. ASSUME NEW t \in Thread, Widths(t) PROVE TypeOK'
  <2>1. at[t] \in Slot /\ Width[arg[t]] \in Nat
    BY <1>15, SchemaAssumption DEF Widths, CallOK, InLoad
  <2>2. spots[at[t]] \in Seq(Nat) /\ Len(spots[at[t]]) \in Nat
    BY <2>1
  <2>3. \A k \in 0 .. Len(spots[at[t]]) :
            Widened(spots[at[t]], k, Width[arg[t]]) \in Seq(Nat)
    BY <2>1, <2>2, WidenedType
  <2>4. PICK k \in 0 .. Len(spots[at[t]]) :
            spots' = [spots EXCEPT ![at[t]] = Widened(@, k, Width[arg[t]])]
    <3>1. Len(spots[at[t]]) \in 0 .. Len(spots[at[t]])
      BY <2>2
    <3>2. CASE spots' = [spots EXCEPT ![at[t]] = Widened(@, Len(@), Width[arg[t]])]
      BY <3>1, <3>2
    <3>3. CASE \E k \in 0 .. Len(spots[at[t]]) - 1 :
                  spots' = [spots EXCEPT ![at[t]] = Widened(@, k, Width[arg[t]])]
      <4>1. PICK k \in 0 .. Len(spots[at[t]]) - 1 :
                spots' = [spots EXCEPT ![at[t]] = Widened(@, k, Width[arg[t]])]
        BY <3>3
      <4>2. k \in 0 .. Len(spots[at[t]])
        BY <2>2
      <4> QED
        BY <4>1, <4>2
    <3> QED
      BY <1>15, <3>2, <3>3 DEF Widths
  <2>5. at' \in [Thread -> Nat]
    <3>1. \A j \in Nat : (IF j + 1 = LockN THEN 0 ELSE j + 1) \in Nat
      OBVIOUS
    <3> QED
      BY <1>15, <3>1 DEF Widths
  <2>6. pc' \in [Thread -> Label] /\ ret' \in [Thread -> Outcome \cup {Null}]
    BY <1>15 DEF Widths
  <2> QED
    BY <1>15, <2>1, <2>3, <2>4, <2>5, <2>6 DEF Widths
<1>16. ASSUME NEW t \in Thread, Swap(t) PROVE TypeOK'
  BY <1>16 DEF Swap
<1>17. ASSUME NEW t \in Thread, WUnlock(t) \/ Destroy(t) PROVE TypeOK'
  BY <1>17 DEF WUnlock, Destroy
<1>18. ASSUME NEW t \in Thread, SetOpt(t) PROVE TypeOK'
  <2>1. arg[t] \in Seq(OptItem)
    BY <1>18 DEF SetOpt, CallOK
  <2>2. arg[t] # <<>> => /\ Head(arg[t]) \in OptItem
                         /\ Tail(arg[t]) \in Seq(OptItem)
    BY <2>1
  <2>3. opts' \in [Option -> BOOLEAN]
    BY <1>18, <2>2 DEF SetOpt, OptItem
  <2>4. arg' \in [Thread -> Schema \cup Name \cup Seq(OptItem) \cup {Null}]
    BY <1>18, <2>2 DEF SetOpt
  <2>5. pc' \in [Thread -> Label] /\ ret' \in [Thread -> Outcome \cup {Null}]
    BY <1>18 DEF SetOpt
  <2> QED
    BY <1>18, <2>3, <2>4, <2>5 DEF SetOpt
<1>19. CASE Upgrade
  BY <1>19, ClientAssumption DEF Upgrade
<1>20. CASE UNCHANGED vars
  BY <1>20 DEF vars
<1> QED
  BY <1>1, <1>2, <1>3, <1>4, <1>5, <1>6, <1>7, <1>8, <1>9, <1>10, <1>11, <1>12,
     <1>13, <1>14, <1>15, <1>16, <1>17, <1>18, <1>19, <1>20
  DEF Next, Unblocked, Stopped

-----------------------------------------------------------------------------
(* Every step keeps the lock and the calls in order *)

LEMMA LockStep == IInv /\ [Next]_vars => LockOK'
<1> SUFFICES ASSUME IInv, [Next]_vars PROVE LockOK'
  OBVIOUS
<1>0. /\ pc \in [Thread -> Label]
      /\ readers \subseteq Thread
      /\ LockOK /\ CallOK
  BY DEF IInv, TypeOK
<1> USE <1>0, NullAssumption
<1> USE DEF LockOK, shared, slots, local, At, Goto, Decide, LockedRead, LockedWrite
<1>1. ASSUME NEW t \in Thread, Invoke(t) PROVE LockOK'
  BY <1>1, ClientAssumption DEF Invoke, FirstLabel, Codec
<1>2. ASSUME NEW t \in Thread, Return(t) PROVE LockOK'
  BY <1>2 DEF Return
<1>3. ASSUME NEW t \in Thread, Check(t) PROVE LockOK'
  BY <1>3 DEF Check
<1>4. ASSUME NEW t \in Thread, GetTdata(t) PROVE LockOK'
  BY <1>4 DEF GetTdata
<1>5. ASSUME NEW t \in Thread, EncMem(t) PROVE LockOK'
  BY <1>5 DEF EncMem
<1>6. ASSUME NEW t \in Thread, RLock(t) PROVE LockOK'
  BY <1>6 DEF RLock
<1>7. ASSUME NEW t \in Thread, Lookup(t) PROVE LockOK'
  BY <1>7 DEF Lookup
<1>8. ASSUME NEW t \in Thread, EnterSpot(t) PROVE LockOK'
  BY <1>8 DEF EnterSpot
<1>9. ASSUME NEW t \in Thread, ReadString(t) PROVE LockOK'
  BY <1>9 DEF ReadString
<1>10. ASSUME NEW t \in Thread, FinishWork(t) PROVE LockOK'
  BY <1>10 DEF FinishWork
<1>11. ASSUME NEW t \in Thread, RUnlock(t) PROVE LockOK'
  BY <1>11 DEF RUnlock
<1>12. ASSUME NEW t \in Thread, Create(t) PROVE LockOK'
  BY <1>12 DEF Create
<1>13. ASSUME NEW t \in Thread, Build(t) PROVE LockOK'
  BY <1>13 DEF Build
<1>14. ASSUME NEW t \in Thread, WLock(t) PROVE LockOK'
  BY <1>14 DEF WLock, CallOK, InWriter
<1>15. ASSUME NEW t \in Thread, Presize(t) PROVE LockOK'
  BY <1>15 DEF Presize
<1>16. ASSUME NEW t \in Thread, Widths(t) PROVE LockOK'
  BY <1>16 DEF Widths
<1>17. ASSUME NEW t \in Thread, Swap(t) PROVE LockOK'
  BY <1>17 DEF Swap
<1>18. ASSUME NEW t \in Thread, WUnlock(t) PROVE LockOK'
  BY <1>18 DEF WUnlock
<1>19. ASSUME NEW t \in Thread, Destroy(t) PROVE LockOK'
  BY <1>19 DEF Destroy
<1>20. ASSUME NEW t \in Thread, SetOpt(t) PROVE LockOK'
  BY <1>20 DEF SetOpt
<1>21. CASE Upgrade
  BY <1>21 DEF Upgrade
<1>22. CASE UNCHANGED vars
  BY <1>22 DEF vars
<1> QED
  BY <1>1, <1>2, <1>3, <1>4, <1>5, <1>6, <1>7, <1>8, <1>9, <1>10, <1>11,
     <1>12, <1>13, <1>14, <1>15, <1>16, <1>17, <1>18, <1>19, <1>20, <1>21, <1>22
  DEF Next, Unblocked, Stopped

LEMMA CallStep == IInv /\ [Next]_vars => CallOK'
<1> SUFFICES ASSUME IInv, [Next]_vars PROVE CallOK'
  OBVIOUS
<1>0. /\ pc \in [Thread -> Label] /\ op \in [Thread -> Calls \cup {Null}]
      /\ arg \in [Thread -> Schema \cup Name \cup Seq(OptItem) \cup {Null}]
      /\ tls \in [Thread -> Slot \cup {Null}] /\ at \in [Thread -> Nat]
      /\ CallOK
  BY DEF IInv, TypeOK
<1> USE <1>0
<1> USE DEF CallOK, shared, slots, local, At, Goto, Decide, InCodec, InLoad, InWriter,
            UsingSlot, LockedRead
<1>1. ASSUME NEW t \in Thread, Invoke(t) PROVE CallOK'
  <2>1. PICK o \in Calls : \E a \in ArgsOf(o) :
            /\ op' = [op EXCEPT ![t] = o]
            /\ arg' = [arg EXCEPT ![t] = a]
            /\ pc' = [pc EXCEPT ![t] = FirstLabel(o)]
    BY <1>1 DEF Invoke
  <2>2. PICK a \in ArgsOf(o) :
            /\ op' = [op EXCEPT ![t] = o]
            /\ arg' = [arg EXCEPT ![t] = a]
            /\ pc' = [pc EXCEPT ![t] = FirstLabel(o)]
    BY <2>1
  <2>3. UNCHANGED <<tls, at>> /\ pc[t] = "idle"
    BY <1>1 DEF Invoke
  <2>4. CASE o \in Codec
    <3>1. FirstLabel(o) = "check" /\ a \in Name
      BY <2>4 DEF FirstLabel, ArgsOf, Codec
    <3> QED
      BY <2>2, <2>3, <2>4, <3>1
  <2>5. CASE o = "load"
    <3>1. FirstLabel(o) = "create" /\ a \in Schema
      BY <2>5 DEF FirstLabel, ArgsOf, Codec
    <3> QED
      BY <2>2, <2>3, <2>5, <3>1
  <2>6. CASE o = "set_opts"
    <3>1. FirstLabel(o) = "setopt" /\ a \in Seq(OptItem)
      BY <2>6, ClientAssumption DEF FirstLabel, ArgsOf, Codec
    <3> QED
      BY <2>2, <2>3, <2>6, <3>1
  <2>7. CASE o = "purge"
    <3>1. FirstLabel(o) = "wlock"
      BY <2>7 DEF FirstLabel, Codec
    <3> QED
      BY <2>2, <2>3, <2>7, <3>1
  <2> QED
    BY <2>1, <2>4, <2>5, <2>6, <2>7, ClientAssumption
<1>2. ASSUME NEW t \in Thread, Return(t) PROVE CallOK'
  BY <1>2 DEF Return
<1>3. ASSUME NEW t \in Thread, Check(t) PROVE CallOK'
  BY <1>3 DEF Check
<1>4. ASSUME NEW t \in Thread, GetTdata(t) PROVE CallOK'
  <2>1. tls'[t] \in Slot
    <3>1. CASE tls[t] # Null
      BY <1>4, <3>1 DEF GetTdata
    <3>2. CASE tls[t] = Null
      <4>1. slotNext \in Nat
        BY DEF IInv, TypeOK
      <4> QED
        BY <1>4, <3>2, <4>1, ClaimedSlotType DEF GetTdata
    <3> QED
      BY <3>1, <3>2
  <2>2. \A u \in Thread \ {t} : tls'[u] = tls[u]
    BY <1>4 DEF GetTdata
  <2> QED
    BY <1>4, <2>1, <2>2 DEF GetTdata
<1>5. ASSUME NEW t \in Thread, EncMem(t) PROVE CallOK'
  BY <1>5 DEF EncMem
<1>6. ASSUME NEW t \in Thread, RLock(t) PROVE CallOK'
  BY <1>6 DEF RLock
<1>7. ASSUME NEW t \in Thread, Lookup(t) PROVE CallOK'
  BY <1>7 DEF Lookup
<1>8. ASSUME NEW t \in Thread, EnterSpot(t) PROVE CallOK'
  BY <1>8 DEF EnterSpot
<1>9. ASSUME NEW t \in Thread, ReadString(t) PROVE CallOK'
  BY <1>9 DEF ReadString
<1>10. ASSUME NEW t \in Thread, FinishWork(t) PROVE CallOK'
  BY <1>10 DEF FinishWork
<1>11. ASSUME NEW t \in Thread, RUnlock(t) PROVE CallOK'
  BY <1>11 DEF RUnlock
<1>12. ASSUME NEW t \in Thread, Create(t) PROVE CallOK'
  BY <1>12 DEF Create
<1>13. ASSUME NEW t \in Thread, Build(t) PROVE CallOK'
  BY <1>13 DEF Build
<1>14. ASSUME NEW t \in Thread, WLock(t) PROVE CallOK'
  <2>1. 0 \in Slot
    BY SlotAssumption DEF Slot
  <2> QED
    BY <1>14, <2>1 DEF WLock
<1>15. ASSUME NEW t \in Thread, Presize(t) PROVE CallOK'
  <2>1. at[t] \in Slot /\ 0 \in Slot
    BY <1>15, SlotAssumption DEF Presize, Slot
  <2>2. at[t] + 1 # LockN => at[t] + 1 \in Slot
    BY <2>1, SlotAssumption DEF Slot
  <2>3. at' = at \/ \E i \in Slot : at' = [at EXCEPT ![t] = i]
    BY <1>15, <2>1, <2>2 DEF Presize
  <2>4. at'[t] \in Slot /\ \A u \in Thread \ {t} : at'[u] = at[u]
    BY <2>1, <2>3
  <2> QED
    BY <1>15, <2>4 DEF Presize
<1>16. ASSUME NEW t \in Thread, Widths(t) PROVE CallOK'
  <2>1. at[t] \in Slot /\ 0 \in Slot
    BY <1>16, SlotAssumption DEF Widths, Slot
  <2>2. at[t] + 1 # LockN => at[t] + 1 \in Slot
    BY <2>1, SlotAssumption DEF Slot
  <2>3. at' = at \/ \E i \in Slot : at' = [at EXCEPT ![t] = i]
    BY <1>16, <2>1, <2>2 DEF Widths
  <2>4. at'[t] \in Slot /\ \A u \in Thread \ {t} : at'[u] = at[u]
    BY <2>1, <2>3
  <2> QED
    BY <1>16, <2>4 DEF Widths
<1>17. ASSUME NEW t \in Thread, Swap(t) PROVE CallOK'
  BY <1>17 DEF Swap
<1>18. ASSUME NEW t \in Thread, WUnlock(t) PROVE CallOK'
  BY <1>18 DEF WUnlock
<1>19. ASSUME NEW t \in Thread, Destroy(t) PROVE CallOK'
  BY <1>19 DEF Destroy
<1>20. ASSUME NEW t \in Thread, SetOpt(t) PROVE CallOK'
  <2>1. arg[t] \in Seq(OptItem)
    BY <1>20 DEF SetOpt
  <2>2. arg[t] # <<>> => Tail(arg[t]) \in Seq(OptItem)
    BY <2>1
  <2>3. arg'[t] \in Seq(OptItem) /\ \A u \in Thread \ {t} : arg'[u] = arg[u]
    BY <1>20, <2>1, <2>2 DEF SetOpt
  <2>4. pc'[t] \in {"setopt", "return"} /\ \A u \in Thread \ {t} : pc'[u] = pc[u]
    BY <1>20 DEF SetOpt
  <2> QED
    BY <1>20, <2>3, <2>4 DEF SetOpt
<1>21. CASE Upgrade
  BY <1>21 DEF Upgrade
<1>22. CASE UNCHANGED vars
  BY <1>22 DEF vars
<1> QED
  BY <1>1, <1>2, <1>3, <1>4, <1>5, <1>6, <1>7, <1>8, <1>9, <1>10, <1>11,
     <1>12, <1>13, <1>14, <1>15, <1>16, <1>17, <1>18, <1>19, <1>20, <1>21, <1>22
  DEF Next, Unblocked, Stopped

-----------------------------------------------------------------------------
(* Every step keeps the caches owned, and those in use loaded *)

LEMMA OwnerStep == IInv /\ [Next]_vars => OwnerOK'
<1> SUFFICES ASSUME IInv, [Next]_vars PROVE OwnerOK'
  OBVIOUS
<1>0. /\ pc \in [Thread -> Label] /\ op \in [Thread -> Calls \cup {Null}]
      /\ mine \in [Thread -> CacheId \cup {Null}]
      /\ OwnerOK /\ CallOK
  BY DEF IInv, TypeOK
<1> USE <1>0, NullAssumption
<1> USE DEF OwnerOK, shared, slots, local, At, Goto, Decide
<1>1. ASSUME NEW t \in Thread,
            Return(t) \/ Check(t) \/ GetTdata(t) \/ EncMem(t)
              \/ RLock(t) \/ Lookup(t) \/ EnterSpot(t) \/ ReadString(t)
              \/ FinishWork(t) \/ RUnlock(t) \/ SetOpt(t)
     PROVE  OwnerOK'
  BY <1>1
  DEF Return, Check, GetTdata, EncMem, RLock, Lookup, EnterSpot, ReadString, FinishWork, RUnlock, SetOpt
<1>2. ASSUME NEW t \in Thread, Invoke(t) PROVE OwnerOK'
  BY <1>2, ClientAssumption DEF Invoke, FirstLabel, Codec
<1>3. ASSUME NEW t \in Thread, Create(t) PROVE OwnerOK'
  BY <1>3 DEF Create, CallOK, InLoad
<1>4. ASSUME NEW t \in Thread, Build(t) PROVE OwnerOK'
  BY <1>4 DEF Build, CallOK, InLoad
<1>5. ASSUME NEW t \in Thread, WLock(t) PROVE OwnerOK'
  BY <1>5 DEF WLock, CallOK, InWriter
<1>6. ASSUME NEW t \in Thread, Presize(t) PROVE OwnerOK'
  BY <1>6 DEF Presize
<1>7. ASSUME NEW t \in Thread, Widths(t) PROVE OwnerOK'
  BY <1>7 DEF Widths, CallOK, InLoad
<1>8. ASSUME NEW t \in Thread, Swap(t) PROVE OwnerOK'
  BY <1>8 DEF Swap
<1>9. ASSUME NEW t \in Thread, WUnlock(t) PROVE OwnerOK'
  BY <1>9 DEF WUnlock
<1>10. ASSUME NEW t \in Thread, Destroy(t) PROVE OwnerOK'
  BY <1>10 DEF Destroy
<1>11. CASE Upgrade
  BY <1>11 DEF Upgrade
<1>12. CASE UNCHANGED vars
  BY <1>12 DEF vars
<1> QED
  BY <1>1, <1>2, <1>3, <1>4, <1>5, <1>6, <1>7, <1>8, <1>9, <1>10, <1>11, <1>12
  DEF Next, Unblocked, Stopped

LEMMA OwnershipStep == IInv /\ [Next]_vars => CacheOwnership'
<1> SUFFICES ASSUME IInv, [Next]_vars PROVE CacheOwnership'
  OBVIOUS
<1>0. /\ cache \in CacheId \cup {Null}
      /\ heap \in [CacheId -> Schema \cup {Null}]
      /\ mine \in [Thread -> CacheId \cup {Null}]
      /\ CacheOwnership
  BY DEF IInv, TypeOK
<1> USE <1>0, NullAssumption
<1> USE DEF CacheOwnership, shared, slots, local, At, Goto, Decide
<1>1. ASSUME NEW t \in Thread,
            Invoke(t) \/ Return(t) \/ Check(t) \/ GetTdata(t)
              \/ EncMem(t) \/ RLock(t) \/ Lookup(t) \/ EnterSpot(t)
              \/ ReadString(t) \/ FinishWork(t) \/ RUnlock(t)
              \/ Build(t) \/ WLock(t) \/ Presize(t) \/ Widths(t)
              \/ WUnlock(t) \/ SetOpt(t)
     PROVE  CacheOwnership'
  BY <1>1
  DEF Invoke, Return, Check, GetTdata, EncMem, RLock, Lookup, EnterSpot, ReadString, FinishWork, RUnlock, Build, WLock, Presize, Widths, WUnlock, SetOpt
<1>2. ASSUME NEW t \in Thread, Create(t) PROVE CacheOwnership'
  <2>1. arg[t] \in Schema /\ mine[t] = Null
    BY <1>2 DEF Create, IInv, CallOK, OwnerOK, InLoad
  <2> QED
    BY <1>2, <2>1 DEF Create
<1>3. ASSUME NEW t \in Thread, Swap(t) PROVE CacheOwnership'
  BY <1>3 DEF Swap
<1>4. ASSUME NEW t \in Thread, Destroy(t) PROVE CacheOwnership'
  BY <1>4 DEF Destroy
<1>5. CASE Upgrade
  BY <1>5 DEF Upgrade
<1>6. CASE UNCHANGED vars
  BY <1>6 DEF vars
<1> QED
  BY <1>1, <1>2, <1>3, <1>4, <1>5, <1>6
  DEF Next, Unblocked, Stopped

LEMMA FlightStep == IInv /\ [Next]_vars => InFlightCacheValid'
<1> SUFFICES ASSUME IInv, [Next]_vars PROVE InFlightCacheValid'
  OBVIOUS
<1>0. /\ pc \in [Thread -> Label]
      /\ cache \in CacheId \cup {Null}
      /\ heap \in [CacheId -> Schema \cup {Null}]
      /\ node \in [Thread -> CacheId \cup {Null}]
      /\ ret \in [Thread -> Outcome \cup {Null}]
      /\ InFlightCacheValid
  BY DEF IInv, TypeOK
<1> USE <1>0, NullAssumption
<1> USE DEF InFlightCacheValid, shared, slots, local, At, Goto, Decide
<1>1. ASSUME NEW t \in Thread,
            Check(t) \/ GetTdata(t) \/ EncMem(t) \/ RLock(t)
              \/ ReadString(t) \/ FinishWork(t) \/ RUnlock(t)
              \/ WLock(t) \/ WUnlock(t)
     PROVE  InFlightCacheValid'
  BY <1>1
  DEF Check, GetTdata, EncMem, RLock, ReadString, FinishWork, RUnlock, WLock, WUnlock
<1>2. ASSUME NEW t \in Thread, Invoke(t) PROVE InFlightCacheValid'
  BY <1>2 DEF Invoke, FirstLabel
<1>3. ASSUME NEW t \in Thread, Return(t) PROVE InFlightCacheValid'
  BY <1>3 DEF Return
<1>4. ASSUME NEW t \in Thread, Lookup(t) PROVE InFlightCacheValid'
  BY <1>4 DEF Lookup
<1>5. ASSUME NEW t \in Thread, EnterSpot(t) PROVE InFlightCacheValid'
  BY <1>5 DEF EnterSpot
<1>6. ASSUME NEW t \in Thread, Create(t) PROVE InFlightCacheValid'
  <2>1. cache # Null => heap[cache] # Null
    BY DEF IInv, CacheOwnership
  <2> QED
    BY <1>6, <2>1 DEF Create
<1>7. ASSUME NEW t \in Thread, Build(t) PROVE InFlightCacheValid'
  BY <1>7 DEF Build
<1>8. ASSUME NEW t \in Thread, Presize(t) PROVE InFlightCacheValid'
  BY <1>8 DEF Presize
<1>9. ASSUME NEW t \in Thread, Widths(t) PROVE InFlightCacheValid'
  BY <1>9 DEF Widths
<1>10. ASSUME NEW t \in Thread, Swap(t) PROVE InFlightCacheValid'
  <2>1. \A u \in Thread : pc[u] # "work"
    <3>1. writer = t /\ readers = {}
      BY <1>10 DEF Swap, IInv, LockOK, LockedWrite
    <3> QED
      BY <3>1 DEF IInv, LockOK, LockedRead
  <2> QED
    BY <1>10, <2>1 DEF Swap
<1>11. ASSUME NEW t \in Thread, Destroy(t) PROVE InFlightCacheValid'
  <2>1. mine[t] # Null => mine[t] # cache
    BY DEF IInv, CacheOwnership
  <2> QED
    BY <1>11, <2>1 DEF Destroy
<1>12. ASSUME NEW t \in Thread, SetOpt(t) PROVE InFlightCacheValid'
  BY <1>12 DEF SetOpt
<1>13. CASE Upgrade
  BY <1>13 DEF Upgrade
<1>14. CASE UNCHANGED vars
  BY <1>14 DEF vars
<1> QED
  BY <1>1, <1>2, <1>3, <1>4, <1>5, <1>6, <1>7, <1>8, <1>9, <1>10, <1>11, <1>12, <1>13, <1>14
  DEF Next, Unblocked, Stopped

-----------------------------------------------------------------------------
(* What holds in every reachable state *)

\* Every variable keeps its type, whatever the threads do to the schema cache,
\* the slots and the options.
THEOREM TypeCorrect == Spec => []TypeOK
<1>1. IInv /\ [Next]_vars => IInv'
  BY TypeStep, LockStep, CallStep, OwnerStep, OwnershipStep, FlightStep DEF IInv
<1>2. IInv => TypeOK
  BY DEF IInv
<1> QED
  BY InitInv, <1>1, <1>2, PTL DEF Spec

LEMMA Invariance == Spec => []IInv
<1>1. IInv /\ [Next]_vars => IInv'
  BY TypeStep, LockStep, CallStep, OwnerStep, OwnershipStep, FlightStep DEF IInv
<1> QED
  BY InitInv, <1>1, PTL DEF Spec

\* A codec keeps the schema it looked its message up in until it is done: no
\* load or purge replaces or frees the cache under it (cache_lock in
\* enif_protobuf.c).
THEOREM NoUseAfterFree == Spec => []InFlightCacheValid
<1>1. IInv => InFlightCacheValid
  BY DEF IInv
<1> QED
  BY Invariance, <1>1, PTL

\* No cache is leaked, freed twice or owned twice by loads and purges.
THEOREM CachesOwned == Spec => []CacheOwnership
<1>1. IInv => CacheOwnership
  BY DEF IInv
<1> QED
  BY Invariance, <1>1, PTL

-----------------------------------------------------------------------------
(* What the service sees of a call *)

Undecided == {"idle", "check", "tdata", "encmem", "rlock", "lookup",
              "create", "build", "wlock", "presize", "widths", "swap", "setopt"}

\* A call has its answer behind the step that decides it and not before, and
\* it knows what it was called for until it returns.
AnswerOK ==
    \A t \in Thread :
        /\ pc[t] = "idle" => op[t] = Null /\ arg[t] = Null
        /\ pc[t] # "idle" => op[t] # Null
        /\ ret[t] = Null <=> pc[t] \in Undecided
        /\ pc[t] = "encmem" => op[t] = "encode"
        /\ pc[t] = "setopt" => op[t] = "set_opts"

\* What a load is about to install is what it was asked to load.
BuiltOK ==
    \A t \in Thread :
        /\ pc[t] \in {"build", "presize", "widths"} => mine[t] # Null /\ heap[mine[t]] = arg[t]
        /\ pc[t] \in {"wlock", "swap"} /\ op[t] = "load" => mine[t] # Null /\ heap[mine[t]] = arg[t]

RInv == IInv /\ AnswerOK /\ BuiltOK

LEMMA RInitInv == Init => AnswerOK /\ BuiltOK
  BY DEF Init, AnswerOK, BuiltOK, Undecided

LEMMA AnswerStep == IInv /\ AnswerOK /\ [Next]_vars => AnswerOK'
<1> SUFFICES ASSUME IInv, AnswerOK, [Next]_vars PROVE AnswerOK'
  OBVIOUS
<1>0. /\ pc \in [Thread -> Label] /\ op \in [Thread -> Calls \cup {Null}]
      /\ arg \in [Thread -> Schema \cup Name \cup Seq(OptItem) \cup {Null}]
      /\ ret \in [Thread -> Outcome \cup {Null}]
      /\ cache \in CacheId \cup {Null}
      /\ cache # Null => heap[cache] \in Schema
      /\ CallOK
  BY DEF IInv, TypeOK, CacheOwnership
<1> USE <1>0, NullAssumption
<1> USE DEF AnswerOK, Undecided, shared, slots, local, At, Goto, Decide
<1>1. ASSUME NEW t \in Thread, Invoke(t) PROVE AnswerOK'
  <2>1. PICK o \in Calls : /\ \E a : arg' = [arg EXCEPT ![t] = a]
                           /\ op' = [op EXCEPT ![t] = o]
                           /\ pc' = [pc EXCEPT ![t] = FirstLabel(o)]
    BY <1>1 DEF Invoke
  <2>2. o # Null /\ FirstLabel(o) \in Undecided \ {"idle", "encmem"}
    BY ClientAssumption DEF FirstLabel, Codec
  <2>3. FirstLabel(o) = "setopt" => o = "set_opts"
    BY DEF FirstLabel, Codec
  <2>4. pc[t] = "idle" /\ ret' = ret
    BY <1>1 DEF Invoke
  <2>5. \A u \in Thread \ {t} : pc'[u] = pc[u] /\ op'[u] = op[u] /\ arg'[u] = arg[u]
    BY <2>1
  <2>6. pc'[t] = FirstLabel(o) /\ op'[t] = o
    BY <2>1
  <2> QED
    BY <2>2, <2>3, <2>4, <2>5, <2>6
<1>2. ASSUME NEW t \in Thread, Return(t) PROVE AnswerOK'
  BY <1>2 DEF Return
<1>3. ASSUME NEW t \in Thread, Check(t) PROVE AnswerOK'
  BY <1>3 DEF Check
<1>4. ASSUME NEW t \in Thread, GetTdata(t) PROVE AnswerOK'
  BY <1>4 DEF GetTdata
<1>5. ASSUME NEW t \in Thread, EncMem(t) PROVE AnswerOK'
  BY <1>5 DEF EncMem
<1>6. ASSUME NEW t \in Thread, RLock(t) PROVE AnswerOK'
  BY <1>6 DEF RLock
<1>7. ASSUME NEW t \in Thread, Lookup(t) PROVE AnswerOK'
  <2>1. arg[t] \in Name
    BY <1>7 DEF Lookup, CallOK, InCodec
  <2> QED
    BY <1>7, <2>1 DEF Lookup
<1>8. ASSUME NEW t \in Thread,
            EnterSpot(t) \/ ReadString(t) \/ FinishWork(t) \/ RUnlock(t)
     PROVE  AnswerOK'
  BY <1>8 DEF EnterSpot, ReadString, FinishWork, RUnlock
<1>9. ASSUME NEW t \in Thread, Create(t) PROVE AnswerOK'
  BY <1>9 DEF Create
<1>10. ASSUME NEW t \in Thread, Build(t) PROVE AnswerOK'
  BY <1>10 DEF Build
<1>11. ASSUME NEW t \in Thread, WLock(t) PROVE AnswerOK'
  BY <1>11 DEF WLock
<1>12. ASSUME NEW t \in Thread, Presize(t) PROVE AnswerOK'
  BY <1>12 DEF Presize
<1>13. ASSUME NEW t \in Thread, Widths(t) PROVE AnswerOK'
  BY <1>13 DEF Widths
<1>14. ASSUME NEW t \in Thread, Swap(t) PROVE AnswerOK'
  BY <1>14 DEF Swap
<1>15. ASSUME NEW t \in Thread, WUnlock(t) \/ Destroy(t) PROVE AnswerOK'
  BY <1>15 DEF WUnlock, Destroy
<1>16. ASSUME NEW t \in Thread, SetOpt(t) PROVE AnswerOK'
  BY <1>16 DEF SetOpt
<1>17. CASE Upgrade
  BY <1>17 DEF Upgrade
<1>18. CASE UNCHANGED vars
  BY <1>18 DEF vars
<1> QED
  BY <1>1, <1>2, <1>3, <1>4, <1>5, <1>6, <1>7, <1>8, <1>9, <1>10, <1>11, <1>12,
     <1>13, <1>14, <1>15, <1>16, <1>17, <1>18
  DEF Next, Unblocked, Stopped

LEMMA BuiltStep == IInv /\ BuiltOK /\ [Next]_vars => BuiltOK'
<1> SUFFICES ASSUME IInv, BuiltOK, [Next]_vars PROVE BuiltOK'
  OBVIOUS
<1>0. /\ pc \in [Thread -> Label] /\ op \in [Thread -> Calls \cup {Null}]
      /\ arg \in [Thread -> Schema \cup Name \cup Seq(OptItem) \cup {Null}]
      /\ mine \in [Thread -> CacheId \cup {Null}]
      /\ heap \in [CacheId -> Schema \cup {Null}]
      /\ CallOK /\ OwnerOK /\ CacheOwnership
  BY DEF IInv, TypeOK
<1> USE <1>0, NullAssumption
<1> USE DEF BuiltOK, shared, slots, local, At, Goto, Decide
<1>1. ASSUME NEW t \in Thread,
            Return(t) \/ Check(t) \/ GetTdata(t) \/ EncMem(t)
              \/ RLock(t) \/ Lookup(t) \/ EnterSpot(t) \/ ReadString(t)
              \/ FinishWork(t) \/ RUnlock(t) \/ SetOpt(t)
     PROVE  BuiltOK'
  BY <1>1
  DEF Return, Check, GetTdata, EncMem, RLock, Lookup, EnterSpot, ReadString, FinishWork, RUnlock, SetOpt
<1>2. ASSUME NEW t \in Thread, Invoke(t) PROVE BuiltOK'
  <2>1. PICK o \in Calls : /\ \E a : arg' = [arg EXCEPT ![t] = a]
                           /\ op' = [op EXCEPT ![t] = o]
                           /\ pc' = [pc EXCEPT ![t] = FirstLabel(o)]
    BY <1>2 DEF Invoke
  <2>2. FirstLabel(o) \notin {"build", "presize", "widths", "swap"}
        /\ ~(FirstLabel(o) = "wlock" /\ o = "load")
    BY DEF FirstLabel, Codec
  <2>3. UNCHANGED <<heap, mine>>
    BY <1>2 DEF Invoke
  <2> QED
    BY <2>1, <2>2, <2>3
<1>3. ASSUME NEW t \in Thread, Create(t) PROVE BuiltOK'
  BY <1>3 DEF Create, CacheOwnership
<1>4. ASSUME NEW t \in Thread, Build(t) PROVE BuiltOK'
  BY <1>4 DEF Build
<1>5. ASSUME NEW t \in Thread, WLock(t) PROVE BuiltOK'
  BY <1>5 DEF WLock
<1>6. ASSUME NEW t \in Thread, Presize(t) PROVE BuiltOK'
  BY <1>6 DEF Presize
<1>7. ASSUME NEW t \in Thread, Widths(t) PROVE BuiltOK'
  BY <1>7 DEF Widths
<1>8. ASSUME NEW t \in Thread, Swap(t) PROVE BuiltOK'
  BY <1>8 DEF Swap
<1>9. ASSUME NEW t \in Thread, WUnlock(t) PROVE BuiltOK'
  BY <1>9 DEF WUnlock
<1>10. ASSUME NEW t \in Thread, Destroy(t) PROVE BuiltOK'
  BY <1>10 DEF Destroy, CacheOwnership
<1>11. CASE Upgrade
  BY <1>11 DEF Upgrade
<1>12. CASE UNCHANGED vars
  BY <1>12 DEF vars
<1> QED
  BY <1>1, <1>2, <1>3, <1>4, <1>5, <1>6, <1>7, <1>8, <1>9, <1>10, <1>11, <1>12
  DEF Next, Unblocked, Stopped

-----------------------------------------------------------------------------
(* Every step is one of the service or none *)

Subject == [t \in Thread |-> IF op[t] = "set_opts" THEN Null ELSE arg[t]]

\* What the service sees of a step in which thread t neither asks nor is
\* answered, nor changes the schema.
Unseen == UNCHANGED <<LoadedSchema, op, Subject, ret>>

LEMMA UnseenStutters == Unseen => UNCHANGED Service!vars
  BY DEF Unseen, Subject, Service!vars

\* An answer given to thread t.
Answered(t, a) == ret[t] = Null /\ ret' = [ret EXCEPT ![t] = a] /\ UNCHANGED <<op, Subject>>

LEMMA AnsweredGives == ASSUME NEW t, NEW a, Answered(t, a) PROVE Service!Give(t, a)
  BY DEF Answered, Subject, Service!Give

LEMMA RefineInit == Init => Service!Init
  BY NullAssumption DEF Init, Service!Init, LoadedSchema

LEMMA RefineStep == RInv /\ [Next]_vars => [Service!Next]_Service!vars
<1> SUFFICES ASSUME RInv, [Next]_vars PROVE [Service!Next]_Service!vars
  OBVIOUS
<1>0. /\ pc \in [Thread -> Label] /\ op \in [Thread -> Calls \cup {Null}]
      /\ arg \in [Thread -> Schema \cup Name \cup Seq(OptItem) \cup {Null}]
      /\ ret \in [Thread -> Outcome \cup {Null}]
      /\ cache \in CacheId \cup {Null}
      /\ heap \in [CacheId -> Schema \cup {Null}]
      /\ mine \in [Thread -> CacheId \cup {Null}]
      /\ CallOK /\ CacheOwnership /\ AnswerOK /\ BuiltOK /\ OwnerOK
  BY DEF RInv, IInv, TypeOK
<1> USE <1>0, NullAssumption
<1> USE DEF shared, slots, local, At, Goto, Decide
<1>1. ASSUME NEW t \in Thread, Invoke(t) PROVE Service!Next
  <2>0. PICK o \in Calls : \E b \in ArgsOf(o) :
            op' = [op EXCEPT ![t] = o] /\ arg' = [arg EXCEPT ![t] = b]
    BY <1>1 DEF Invoke
  <2>1. PICK a \in ArgsOf(o) :
            op' = [op EXCEPT ![t] = o] /\ arg' = [arg EXCEPT ![t] = a]
    BY <2>0
  <2>2. op[t] = Null /\ UNCHANGED <<LoadedSchema, ret>>
    BY <1>1 DEF Invoke, AnswerOK, LoadedSchema
  <2> DEFINE s == IF o = "set_opts" THEN Null ELSE a
  <2>3. Subject' = [Subject EXCEPT ![t] = s]
    BY <2>1 DEF Subject
  <2>4. Service!Ask(t, o, s)
    BY <2>1, <2>2, <2>3 DEF Service!Ask, Subject
  <2>5. CASE o \in Codec
    <3>1. s \in Name
      BY <2>5 DEF ArgsOf, Codec
    <3> QED
      BY <2>4, <2>5, <3>1 DEF Service!Next, Codec
  <2>6. CASE o = "load"
    <3>1. s \in Schema
      BY <2>6 DEF ArgsOf, Codec
    <3> QED
      BY <2>4, <2>6, <3>1 DEF Service!Next
  <2>7. CASE o = "set_opts"
    <3> QED
      BY <2>4, <2>7 DEF Service!Next
  <2>8. CASE o = "purge"
    <3>1. s = Null
      BY <2>8 DEF ArgsOf, Codec
    <3> QED
      BY <2>4, <2>8, <3>1 DEF Service!Next
  <2> QED
    BY <2>5, <2>6, <2>7, <2>8, ClientAssumption
<1>2. ASSUME NEW t \in Thread, Return(t) PROVE Service!Next
  <2>1. ret[t] # Null /\ UNCHANGED LoadedSchema
    BY <1>2 DEF Return, AnswerOK, Undecided, LoadedSchema
  <2>2. Subject' = [Subject EXCEPT ![t] = Null]
    BY <1>2 DEF Return, Subject
  <2>3. Service!Done(t)
    BY <1>2, <2>1, <2>2 DEF Return, Service!Done, Subject
  <2> QED
    BY <2>3 DEF Service!Next
<1>3. ASSUME NEW t \in Thread, Check(t) PROVE Unseen \/ Service!Next
  <2>1. UNCHANGED <<LoadedSchema, op, Subject>> /\ ret[t] = Null
        /\ op[t] \in {"encode", "decode"}
    BY <1>3 DEF Check, LoadedSchema, Subject, AnswerOK, Undecided, CallOK, InCodec, Codec
  <2>2. CASE cache # Null
    BY <1>3, <2>1, <2>2 DEF Check, Unseen
  <2>3. CASE cache = Null
    <3>1. Service!Give(t, "cache_not_exists")
      BY <1>3, <2>1, <2>3, AnsweredGives DEF Check, Answered
    <3>2. Service!Serve(t)
      BY <2>1, <2>3, <3>1 DEF Service!Serve, LoadedSchema
    <3> QED
      BY <3>2 DEF Service!Next
  <2> QED
    BY <2>2, <2>3
<1>4. ASSUME NEW t \in Thread, EncMem(t) PROVE Unseen \/ Service!Next
  <2>1. UNCHANGED <<LoadedSchema, op, Subject>> /\ ret[t] = Null /\ op[t] = "encode"
    BY <1>4 DEF EncMem, LoadedSchema, Subject, AnswerOK, Undecided
  <2>2. ASSUME ret' = [ret EXCEPT ![t] = "alloc"] PROVE Service!Next
    <3>1. Service!Give(t, "alloc")
      BY <2>1, <2>2, AnsweredGives DEF Answered
    <3> QED
      BY <2>1, <3>1 DEF Service!Serve, Service!Next
  <2> QED
    BY <1>4, <2>1, <2>2 DEF EncMem, Unseen
<1>5. ASSUME NEW t \in Thread, Lookup(t) PROVE Unseen \/ Service!Next
  <2>1. UNCHANGED <<LoadedSchema, op, Subject>> /\ ret[t] = Null
        /\ op[t] \in {"encode", "decode"} /\ Subject[t] = arg[t]
    BY <1>5 DEF Lookup, LoadedSchema, Subject, AnswerOK, Undecided, CallOK, InCodec, Codec
  <2>2. CASE cache = Null
    BY <1>5, <2>1, <2>2 DEF Lookup, Unseen
  <2>3. CASE cache # Null
    <3>1. LoadedSchema = heap[cache] /\ LoadedSchema # Null
      BY <2>3 DEF LoadedSchema, CacheOwnership
    <3>2. CASE arg[t] \notin Defines[heap[cache]]
      <4>1. Service!Give(t, arg[t])
        BY <1>5, <2>1, <2>3, <3>2, AnsweredGives DEF Lookup, Answered
      <4> QED
        BY <2>1, <3>1, <3>2, <4>1 DEF Service!Serve, Service!Next, Subject
    <3>3. CASE arg[t] \in Defines[heap[cache]]
      <4>1. Service!Give(t, heap[cache])
        BY <1>5, <2>1, <2>3, <3>3, AnsweredGives DEF Lookup, Answered
      <4> QED
        BY <2>1, <3>1, <3>3, <4>1 DEF Service!Serve, Service!Next, Subject
    <3> QED
      BY <3>2, <3>3
  <2> QED
    BY <2>2, <2>3
<1>6. ASSUME NEW t \in Thread, NEW e \in {"error", "alloc"}, op[t] = "load",
             Answered(t, e), UNCHANGED LoadedSchema
      PROVE  Service!Next
  BY <1>6, AnsweredGives DEF Service!Load, Service!Next
<1>7. ASSUME NEW t \in Thread, Create(t) PROVE Unseen \/ Service!Next
  <2>1. UNCHANGED <<LoadedSchema, op, Subject>> /\ ret[t] = Null /\ op[t] = "load"
    BY <1>7 DEF Create, LoadedSchema, Subject, AnswerOK, Undecided, CallOK, InLoad, CacheOwnership
  <2> QED
    BY <1>6, <1>7, <2>1 DEF Create, Unseen, Answered
<1>8. ASSUME NEW t \in Thread, Build(t) PROVE Unseen \/ Service!Next
  <2>1. UNCHANGED <<LoadedSchema, op, Subject>> /\ ret[t] = Null /\ op[t] = "load"
    BY <1>8 DEF Build, LoadedSchema, Subject, AnswerOK, Undecided, CallOK, InLoad
  <2> QED
    BY <1>6, <1>8, <2>1 DEF Build, Unseen, Answered
<1>9. ASSUME NEW t \in Thread, Presize(t) PROVE Unseen \/ Service!Next
  <2>1. UNCHANGED <<LoadedSchema, op, Subject>> /\ ret[t] = Null /\ op[t] = "load"
    BY <1>9 DEF Presize, LoadedSchema, Subject, AnswerOK, Undecided, CallOK, InLoad
  <2> QED
    BY <1>6, <1>9, <2>1 DEF Presize, Unseen, Answered
<1>10. ASSUME NEW t \in Thread, Widths(t) PROVE Unseen \/ Service!Next
  <2>1. UNCHANGED <<LoadedSchema, op, Subject>> /\ ret[t] = Null /\ op[t] = "load"
    BY <1>10 DEF Widths, LoadedSchema, Subject, AnswerOK, Undecided, CallOK, InLoad
  <2> QED
    BY <1>6, <1>10, <2>1 DEF Widths, Unseen, Answered
<1>11. ASSUME NEW t \in Thread, Swap(t) PROVE Service!Next
  <2>1. UNCHANGED <<op, Subject>> /\ ret[t] = Null
    BY <1>11 DEF Swap, Subject, AnswerOK, Undecided
  <2>2. Service!Give(t, IF op[t] = "load" /\ arg[t] \in Raising THEN "error" ELSE "ok")
    BY <1>11, <2>1, AnsweredGives DEF Swap, Answered
  <2>3. CASE op[t] = "load"
    <3>1. mine[t] # Null /\ heap[mine[t]] = arg[t] /\ Subject[t] = arg[t]
      BY <1>11, <2>3 DEF Swap, BuiltOK, Subject
    <3>2. LoadedSchema' = Subject[t]
      BY <1>11, <3>1 DEF Swap, LoadedSchema
    <3> QED
      BY <2>2, <2>3, <3>2 DEF Service!Load, Service!Next, Subject
  <2>4. CASE op[t] = "purge"
    <3>1. mine[t] = Null
      BY <1>11, <2>4 DEF Swap, OwnerOK
    <3>2. LoadedSchema' = Null
      BY <1>11, <3>1 DEF Swap, LoadedSchema
    <3> QED
      BY <2>2, <2>4, <3>2 DEF Service!Purge, Service!Next
  <2> QED
    BY <1>11, <2>3, <2>4 DEF Swap, CallOK, InWriter
<1>12. ASSUME NEW t \in Thread, SetOpt(t) PROVE Unseen \/ Service!Next
  <2>1. UNCHANGED <<LoadedSchema, op>> /\ ret[t] = Null /\ op[t] = "set_opts"
    BY <1>12 DEF SetOpt, LoadedSchema, AnswerOK, Undecided
  <2>2. UNCHANGED Subject
    BY <1>12, <2>1 DEF SetOpt, Subject
  <2>3. ASSUME NEW r \in {"ok", "badarg"}, ret' = [ret EXCEPT ![t] = r] PROVE Service!Next
    <3>1. Service!Give(t, r)
      BY <2>1, <2>2, <2>3, AnsweredGives DEF Answered
    <3> QED
      BY <2>1, <3>1 DEF Service!SetOpts, Service!Next
  <2> QED
    BY <1>12, <2>1, <2>2, <2>3 DEF SetOpt, Unseen
<1>13. ASSUME NEW t \in Thread, Destroy(t) PROVE Unseen
  BY <1>13 DEF Destroy, Unseen, Subject, LoadedSchema, CacheOwnership
<1>14. ASSUME NEW t \in Thread,
             GetTdata(t) \/ RLock(t) \/ EnterSpot(t) \/ ReadString(t)
               \/ FinishWork(t) \/ RUnlock(t) \/ WLock(t) \/ WUnlock(t)
       PROVE Unseen
  BY <1>14 DEF Unseen, Subject, LoadedSchema, GetTdata, RLock, EnterSpot, ReadString,
               FinishWork, RUnlock, WLock, WUnlock
<1>15. ASSUME Upgrade PROVE Unseen
  BY <1>15 DEF Upgrade, Unseen, Subject, LoadedSchema
<1>16. ASSUME UNCHANGED vars PROVE Unseen
  BY <1>16 DEF vars, Unseen, Subject, LoadedSchema
<1> QED
  BY <1>1, <1>2, <1>3, <1>4, <1>5, <1>7, <1>8, <1>9, <1>10, <1>11, <1>12, <1>13,
     <1>14, <1>15, <1>16, UnseenStutters
  DEF Next, Unblocked, Stopped

LEMMA RInvariance == Spec => []RInv
<1>1. RInv /\ [Next]_vars => RInv'
  BY TypeStep, LockStep, CallStep, OwnerStep, OwnershipStep, FlightStep, AnswerStep, BuiltStep
  DEF RInv, IInv
<1>2. Init => RInv
  BY InitInv, RInitInv DEF RInv
<1> QED
  BY <1>1, <1>2, PTL DEF Spec

\* Whatever the interleaving, every call of every thread behaves as if it took
\* effect in one step between its invocation and its return, and a load that
\* fails at any of its steps changes nothing (enif_protobuf.c).
THEOREM Linearizable == Spec => ImplementsService
  BY RInvariance, RefineInit, RefineStep, PTL DEF Spec, ImplementsService, Service!Spec

-----------------------------------------------------------------------------
(* Who has which slot *)

Claimed == {t \in Thread : tls[t] # Null}

\* As many slots as threads can claim, each once and again after an upgrade.
EnoughSlots == LockN >= (MaxUpgrades + 1) * Cardinality(Thread)

\* Slots are handed out in order, each at most once.
SlotInv ==
    /\ \A t \in Claimed : tls[t] < slotNext
    /\ \A t, u \in Claimed : t # u => tls[t] # tls[u]
    /\ slotNext <= upgrades * Cardinality(Thread) + Cardinality(Claimed)

LEMMA ClaimedCard ==
    /\ Cardinality(Thread) \in Nat
    /\ IsFiniteSet(Claimed) /\ Cardinality(Claimed) \in Nat
    /\ Cardinality(Claimed) <= Cardinality(Thread)
    /\ Claimed # Thread => Cardinality(Claimed) < Cardinality(Thread)
<1>1. Claimed \subseteq Thread
  BY DEF Claimed
<1> QED
  BY <1>1, ThreadAssumption, FS_CardinalityType, FS_Subset

LEMMA SlotInit == Init => SlotInv
<1> SUFFICES ASSUME Init PROVE SlotInv
  OBVIOUS
<1>1. Claimed = {} /\ slotNext = 0 /\ upgrades = 0
  BY DEF Init, Claimed
<1>2. Cardinality(Thread) \in Nat /\ Cardinality(Claimed) = 0
  BY <1>1, ClaimedCard, FS_EmptySet
<1> QED
  BY <1>1, <1>2 DEF SlotInv

\* A thread without a slot finds one that nobody had before.
LEMMA FreshSlot ==
    ASSUME EnoughSlots, TypeOK, SlotInv, NEW t \in Thread, tls[t] = Null
    PROVE  ClaimedSlot(slotNext) = slotNext
<1> DEFINE n == Cardinality(Thread)
<1>1. Claimed # Thread /\ Cardinality(Claimed) < n /\ n \in Nat /\ Cardinality(Claimed) \in Nat
  BY ClaimedCard DEF Claimed
<1>2. upgrades \in Nat /\ MaxUpgrades \in Nat /\ upgrades <= MaxUpgrades /\ slotNext \in Nat
  BY ClientAssumption DEF TypeOK
<1>3. \A a, b, c \in Nat : a <= b => a * c <= b * c
  OBVIOUS
<1>4. upgrades * n <= MaxUpgrades * n /\ upgrades * n \in Nat /\ MaxUpgrades * n \in Nat
  BY <1>1, <1>2, <1>3
<1>5. (MaxUpgrades + 1) * n = MaxUpgrades * n + n
  BY <1>1, <1>2
<1>6. slotNext < MaxUpgrades * n + n
  <2> HIDE DEF n
  <2> QED
    BY <1>1, <1>2, <1>4 DEF SlotInv, n
<1>7. slotNext < LockN
  <2> HIDE DEF n
  <2> QED
    BY <1>2, <1>4, <1>5, <1>6, SlotAssumption, <1>1 DEF EnoughSlots, n
<1> QED
  BY <1>7, <1>2, SlotAssumption DEF ClaimedSlot

LEMMA SlotStep == ASSUME EnoughSlots PROVE IInv /\ SlotInv /\ [Next]_vars => SlotInv'
<1> SUFFICES ASSUME IInv, SlotInv, [Next]_vars PROVE SlotInv'
  OBVIOUS
<1>0. TypeOK /\ tls \in [Thread -> Slot \cup {Null}] /\ slotNext \in Nat
      /\ upgrades \in Nat /\ Slot \subseteq Nat /\ Null \notin Slot
  BY ClientAssumption, NullAssumption, SlotAssumption DEF IInv, TypeOK, Slot
<1>1. ASSUME UNCHANGED <<tls, slotNext, upgrades>> PROVE SlotInv'
  BY <1>1 DEF SlotInv, Claimed
<1>2. ASSUME NEW t \in Thread, GetTdata(t) PROVE SlotInv'
  <2>1. CASE tls[t] # Null
    BY <1>1, <1>2, <2>1 DEF GetTdata
  <2>2. CASE tls[t] = Null
    <3>1. /\ tls' = [tls EXCEPT ![t] = slotNext]
          /\ slotNext' = slotNext + 1 /\ upgrades' = upgrades
          /\ slotNext \in Slot
      BY <1>0, <1>2, <2>2, FreshSlot, ClaimedSlotType DEF GetTdata
    <3>2. Claimed' = Claimed \cup {t} /\ t \notin Claimed
      BY <1>0, <2>2, <3>1 DEF Claimed
    <3>3. Cardinality(Claimed') = Cardinality(Claimed) + 1
      BY <3>2, ClaimedCard, FS_AddElement
    <3>4. slotNext' <= upgrades' * Cardinality(Thread) + Cardinality(Claimed')
      <4>1. upgrades * Cardinality(Thread) \in Nat
        BY <1>0, ClaimedCard
      <4> QED
        BY <1>0, <3>1, <3>3, <4>1, ClaimedCard DEF SlotInv
    <3>5. \A u \in Claimed : tls'[u] = tls[u] /\ tls[u] < slotNext /\ tls[u] \in Nat
      BY <1>0, <3>1, <3>2 DEF SlotInv, Claimed
    <3>6. tls'[t] = slotNext
      BY <1>0, <3>1
    <3>7. \A u \in Claimed' : tls'[u] < slotNext'
      BY <1>0, <3>1, <3>2, <3>5, <3>6
    <3>8. \A u, w \in Claimed' : u # w => tls'[u] # tls'[w]
      BY <1>0, <3>2, <3>5, <3>6 DEF SlotInv
    <3> QED
      BY <3>4, <3>7, <3>8 DEF SlotInv
  <2> QED
    BY <2>1, <2>2
<1>3. ASSUME Upgrade PROVE SlotInv'
  <2>1. upgrades' = upgrades + 1 /\ slotNext' = slotNext /\ tls' = [t \in Thread |-> Null]
    BY <1>3 DEF Upgrade
  <2>2. Claimed' = {} /\ Cardinality(Claimed') = 0
    BY <2>1, FS_EmptySet DEF Claimed
  <2>3. \A a, n \in Nat : (a + 1) * n = a * n + n /\ a * n \in Nat
    OBVIOUS
  <2>4. upgrades' * Cardinality(Thread) = upgrades * Cardinality(Thread) + Cardinality(Thread)
        /\ upgrades * Cardinality(Thread) \in Nat
    BY <1>0, <2>1, <2>3, ClaimedCard
  <2>5. slotNext' <= upgrades' * Cardinality(Thread) + Cardinality(Claimed')
    BY <1>0, <2>1, <2>2, <2>4, ClaimedCard DEF SlotInv
  <2> QED
    BY <2>2, <2>5 DEF SlotInv
<1>4. ASSUME NEW t \in Thread,
            Invoke(t) \/ RLock(t) \/ WLock(t) \/ (Unblocked(t) /\ ~GetTdata(t))
     PROVE  UNCHANGED <<tls, slotNext, upgrades>>
  BY <1>4 DEF Unblocked, slots, shared, Invoke, RLock, WLock, Return, Check, EncMem, Lookup,
     EnterSpot, ReadString, FinishWork, RUnlock, Create, Build, Presize, Widths, Swap,
     WUnlock, Destroy, SetOpt
<1>5. UNCHANGED vars => UNCHANGED <<tls, slotNext, upgrades>>
  BY DEF vars, slots
<1> QED
  BY <1>1, <1>2, <1>3, <1>4, <1>5 DEF Next, Unblocked, Stopped

\* With a slot for every thread, and again for every upgrade of the library, no
\* slot is ever used by two threads, and no load resizes one that is in use
\* (ep_get_tdata and ep_load_cache).
THEOREM SlotsExclusive == ASSUME EnoughSlots PROVE Spec => []SlotExclusive
<1>1. IInv /\ SlotInv => SlotExclusive
  <2> SUFFICES ASSUME IInv, SlotInv PROVE SlotExclusive
    OBVIOUS
  <2>1. \A t \in Thread : pc[t] \in UsingSlot => t \in Claimed
    BY NullAssumption DEF IInv, CallOK, Claimed
  <2>2. \A t, u \in Thread :
           pc[t] \in LockedWrite => u = t \/ pc[u] \notin LockedRead \cup LockedWrite
    BY NullAssumption DEF IInv, LockOK
  <2> QED
    BY <2>1, <2>2 DEF SlotExclusive, SlotInv
<1>2. SlotInv /\ [](IInv) /\ [][Next]_vars => []SlotInv
  BY SlotStep, PTL
<1> QED
  BY <1>1, <1>2, SlotInit, Invariance, PTL DEF Spec

-----------------------------------------------------------------------------
(* How large the slots are *)

Deep(stack, schema) == Nest[schema] <= Len(stack)
Wide(stack, schema) ==
    Deep(stack, schema) /\ \A i \in 1 .. Nest[schema] : stack[i] >= Width[schema]

\* A load has brought the slots before at[t] to the depth it needs, and then to
\* the width, by the time it comes to install its cache.
SizeInv ==
    /\ cache # Null => \A s \in Slot : Wide(spots[s], heap[cache])
    /\ \A t \in Thread :
        /\ pc[t] = "presize" => \A s \in Slot : s < at[t] => Deep(spots[s], arg[t])
        /\ pc[t] = "widths" => \A s \in Slot : Deep(spots[s], arg[t])
        /\ pc[t] = "widths" => \A s \in Slot : s < at[t] => Wide(spots[s], arg[t])
        /\ pc[t] = "swap" /\ op[t] = "load" => \A s \in Slot : Wide(spots[s], arg[t])

\* Stacks only ever grow, and so do their spots.
Grows(old, new) == Len(old) <= Len(new) /\ \A i \in 1 .. Len(old) : old[i] <= new[i]

LEMMA GrowsKeepsWide ==
    ASSUME NEW old \in Seq(Nat), NEW new \in Seq(Nat), NEW schema \in Schema, Grows(old, new)
    PROVE  /\ Deep(old, schema) => Deep(new, schema)
           /\ Wide(old, schema) => Wide(new, schema)
<1>1. Nest[schema] \in Nat /\ Width[schema] \in Nat
  BY SchemaAssumption
<1>2. Len(old) \in Nat /\ Len(new) \in Nat
  OBVIOUS
<1>3. Deep(old, schema) => Deep(new, schema)
  BY <1>1, <1>2 DEF Deep, Grows
<1>4. ASSUME Wide(old, schema), NEW i \in 1 .. Nest[schema] PROVE new[i] >= Width[schema]
  <2>1. i \in 1 .. Len(old) /\ i \in 1 .. Len(new)
    BY <1>1, <1>2, <1>4 DEF Wide, Deep, Grows
  <2>2. old[i] \in Nat /\ new[i] \in Nat /\ old[i] <= new[i] /\ old[i] >= Width[schema]
    BY <1>4, <2>1 DEF Wide, Grows
  <2> QED
    BY <1>1, <2>2
<1> QED
  BY <1>3, <1>4 DEF Wide

LEMMA GrowsReflexive == \A old \in Seq(Nat) : Grows(old, old)
  BY DEF Grows

LEMMA RegrownGrows ==
    ASSUME NEW old \in Seq(Nat), NEW n \in Nat, n >= Len(old)
    PROVE  Regrown(old, n) \in Seq(Nat) /\ Grows(old, Regrown(old, n)) /\ Len(Regrown(old, n)) = n
  BY RegrownType DEF Regrown, Grows

LEMMA WidenedGrows ==
    ASSUME NEW old \in Seq(Nat), NEW k \in Nat, NEW w \in Nat
    PROVE  /\ Widened(old, k, w) \in Seq(Nat) /\ Grows(old, Widened(old, k, w))
           /\ Len(Widened(old, k, w)) = Len(old)
           /\ k = Len(old) => \A i \in 1 .. Len(old) : Widened(old, k, w)[i] >= w
  BY WidenedType DEF Widened, Wider, Grows

LEMMA UpdateGrows ==
    ASSUME NEW old \in Seq(Nat), NEW new \in Seq(Nat), Grows(old, new), NEW i, NEW w \in Nat
    PROVE  Grows(old, [new EXCEPT ![i] = Wider(@, w)])
<1> DEFINE upd == [new EXCEPT ![i] = Wider(@, w)]
<1>1. upd \in Seq(Nat)
  BY UpdateType
<1>2. DOMAIN upd = DOMAIN new
  OBVIOUS
<1>3. Len(upd) = Len(new)
  BY <1>1, <1>2
<1>4. \A j \in 1 .. Len(new) : new[j] <= upd[j]
  BY DEF Wider
<1>5. \A j \in 1 .. Len(new) : new[j] \in Nat /\ upd[j] \in Nat
  BY <1>1, <1>3
<1>6. \A j \in 1 .. Len(old) : j \in 1 .. Len(new) /\ old[j] \in Nat
  BY DEF Grows
<1> HIDE DEF upd
<1> QED
  BY <1>3, <1>4, <1>5, <1>6 DEF Grows, upd

\* Whatever a step does to a slot, it takes no room away from it.
LEMMA SlotsGrow ==
    ASSUME IInv, [Next]_vars, NEW s \in Slot
    PROVE  Grows(spots[s], spots'[s])
<1>0. spots \in [Slot -> Seq(Nat)] /\ at \in [Thread -> Nat] /\ CallOK /\ CacheOwnership
  BY DEF IInv, TypeOK
<1>1. ASSUME UNCHANGED spots PROVE Grows(spots[s], spots'[s])
  BY <1>0, <1>1, GrowsReflexive
<1>2. ASSUME NEW t \in Thread, EnterSpot(t) PROVE Grows(spots[s], spots'[s])
  <2> DEFINE i == at[t] + 1
             z == tls[t]
             grown == IF i > Len(spots[z]) THEN Regrown(spots[z], 2 * Len(spots[z]))
                      ELSE spots[z]
  <2>1. z \in Slot /\ heap[node[t]] \in Schema
    BY <1>0, <1>2 DEF EnterSpot, At, CallOK, UsingSlot, LockedRead, IInv, InFlightCacheValid,
                      CacheOwnership, TypeOK
  <2>2. grown \in Seq(Nat) /\ Grows(spots[z], grown)
    <3>1. spots[z] \in Seq(Nat) /\ 2 * Len(spots[z]) \in Nat /\ 2 * Len(spots[z]) >= Len(spots[z])
      BY <1>0, <2>1
    <3> QED
      BY <3>1, RegrownGrows, GrowsReflexive
  <2>3. \A w \in 1 .. Width[heap[node[t]]] : Grows(spots[z], [grown EXCEPT ![i] = Wider(@, w)])
    <3>1. 1 .. Width[heap[node[t]]] \subseteq Nat /\ spots[z] \in Seq(Nat)
      BY <1>0, <2>1, SchemaAssumption
    <3> HIDE DEF grown, i
    <3> QED
      BY <2>2, <3>1, UpdateGrows
  <2>4. \E new : spots' = [spots EXCEPT ![z] = new] /\ Grows(spots[z], new)
    BY <1>2, <2>2, <2>3 DEF EnterSpot
  <2> HIDE DEF z, grown
  <2> QED
    BY <1>0, <2>1, <2>4, GrowsReflexive
<1>3. ASSUME NEW t \in Thread, Presize(t) PROVE Grows(spots[s], spots'[s])
  <2> DEFINE n == PresizeTo(at[t], arg[t])
  <2>1. at[t] \in Slot /\ arg[t] \in Schema /\ 0 \in Slot
    BY <1>0, <1>3, SlotAssumption DEF Presize, At, CallOK, InLoad, Slot
  <2>2. n \in Nat /\ n >= Len(spots[at[t]])
    BY <1>0, <2>1, PresizeToType DEF PresizeTo, Wider
  <2>3. Grows(spots[at[t]], Regrown(spots[at[t]], n))
    BY <1>0, <2>1, <2>2, RegrownGrows
  <2>4. spots' = spots \/ spots' = [spots EXCEPT ![at[t]] = Regrown(@, n)]
    BY <1>3 DEF Presize
  <2> HIDE DEF n
  <2> QED
    BY <1>0, <2>1, <2>3, <2>4, GrowsReflexive
<1>4. ASSUME NEW t \in Thread, Widths(t) PROVE Grows(spots[s], spots'[s])
  <2>1. at[t] \in Slot /\ Width[arg[t]] \in Nat
    BY <1>0, <1>4, SchemaAssumption DEF Widths, At, CallOK, InLoad
  <2>2. \A k \in Nat : Grows(spots[at[t]], Widened(spots[at[t]], k, Width[arg[t]]))
    BY <1>0, <2>1, WidenedGrows
  <2>3. PICK k \in Nat : spots' = [spots EXCEPT ![at[t]] = Widened(@, k, Width[arg[t]])]
    <3>1. Len(spots[at[t]]) \in Nat /\ 0 .. Len(spots[at[t]]) - 1 \subseteq Nat
      BY <1>0, <2>1
    <3> QED
      BY <1>4, <3>1 DEF Widths
  <2> QED
    BY <1>0, <2>1, <2>2, <2>3, GrowsReflexive
<1>5. ASSUME NEW t \in Thread,
            \/ Invoke(t) \/ RLock(t) \/ WLock(t)
            \/ Unblocked(t) /\ ~EnterSpot(t) /\ ~Presize(t) /\ ~Widths(t)
     PROVE  UNCHANGED spots
  BY <1>5 DEF Unblocked, slots, shared, Invoke, RLock, WLock, Return, Check, GetTdata, EncMem,
     Lookup, ReadString, FinishWork, RUnlock, Create, Build, Swap, WUnlock, Destroy, SetOpt
<1>6. Upgrade => UNCHANGED spots
  BY DEF Upgrade
<1>7. UNCHANGED vars => UNCHANGED spots
  BY DEF vars, slots
<1> QED
  BY <1>1, <1>2, <1>3, <1>4, <1>5, <1>6, <1>7 DEF Next, Unblocked, Stopped

LEMMA SizeInit == Init => SizeInv
  BY DEF Init, SizeInv

LEMMA SizeStep == RInv /\ SizeInv /\ [Next]_vars => SizeInv'
<1> SUFFICES ASSUME RInv, SizeInv, [Next]_vars PROVE SizeInv'
  OBVIOUS
<1>0. /\ pc \in [Thread -> Label] /\ op \in [Thread -> Calls \cup {Null}]
      /\ arg \in [Thread -> Schema \cup Name \cup Seq(OptItem) \cup {Null}]
      /\ spots \in [Slot -> Seq(Nat)] /\ at \in [Thread -> Nat]
      /\ cache \in CacheId \cup {Null} /\ heap \in [CacheId -> Schema \cup {Null}]
      /\ mine \in [Thread -> CacheId \cup {Null}]
      /\ CallOK /\ CacheOwnership /\ BuiltOK /\ OwnerOK
  BY DEF RInv, IInv, TypeOK
<1>1. spots' \in [Slot -> Seq(Nat)]
  BY TypeStep DEF RInv, TypeOK
<1>2. \A s \in Slot, schema \in Schema :
        /\ Deep(spots[s], schema) => Deep(spots'[s], schema)
        /\ Wide(spots[s], schema) => Wide(spots'[s], schema)
  BY <1>0, <1>1, SlotsGrow, GrowsKeepsWide DEF RInv
<1>3. Slot \subseteq Nat /\ 0 \in Slot /\ \A a, b \in Slot : a < b + 1 => a < b \/ a = b
  BY SlotAssumption DEF Slot
<1>4. \A t \in Thread :
        /\ pc[t] \in {"presize", "widths"} => arg[t] \in Schema
        /\ pc[t] = "swap" /\ op[t] = "load" => arg[t] \in Schema
  BY <1>0 DEF CallOK, InLoad, InWriter
\* Most steps touch neither the schema in force nor a load in progress.
<1>5. ASSUME cache' = cache, cache # Null => heap'[cache] = heap[cache],
             \A t \in Thread : pc'[t] \in {"presize", "widths", "swap"} =>
                 pc'[t] = pc[t] /\ op'[t] = op[t] /\ arg'[t] = arg[t] /\ at'[t] = at[t]
      PROVE  SizeInv'
  <2>1. cache' # Null => \A s \in Slot : Wide(spots'[s], heap'[cache'])
    BY <1>0, <1>2, <1>5 DEF SizeInv, CacheOwnership
  <2>2. ASSUME NEW t \in Thread
        PROVE  /\ pc'[t] = "presize" => \A s \in Slot : s < at'[t] => Deep(spots'[s], arg'[t])
               /\ pc'[t] = "widths" => \A s \in Slot : Deep(spots'[s], arg'[t])
               /\ pc'[t] = "widths" => \A s \in Slot : s < at'[t] => Wide(spots'[s], arg'[t])
               /\ pc'[t] = "swap" /\ op'[t] = "load" => \A s \in Slot : Wide(spots'[s], arg'[t])
    BY <1>2, <1>4, <1>5 DEF SizeInv
  <2> QED
    BY <2>1, <2>2 DEF SizeInv
<1> DEFINE Elsewhere(t) == \A u \in Thread \ {t} :
              pc'[u] = pc[u] /\ op'[u] = op[u] /\ arg'[u] = arg[u] /\ at'[u] = at[u]
\* The load of thread t goes on to label next.
<1>6. ASSUME NEW t \in Thread, Elsewhere(t), UNCHANGED <<cache, heap>>,
             /\ pc'[t] = "presize" => \A s \in Slot : s < at'[t] => Deep(spots'[s], arg'[t])
             /\ pc'[t] = "widths" => \A s \in Slot : Deep(spots'[s], arg'[t])
             /\ pc'[t] = "widths" => \A s \in Slot : s < at'[t] => Wide(spots'[s], arg'[t])
             /\ pc'[t] = "swap" /\ op'[t] = "load" => \A s \in Slot : Wide(spots'[s], arg'[t])
      PROVE  SizeInv'
  <2>1. cache' # Null => \A s \in Slot : Wide(spots'[s], heap'[cache'])
    BY <1>0, <1>2, <1>6 DEF SizeInv, CacheOwnership
  <2>2. ASSUME NEW u \in Thread, u # t
        PROVE  /\ pc'[u] = "presize" => \A s \in Slot : s < at'[u] => Deep(spots'[s], arg'[u])
               /\ pc'[u] = "widths" => \A s \in Slot : Deep(spots'[s], arg'[u])
               /\ pc'[u] = "widths" => \A s \in Slot : s < at'[u] => Wide(spots'[s], arg'[u])
               /\ pc'[u] = "swap" /\ op'[u] = "load" => \A s \in Slot : Wide(spots'[s], arg'[u])
    BY <1>2, <1>4, <1>6, <2>2 DEF SizeInv
  <2> QED
    BY <1>6, <2>1, <2>2 DEF SizeInv
<1> HIDE DEF Elsewhere
<1>7. ASSUME NEW t \in Thread, WLock(t) PROVE SizeInv'
  <2>1. Elsewhere(t) /\ UNCHANGED <<cache, heap>> /\ pc'[t] = (IF op[t] = "load" THEN "presize" ELSE "swap")
        /\ op'[t] = op[t] /\ at'[t] = 0
    BY <1>0, <1>7 DEF WLock, At, Goto, shared, slots, local, Elsewhere, CallOK
  <2> QED
    BY <1>3, <1>6, <2>1
<1>8. ASSUME NEW t \in Thread, Presize(t) PROVE SizeInv'
  <2> DEFINE i == at[t]
             n == PresizeTo(i, arg[t])
  <2>1. Elsewhere(t) /\ UNCHANGED <<cache, heap>> /\ op'[t] = op[t] /\ arg'[t] = arg[t]
        /\ pc[t] = "presize" /\ i \in Slot /\ arg[t] \in Schema
    BY <1>0, <1>8 DEF Presize, At, Goto, Decide, shared, slots, local, Elsewhere, CallOK, InLoad
  <2>2. \A s \in Slot : s < i => Deep(spots'[s], arg[t])
    BY <1>2, <2>1 DEF SizeInv
  <2>3. CASE pc'[t] = "wunlock"
    BY <1>6, <2>1, <2>3
  <2>4. CASE spots' = [spots EXCEPT ![i] = Regrown(@, n)] /\ i = 0 /\ n < Nest[arg[t]] /\ UNCHANGED <<pc, at>>
    BY <1>6, <2>1, <2>2, <2>4
  <2>5. CASE /\ spots' = [spots EXCEPT ![i] = Regrown(@, n)]
             /\ ~(i = 0 /\ n < Nest[arg[t]])
             /\ at' = [at EXCEPT ![t] = IF i + 1 = LockN THEN 0 ELSE i + 1]
             /\ IF i + 1 = LockN THEN Goto(t, "widths") ELSE UNCHANGED pc
    <3>1. n >= Nest[arg[t]] /\ n \in Nat
      <4>1. n \in Nat /\ Nest[arg[t]] \in Nat
        BY <1>0, <2>1, PresizeToType, SchemaAssumption
      <4>2. CASE i = 0
        BY <2>5, <4>1, <4>2
      <4>3. CASE i # 0
        <5>1. Deep(spots[0], arg[t]) /\ Len(spots[0]) \in Nat /\ Len(spots[i]) \in Nat
          BY <1>0, <1>3, <2>1, <4>3 DEF SizeInv
        <5>2. n >= Len(spots[0])
          BY <4>3, <5>1 DEF PresizeTo, Wider
        <5> QED
          BY <4>1, <5>1, <5>2 DEF Deep
      <4> QED
        BY <4>2, <4>3
    <3>2. Deep(spots'[i], arg[t])
      <4>1. spots'[i] = Regrown(spots[i], n) /\ spots[i] \in Seq(Nat)
        BY <1>0, <2>1, <2>5
      <4> HIDE DEF n
      <4> QED
        BY <3>1, <4>1, RegrownType DEF Deep
    <3>3. \A s \in Slot : s < i + 1 => Deep(spots'[s], arg[t])
      <4>1. \A s \in Slot : s < i + 1 => s < i \/ s = i
        BY <1>3, <2>1
      <4> QED
        BY <2>2, <3>2, <4>1
    <3>4. CASE i + 1 = LockN
      <4>1. \A s \in Slot : s < i + 1
        BY <3>4, SlotAssumption DEF Slot
      <4>2. pc'[t] = "widths" /\ at'[t] = 0 /\ \A s \in Slot : ~(s < 0)
        BY <1>0, <1>3, <2>5, <3>4 DEF Goto
      <4> HIDE DEF i, n
      <4> QED
        BY <1>6, <2>1, <3>3, <4>1, <4>2
    <3>5. CASE i + 1 # LockN
      BY <1>0, <1>6, <2>1, <2>5, <3>3, <3>5
    <3> QED
      BY <3>4, <3>5
  <2> HIDE DEF n
  <2>6. pc'[t] = "wunlock" \/ spots' = [spots EXCEPT ![i] = Regrown(@, n)]
    BY <1>0, <1>8 DEF Presize, At, Goto, Decide, n
  <2> QED
    BY <1>0, <1>8, <2>3, <2>4, <2>5, <2>6 DEF Presize, At, Goto, Decide, n
<1>9. ASSUME NEW t \in Thread, Widths(t) PROVE SizeInv'
  <2> DEFINE i == at[t]
             w == Width[arg[t]]
  <2>1. Elsewhere(t) /\ UNCHANGED <<cache, heap>> /\ op'[t] = op[t] /\ arg'[t] = arg[t]
        /\ pc[t] = "widths" /\ i \in Slot /\ arg[t] \in Schema
    BY <1>0, <1>9 DEF Widths, At, Goto, Decide, shared, slots, local, Elsewhere, CallOK, InLoad
  <2>2. /\ \A s \in Slot : Deep(spots'[s], arg[t])
        /\ \A s \in Slot : s < i => Wide(spots'[s], arg[t])
    BY <1>2, <2>1 DEF SizeInv
  <2>3. CASE pc'[t] = "wunlock"
    BY <1>6, <2>1, <2>3
  <2>4. CASE /\ spots' = [spots EXCEPT ![i] = Widened(@, Len(@), w)]
             /\ at' = [at EXCEPT ![t] = IF i + 1 = LockN THEN 0 ELSE i + 1]
             /\ IF i + 1 = LockN THEN Goto(t, "swap") ELSE UNCHANGED pc
    <3>1. Wide(spots'[i], arg[t])
      <4>1. spots'[i] = Widened(spots[i], Len(spots[i]), w) /\ spots[i] \in Seq(Nat) /\ w \in Nat
            /\ Nest[arg[t]] \in Nat /\ Len(spots[i]) \in Nat
        BY <1>0, <2>1, <2>4, SchemaAssumption
      <4>2. /\ Len(spots'[i]) = Len(spots[i])
            /\ \A j \in 1 .. Len(spots[i]) : spots'[i][j] >= w
        BY <4>1, WidenedGrows
      <4>3. Nest[arg[t]] <= Len(spots[i])
        BY <2>1 DEF SizeInv, Deep
      <4>4. \A j \in 1 .. Nest[arg[t]] : j \in 1 .. Len(spots[i])
        BY <4>1, <4>3
      <4> QED
        BY <4>1, <4>2, <4>3, <4>4 DEF Wide, Deep
    <3>2. \A s \in Slot : s < i + 1 => Wide(spots'[s], arg[t])
      <4>1. \A s \in Slot : s < i + 1 => s < i \/ s = i
        BY <1>3, <2>1
      <4> QED
        BY <2>2, <3>1, <4>1
    <3>3. CASE i + 1 = LockN
      <4>1. \A s \in Slot : s < i + 1
        BY <3>3, SlotAssumption DEF Slot
      <4> QED
        BY <1>0, <1>3, <1>6, <2>1, <2>4, <3>2, <3>3, <4>1 DEF Goto
    <3>4. CASE i + 1 # LockN
      BY <1>0, <1>6, <2>1, <2>2, <2>4, <3>2, <3>4
    <3> QED
      BY <3>3, <3>4
  <2> QED
    BY <1>0, <1>9, <2>3, <2>4 DEF Widths, At, Goto, Decide
<1>10. ASSUME NEW t \in Thread, Swap(t) PROVE SizeInv'
  <2>1. pc'[t] = "wunlock" /\ Elsewhere(t) /\ cache' = mine[t] /\ heap' = heap
        /\ mine'[t] = cache /\ pc[t] = "swap"
    BY <1>0, <1>10 DEF Swap, At, Goto, Decide, shared, slots, local, Elsewhere
  <2>2. cache' # Null => \A s \in Slot : Wide(spots'[s], heap'[cache'])
    <3>1. CASE op[t] = "load"
      BY <1>0, <1>2, <1>4, <2>1, <3>1 DEF SizeInv, BuiltOK
    <3>2. CASE op[t] = "purge"
      BY <1>0, <2>1, <3>2 DEF OwnerOK
    <3> QED
      BY <1>0, <2>1, <3>1, <3>2 DEF CallOK, InWriter
  <2>3. ASSUME NEW u \in Thread
        PROVE  /\ pc'[u] = "presize" => \A s \in Slot : s < at'[u] => Deep(spots'[s], arg'[u])
               /\ pc'[u] = "widths" => \A s \in Slot : Deep(spots'[s], arg'[u])
               /\ pc'[u] = "widths" => \A s \in Slot : s < at'[u] => Wide(spots'[s], arg'[u])
               /\ pc'[u] = "swap" /\ op'[u] = "load" => \A s \in Slot : Wide(spots'[s], arg'[u])
    BY <1>2, <1>4, <2>1 DEF SizeInv, Elsewhere
  <2> QED
    BY <2>2, <2>3 DEF SizeInv
<1>11. ASSUME NEW t \in Thread, Invoke(t) PROVE SizeInv'
  <2>1. PICK o \in Calls : pc' = [pc EXCEPT ![t] = FirstLabel(o)]
    BY <1>11 DEF Invoke, Goto
  <2>2. FirstLabel(o) \notin {"presize", "widths", "swap"}
    BY DEF FirstLabel, Codec
  <2>3. \A u \in Thread \ {t} : pc'[u] = pc[u] /\ op'[u] = op[u] /\ arg'[u] = arg[u] /\ at'[u] = at[u]
    BY <1>0, <1>11 DEF Invoke, Goto, shared, slots, local
  <2>4. UNCHANGED <<cache, heap>>
    BY <1>11 DEF Invoke, shared
  <2> QED
    BY <1>0, <1>5, <2>1, <2>2, <2>3, <2>4
<1>12. ASSUME NEW t \in Thread, Create(t) PROVE SizeInv'
  BY <1>0, <1>5, <1>12 DEF Create, At, Goto, Decide, shared, slots, local, CacheOwnership
<1>13. ASSUME NEW t \in Thread, Destroy(t) PROVE SizeInv'
  BY <1>0, <1>5, <1>13 DEF Destroy, At, Goto, Decide, shared, slots, local, CacheOwnership
<1>14. ASSUME NEW t \in Thread,
             Return(t) \/ Check(t) \/ GetTdata(t) \/ EncMem(t)
               \/ RLock(t) \/ Lookup(t) \/ ReadString(t) \/ Build(t)
               \/ FinishWork(t) \/ RUnlock(t) \/ WUnlock(t)
      PROVE  SizeInv'
  BY <1>0, <1>5, <1>14
  DEF At, Goto, Decide, shared, slots, local, Return, Check, GetTdata, EncMem, RLock, Lookup,
      ReadString, Build, FinishWork, RUnlock, WUnlock
<1>15. ASSUME NEW t \in Thread, EnterSpot(t) PROVE SizeInv'
  BY <1>0, <1>5, <1>15 DEF At, Goto, shared, slots, local, EnterSpot
<1>16. ASSUME NEW t \in Thread, SetOpt(t) PROVE SizeInv'
  BY <1>0, <1>5, <1>16 DEF At, Goto, Decide, shared, slots, local, SetOpt
<1>17. CASE Upgrade
  BY <1>5, <1>17 DEF Upgrade, shared, local
<1>18. CASE UNCHANGED vars
  BY <1>5, <1>18 DEF vars, shared, local
<1> QED
  BY <1>7, <1>8, <1>9, <1>10, <1>11, <1>12, <1>13, <1>14, <1>15, <1>16, <1>17, <1>18
  DEF Next, Unblocked, Stopped

\* Whatever failed before, once a schema is in force every slot is as deep as
\* its presizing walk counted and each of those spots as wide as its widest
\* message (stack_ensure_all and the loop behind it in ep_load_cache).
THEOREM SlotsPresized == Spec => []Presized
<1>1. RInv /\ SizeInv => Presized
  <2> SUFFICES ASSUME RInv, SizeInv, cache # Null, NEW s \in Slot,
                      NEW i \in 1 .. Nest[heap[cache]]
               PROVE  i <= Len(spots[s]) /\ spots[s][i] >= Width[heap[cache]]
    BY DEF Presized
  <2>1. heap[cache] \in Schema /\ spots[s] \in Seq(Nat)
    BY DEF RInv, IInv, TypeOK, CacheOwnership
  <2>2. Nest[heap[cache]] \in Nat /\ Len(spots[s]) \in Nat
    BY <2>1, SchemaAssumption
  <2> QED
    BY <2>2 DEF SizeInv, Wide, Deep
<1> QED
  BY <1>1, SizeInit, SizeStep, RInvariance, PTL DEF Spec

-----------------------------------------------------------------------------
(* The test of state->cache *)

\* Without purge_cache a cache that is there stays: the pointer is only ever
\* replaced.
PassedCheck == \A t \in Thread : pc[t] \in {"tdata", "encmem", "rlock", "lookup"} => cache # Null

LEMMA PassedStep == ASSUME "purge" \notin Calls PROVE RInv /\ PassedCheck /\ [Next]_vars => PassedCheck'
<1> SUFFICES ASSUME RInv, PassedCheck, [Next]_vars PROVE PassedCheck'
  OBVIOUS
<1>0. /\ pc \in [Thread -> Label] /\ op \in [Thread -> Calls \cup {Null}]
      /\ CallOK /\ BuiltOK
  BY DEF RInv, IInv, TypeOK
<1> USE <1>0
<1> USE DEF PassedCheck, shared, slots, local, At, Goto, Decide
<1>1. ASSUME NEW t \in Thread, Invoke(t) PROVE PassedCheck'
  BY <1>1 DEF Invoke, FirstLabel
<1>2. ASSUME NEW t \in Thread, Swap(t) PROVE PassedCheck'
  <2>1. op[t] = "load"
    BY <1>2, NullAssumption DEF Swap, CallOK, InWriter
  <2>2. cache' # Null
    BY <1>2, <2>1 DEF Swap, BuiltOK
  <2> QED
    BY <2>2
<1>3. ASSUME NEW t \in Thread,
             Return(t) \/ Check(t) \/ GetTdata(t) \/ EncMem(t)
               \/ RLock(t) \/ Lookup(t) \/ ReadString(t) \/ Build(t)
               \/ FinishWork(t) \/ RUnlock(t)
      PROVE  PassedCheck'
  BY <1>3 DEF Return, Check, GetTdata, EncMem, RLock, Lookup, ReadString, Build, FinishWork, RUnlock
<1>4. ASSUME NEW t \in Thread,
             EnterSpot(t) \/ Create(t) \/ Destroy(t) \/ SetOpt(t) \/ WLock(t) \/ WUnlock(t)
               \/ Presize(t) \/ Widths(t)
      PROVE  PassedCheck'
  BY <1>4 DEF EnterSpot, Create, Destroy, SetOpt, WLock, WUnlock, Presize, Widths
<1>5. CASE Upgrade
  BY <1>5 DEF Upgrade
<1>6. CASE UNCHANGED vars
  BY <1>6 DEF vars
<1> QED
  BY <1>1, <1>2, <1>3, <1>4, <1>5, <1>6 DEF Next, Unblocked, Stopped

\* The unlocked test of state->cache is good enough as long as nobody purges:
\* a codec that passed it finds a cache under the lock (encode_1, decode_2).
THEOREM SafeWithoutPurge == ASSUME "purge" \notin Calls PROVE Spec => []NoNullDereference
<1>1. PassedCheck => NoNullDereference
  BY DEF PassedCheck, NoNullDereference
<1>2. Init => PassedCheck
  BY DEF Init, PassedCheck
<1> QED
  BY <1>1, <1>2, PassedStep, RInvariance, PTL DEF Spec

=============================================================================
