--------------------------- MODULE Programs_proofs ---------------------------
(***************************************************************************)
(* Theorems about Sessions and Bolos: for every number of children, turns  *)
(* and lines and every length of a read; whether calls may fail or not.      *)
(***************************************************************************)
EXTENDS Sessions, FiniteSetTheorems, SequenceTheorems, TLAPS

CONSTANT CallsFail
VARIABLES bolo, args, pins, table, turn
Bolos == INSTANCE Bolos

(* The parent is process 0, and process 1 is session_5's child *)
SessionsAssumption ==
    /\ IsFiniteSet(Procs) /\ 0 \notin Procs /\ 1 \in Procs
    /\ MAX_REPETITIONS \in Nat \ {0} /\ MAX_MESSAGE \in Nat \ {0}
-----------------------------------------------------------------------------
(* The semaphore of session_1 and session_1_2 *)

Places == {"lock", "critical", "wait", "destroy", "end", "failed", "write", "select"}
Critical == {p \in All : proc[p] = "critical"}

TypeInv ==
    /\ session \in {"session_1", "session_1_2", "session_5"}
    /\ proc \in [All -> Places]
    /\ turns \in [All -> Nat]
    /\ sem \in Nat /\ removed \in BOOLEAN /\ interrupted \subseteq All
    /\ pipe \in Seq(Nat) /\ file \in Seq(Nat) /\ count \in Nat

(* A unit is in the semaphore or with who is inside, until it is removed:   *)
(* by the parent of session_1 at its end, or by a handler of session_1_2.   *)
(* In session_1 whoever has got out of the loop has had all his turns.       *)
SemaphoreInv ==
    /\ Cardinality(Critical) <= Units
    /\ ~removed /\ session # "session_5" => sem + Cardinality(Critical) = Units
    /\ ~removed => \A p \in All : proc[p] # "failed"
    /\ session = "session_1" =>
          /\ \A p \in Procs : proc[p] \notin {"wait", "destroy"}
          /\ removed => proc[0] = "end"
          /\ \A p \in All : IF proc[p] \in {"lock", "critical", "failed"}
                            THEN turns[p] < MAX_REPETITIONS
                            ELSE turns[p] = MAX_REPETITIONS
    /\ session # "session_1" => proc[0] \notin {"wait", "destroy"}
    /\ session = "session_5" => Critical = {}

LEMMA SessionsInit ==
    ASSUME SessionsAssumption, Init
    PROVE  TypeInv /\ SemaphoreInv
<1>1. TypeInv BY DEF Init, TypeInv, Places, All, Units
<1>2. Critical = {} BY DEF Init, Critical, All
<1>3. Cardinality(Critical) = 0 BY <1>2, FS_EmptySet
<1>4. Units \in Nat /\ sem = Units /\ removed = FALSE BY DEF Init, Units
<1>5. /\ \A p \in All : proc[p] \in {"lock", "write", "select", "end"} /\ turns[p] = 0
      /\ session # "session_5" => \A p \in All : proc[p] = "lock"
  BY DEF Init
<1>6. MAX_REPETITIONS \in Nat \ {0} BY DEF SessionsAssumption
<1> QED BY <1>1, <1>2, <1>3, <1>4, <1>5, <1>6 DEF SemaphoreInv, All

LEMMA SessionsType ==
    ASSUME SessionsAssumption, TypeInv, [Next]_vars
    PROVE  TypeInv'
<1> USE DEF TypeInv, Goto, passing, copying
<1>0. 0 \in All /\ 1 \in All BY DEF SessionsAssumption, All
<1>1. ASSUME NEW p \in All, Lock(p) PROVE TypeInv'
  BY <1>1 DEF Lock, HasUnit, Places
<1>2. ASSUME NEW p \in All, Unlock(p) PROVE TypeInv'
  BY <1>2 DEF Unlock, Places
<1>3. ASSUME NEW p \in All, EnsureFails(p) \/ Cleanup(p) PROVE TypeInv'
  BY <1>3 DEF EnsureFails, Cleanup, Places
<1>4. CASE SemaphoreWait \/ SemaphoreDestroy
  BY <1>0, <1>4 DEF SemaphoreWait, SemaphoreDestroy, Places
<1>5. CASE Write
  <2>1. Append(pipe, count + 1) \in Seq(Nat) BY AppendProperties
  <2> QED BY <1>5, <2>1 DEF Write
<1>6. CASE WriteEnd
  <2>1. Append(pipe, 0) \in Seq(Nat) BY AppendProperties
  <2> QED BY <1>0, <1>6, <2>1 DEF WriteEnd, Places
<1>7. CASE Copy
  <2> DEFINE n == IF Len(pipe) < MAX_MESSAGE THEN Len(pipe) ELSE MAX_MESSAGE
             bytes == SubSeq(pipe, 1, n)
             rest == SubSeq(pipe, n + 1, Len(pipe))
  <2>1. bytes \in Seq(Nat) /\ rest \in Seq(Nat)
    <3>1. n \in 0 .. Len(pipe) /\ Len(pipe) \in Nat BY LenProperties DEF SessionsAssumption
    <3> HIDE DEF n
    <3>2. 1 \in 1 .. Len(pipe) + 1 /\ n + 1 \in 1 .. Len(pipe) + 1 /\ Len(pipe) \in (n+1)-1 .. Len(pipe)
      BY <3>1
    <3> QED BY <3>1, <3>2, SubSeqProperties
  <2>2. file \o bytes \in Seq(Nat) BY <2>1, ConcatProperties
  <2>3. /\ pipe' = rest
        /\ (file' = file /\ proc' = [proc EXCEPT ![1] = "end"])
           \/ (file' = file \o bytes /\ proc' = proc)
        /\ UNCHANGED <<session, turns, sem, removed, interrupted, count>>
    BY <1>7 DEF Copy
  <2> HIDE DEF bytes, rest
  <2> QED BY <1>0, <2>1, <2>2, <2>3 DEF Places
<1>8. CASE UNCHANGED vars BY <1>8 DEF vars
<1> QED BY <1>1, <1>2, <1>3, <1>4, <1>5, <1>6, <1>7, <1>8 DEF Next

LEMMA CriticalFinite ==
    ASSUME SessionsAssumption
    PROVE  IsFiniteSet(Critical) /\ Cardinality(Critical) \in Nat
<1>1. IsFiniteSet(All) BY FS_AddElement DEF SessionsAssumption, All
<1> QED BY <1>1, FS_Subset, FS_CardinalityType DEF Critical

LEMMA SemaphoreNext ==
    ASSUME SessionsAssumption, TypeInv, SemaphoreInv, [Next]_vars
    PROVE  SemaphoreInv'
<1> USE DEF TypeInv, Goto, passing, copying
<1>0. /\ 0 \in All /\ 1 \in Procs /\ 0 \notin Procs /\ Procs \subseteq All
      /\ \A p \in All : p = 0 \/ p \in Procs
      /\ IsFiniteSet(Critical) /\ Cardinality(Critical) \in Nat
      /\ Units \in Nat
  BY CriticalFinite DEF SessionsAssumption, All, Units
<1>1. ASSUME NEW p \in All, Lock(p) PROVE SemaphoreInv'
  <2>1. /\ session # "session_5" /\ proc[p] = "lock" /\ ~removed /\ sem > 0 /\ sem' = sem - 1
        /\ proc' = [proc EXCEPT ![p] = "critical"] /\ UNCHANGED <<removed, session, turns>>
    BY <1>1 DEF Lock, HasUnit
  <2>2. Critical' = Critical \cup {p} /\ p \notin Critical BY <2>1 DEF Critical
  <2>3. Cardinality(Critical') = Cardinality(Critical) + 1 BY <1>0, <2>2, FS_AddElement
  <2>4. Units' = Units BY <2>1 DEF Units
  <2>5. sem + Cardinality(Critical) = Units BY <2>1 DEF SemaphoreInv
  <2>6. sem' + Cardinality(Critical') = Units' /\ Cardinality(Critical') <= Units'
    BY <1>0, <2>1, <2>3, <2>4, <2>5
  <2> QED BY <1>0, <2>1, <2>6 DEF SemaphoreInv
<1>2. ASSUME NEW p \in All, Unlock(p) PROVE SemaphoreInv'
  <2>1. /\ proc[p] = "critical" /\ ~removed /\ sem' = sem + 1
        /\ removed' = removed /\ session' = session
    BY <1>2 DEF Unlock
  <2>2. PICK l \in {"lock", "wait", "end"} :
          /\ proc' = [proc EXCEPT ![p] = l]
          /\ l = "wait" => p = 0 /\ session = "session_1"
          /\ session = "session_1" => (l = "lock" <=> turns[p] + 1 # MAX_REPETITIONS)
    BY <1>2 DEF Unlock
  <2>3. Critical' = Critical \ {p} /\ p \in Critical BY <2>1, <2>2 DEF Critical
  <2>4. Cardinality(Critical') = Cardinality(Critical) - 1 BY <1>0, <2>3, FS_RemoveElement
  <2>5. Units' = Units BY <2>1 DEF Units
  <2>6. sem + Cardinality(Critical) = Units /\ session # "session_5"
    BY <2>1, <2>3 DEF SemaphoreInv
  <2>7. sem' + Cardinality(Critical') = Units' /\ Cardinality(Critical') <= Units'
    BY <1>0, <2>1, <2>4, <2>5, <2>6
  <2>8. session = "session_1"
          => turns' = [turns EXCEPT ![p] = @ + 1] /\ turns[p] < MAX_REPETITIONS
    BY <1>2, <2>1 DEF Unlock, SemaphoreInv
  <2>9. session' = "session_1" =>
          \A q \in All : IF proc'[q] \in {"lock", "critical", "failed"}
                        THEN turns'[q] < MAX_REPETITIONS
                        ELSE turns'[q] = MAX_REPETITIONS
    <3> SUFFICES ASSUME session = "session_1", NEW q \in All
                 PROVE  IF proc'[q] \in {"lock", "critical", "failed"}
                        THEN turns'[q] < MAX_REPETITIONS
                        ELSE turns'[q] = MAX_REPETITIONS
      BY <2>1
    <3>1. CASE q = p BY <2>2, <2>8, <3>1 DEF SessionsAssumption
    <3>2. CASE q # p BY <2>2, <2>8, <3>2 DEF SemaphoreInv
    <3> QED BY <3>1, <3>2
  <2> QED BY <1>0, <2>1, <2>2, <2>6, <2>7, <2>9 DEF SemaphoreInv
<1>3. ASSUME NEW p \in All, EnsureFails(p) PROVE SemaphoreInv'
  <2>1. /\ removed /\ proc[p] \in {"lock", "critical"} /\ removed' = removed /\ session' = session
        /\ proc' = [proc EXCEPT ![p] = "failed"]
    BY <1>3 DEF EnsureFails
  <2>2. Critical' \subseteq Critical BY <2>1 DEF Critical
  <2>3. Cardinality(Critical') <= Cardinality(Critical) /\ Cardinality(Critical') \in Nat
    BY <1>0, <2>2, FS_Subset, FS_CardinalityType
  <2>4. Units' = Units BY <2>1 DEF Units
  <2>5. Cardinality(Critical') <= Units' BY <1>0, <2>3, <2>4 DEF SemaphoreInv
  <2>6. session = "session_1" => proc[0] = "end" /\ p \in Procs
    BY <1>0, <2>1 DEF SemaphoreInv
  <2>7. turns' = turns BY <1>3 DEF EnsureFails
  <2> QED BY <1>0, <2>1, <2>2, <2>5, <2>6, <2>7 DEF SemaphoreInv
<1>4. CASE SemaphoreWait \/ SemaphoreDestroy
  <2>1. PICK l \in {"destroy", "end"} :
          /\ proc[0] \in {"wait", "destroy"} /\ proc' = [proc EXCEPT ![0] = l]
          /\ removed' = removed \/ (removed' = TRUE /\ l = "end")
          /\ UNCHANGED <<session, turns, sem>>
    BY <1>4 DEF SemaphoreWait, SemaphoreDestroy
  <2>2. session = "session_1" /\ ~removed BY <2>1 DEF SemaphoreInv
  <2>3. Critical' = Critical /\ Units' = Units BY <1>0, <2>1 DEF Critical, Units
  <2> QED BY <1>0, <2>1, <2>2, <2>3 DEF SemaphoreInv
<1>5. ASSUME NEW p \in All, Cleanup(p) PROVE SemaphoreInv'
  <2>1. session = "session_1_2" /\ removed' = TRUE /\ UNCHANGED <<session, proc, turns>>
    BY <1>5 DEF Cleanup
  <2>2. Critical' = Critical /\ Units' = Units BY <2>1 DEF Critical, Units
  <2> QED BY <2>1, <2>2 DEF SemaphoreInv
<1>6. CASE Write \/ WriteEnd \/ Copy
  <2>1. /\ session = "session_5" /\ UNCHANGED <<session, sem, removed>>
        /\ \A p \in All : proc'[p] \in {proc[p], "end"}
    BY <1>0, <1>6 DEF Write, WriteEnd, Copy
  <2>2. Critical' = {} BY <2>1 DEF Critical, SemaphoreInv
  <2>3. Cardinality(Critical') = 0 /\ Units' = Units BY <2>1, <2>2, FS_EmptySet DEF Units
  <2> QED BY <1>0, <2>1, <2>2, <2>3 DEF SemaphoreInv
<1>7. CASE UNCHANGED vars BY <1>7 DEF vars, SemaphoreInv, Critical, Units
<1> QED BY <1>1, <1>2, <1>3, <1>4, <1>5, <1>6, <1>7 DEF Next

LEMMA SemaphoreHolds ==
    ASSUME SessionsAssumption PROVE Spec => [](TypeInv /\ SemaphoreInv)
<1>1. Init => TypeInv /\ SemaphoreInv BY SessionsInit
<1>2. TypeInv /\ SemaphoreInv /\ [Next]_vars => (TypeInv /\ SemaphoreInv)'
  BY SessionsType, SemaphoreNext
<1> QED BY <1>1, <1>2, PTL DEF Spec

(* Never more processes inside than the semaphore of session_1 or           *)
(* session_1_2 has units, whoever removes it and whoever is inside then.     *)
THEOREM UnitsAreKept ==
    ASSUME SessionsAssumption PROVE Spec => []AtMostUnits
<1>1. SemaphoreInv => AtMostUnits BY DEF SemaphoreInv, AtMostUnits, Critical
<1> QED BY <1>1, SemaphoreHolds, PTL

(* session_1's parent waits for a semaphore that is taken: it is let        *)
(* through only while a child is inside, and it does not go on if they have  *)
(* all ended.  What it removes then costs no child that has ended a turn,    *)
(* and every child that fails some.                                           *)
THEOREM ParentWaitsForTheTaken ==
    ASSUME SessionsAssumption PROVE Spec => []WaitsForTheTaken
<1>1. TypeInv /\ SemaphoreInv => WaitsForTheTaken
  <2> SUFFICES ASSUME TypeInv, SemaphoreInv, session = "session_1"
               PROVE  WaitsForTheTaken
    BY DEF WaitsForTheTaken
  <2>1. ASSUME proc[0] = "wait", Waits
        PROVE  \E p \in Procs : proc[p] = "critical"
    <3>1. ~removed /\ sem = 0 /\ Units = 1 BY <2>1 DEF SemaphoreInv, Waits, Units
    <3>2. Critical # {}
      BY <3>1, CriticalFinite, FS_EmptySet DEF SemaphoreInv
    <3> QED BY <2>1, <3>2 DEF Critical, All
  <2>2. ASSUME NEW p \in All
        PROVE  /\ proc[p] \in {"wait", "destroy", "end"} => turns[p] = MAX_REPETITIONS
               /\ proc[p] = "failed" => turns[p] < MAX_REPETITIONS /\ proc[0] = "end"
    BY DEF SemaphoreInv
  <2> QED BY <2>1, <2>2 DEF WaitsForTheTaken
<1> QED BY <1>1, SemaphoreHolds, PTL
-----------------------------------------------------------------------------
(* The pipe of session_5 *)

Written == [i \in 1 .. count |-> i]

(* What has been copied and what is in the pipe are the lines, then the null *)
(* byte; it is gone when the child has stopped for it                         *)
PipeInv ==
    session = "session_5" =>
        \/ proc[0] = "write" /\ proc[1] = "select" /\ file \o pipe = Written
        \/ proc[0] = "end" /\ proc[1] = "select" /\ file \o pipe = Append(Written, 0)
        \/ proc[0] = "end" /\ proc[1] = "end" /\ pipe = <<>> /\ file = Written

LEMMA WrittenIs ==
    ASSUME count \in Nat
    PROVE  /\ Written \in Seq(Nat) /\ Len(Written) = count
           /\ \A i \in 1 .. count : Written[i] = i
           /\ Append(Written, 0) \in Seq(Nat) /\ Len(Append(Written, 0)) = count + 1
           /\ Append(Written, 0)[count + 1] = 0
           /\ \A i \in 1 .. count : Append(Written, 0)[i] = i
<1>1. Written \in Seq(Nat) /\ Len(Written) = count /\ \A i \in 1 .. count : Written[i] = i
  BY DEF Written
<1> QED BY <1>1, AppendProperties

LEMMA WrittenNext ==
    ASSUME count \in Nat
    PROVE  Append(Written, count + 1) = [i \in 1 .. count + 1 |-> i]
<1> DEFINE s == Append(Written, count + 1)
           t == [i \in 1 .. count + 1 |-> i]
<1>1. /\ s \in Seq(Nat) /\ Len(s) = count + 1 /\ s[count + 1] = count + 1
      /\ \A i \in 1 .. count : s[i] = i
  BY WrittenIs, AppendProperties
<1>2. t \in Seq(Nat) /\ Len(t) = count + 1 /\ \A i \in 1 .. count + 1 : t[i] = i
  OBVIOUS
<1> HIDE DEF s, t
<1>3. \A i \in 1 .. Len(s) : s[i] = t[i] BY <1>1, <1>2
<1>4. s = t BY <1>1, <1>2, <1>3, SeqEqual
<1> QED BY <1>4 DEF s, t

LEMMA ConcatAppend ==
    ASSUME NEW s \in Seq(Nat), NEW t \in Seq(Nat), NEW e \in Nat
    PROVE  s \o Append(t, e) = Append(s \o t, e)
<1>1. Append(t, e) = t \o <<e>> /\ <<e>> \in Seq(Nat) BY AppendIsConcat
<1>2. s \o t \in Seq(Nat) BY ConcatProperties
<1>3. Append(s \o t, e) = (s \o t) \o <<e>> BY <1>2, AppendIsConcat
<1> QED BY <1>1, <1>3, ConcatAssociative

(* A read takes the pipe's beginning; it is the null byte alone only when   *)
(* that is all there is                                                       *)
LEMMA PipeCopy ==
    ASSUME SessionsAssumption, TypeInv, PipeInv, Copy
    PROVE  PipeInv'
<1> DEFINE n == IF Len(pipe) < MAX_MESSAGE THEN Len(pipe) ELSE MAX_MESSAGE
           bytes == SubSeq(pipe, 1, n)
           rest == SubSeq(pipe, n + 1, Len(pipe))
<1>1. /\ session = "session_5" /\ session' = session /\ count' = count /\ proc[1] = "select"
      /\ pipe # <<>> /\ pipe' = rest
      /\ \/ bytes = <<0>> /\ proc' = [proc EXCEPT ![1] = "end"] /\ file' = file
         \/ proc' = proc /\ file' = file \o bytes
  BY DEF Copy, Stops, Goto
<1>2. /\ pipe \in Seq(Nat) /\ file \in Seq(Nat) /\ count \in Nat
      /\ Len(pipe) \in Nat /\ Len(file) \in Nat /\ Len(pipe) > 0
  <2>1. pipe \in Seq(Nat) /\ file \in Seq(Nat) /\ count \in Nat BY DEF TypeInv
  <2>2. Len(pipe) \in Nat \ {0} BY <1>1, <2>1, EmptySeq
  <2> QED BY <2>1, <2>2, LenProperties
<1>3. n \in 1 .. Len(pipe) BY <1>2 DEF SessionsAssumption
<1> HIDE DEF n
<1>4. /\ bytes \in Seq(Nat) /\ rest \in Seq(Nat) /\ bytes \o rest = pipe
      /\ Len(bytes) = n /\ bytes[1] = pipe[1]
  <2>1. \A i \in 1 .. Len(pipe) : pipe[i] \in Nat BY <1>2, ElementOfSeq
  <2>2. /\ bytes \in Seq(Nat) /\ Len(bytes) = n /\ \A i \in 1 .. n : bytes[i] = pipe[1 + i - 1]
    <3>1. \A i \in 1 .. n : pipe[i] \in Nat BY <1>2, <1>3, <2>1
    <3>2. 1 \in Int /\ n \in Int BY <1>3
    <3>3. /\ bytes \in Seq(Nat) /\ Len(bytes) = (IF 1 <= n THEN n - 1 + 1 ELSE 0)
          /\ \A i \in 1 .. n - 1 + 1 : bytes[i] = pipe[1 + i - 1]
      BY <3>1, <3>2, SubSeqProperties
    <3> QED BY <1>3, <3>3
  <2>3. rest \in Seq(Nat)
    <3>1. \A i \in n + 1 .. Len(pipe) : pipe[i] \in Nat BY <1>2, <1>3, <2>1
    <3>2. n + 1 \in Int /\ Len(pipe) \in Int BY <1>2, <1>3
    <3> QED BY <3>1, <3>2, SubSeqProperties
  <2>4. bytes \o rest = pipe
    <3>1. 1 \in 1 .. Len(pipe) + 1 /\ n \in 1 - 1 .. Len(pipe) /\ Len(pipe) \in n .. Len(pipe)
      BY <1>2, <1>3
    <3>2. bytes \o rest = SubSeq(pipe, 1, Len(pipe)) BY <1>2, <3>1, ConcatAdjacentSubSeq
    <3> QED BY <1>2, <3>2, SubSeqFull
  <2>5. 1 \in 1 .. n /\ 1 + 1 - 1 = 1 BY <1>3
  <2> QED BY <2>2, <2>3, <2>4, <2>5
<1> HIDE DEF bytes, rest
<1>5. (file \o bytes) \o rest = file \o pipe
  <2>1. file \in Seq(Nat) /\ bytes \in Seq(Nat) /\ rest \in Seq(Nat) BY <1>2, <1>4
  <2>2. (file \o bytes) \o rest = file \o (bytes \o rest) BY <2>1, ConcatAssociative
  <2> QED BY <1>4, <2>2
<1>6. CASE proc' = proc /\ file' = file \o bytes
  BY <1>1, <1>5, <1>6 DEF PipeInv, Written
<1>7. CASE bytes = <<0>> /\ proc' = [proc EXCEPT ![1] = "end"] /\ file' = file
  <2> DEFINE all == file \o pipe
             k == Len(file) + 1
  <2>1. /\ Len(all) = Len(file) + Len(pipe) /\ k \in 1 .. Len(all)
        /\ all[k] = 0
        /\ \A i \in 1 .. Len(file) : all[i] = file[i]
    <3>1. pipe[1] = 0 BY <1>4, <1>7
    <3>2. /\ Len(all) = Len(file) + Len(pipe)
          /\ \A i \in 1 .. Len(file) + Len(pipe) :
                all[i] = IF i <= Len(file) THEN file[i] ELSE pipe[i - Len(file)]
      BY <1>2, ConcatProperties
    <3> HIDE DEF all
    <3>3. k \in 1 .. Len(all) /\ ~(k <= Len(file)) /\ k - Len(file) = 1 BY <1>2, <3>2
    <3> QED BY <1>2, <3>1, <3>2, <3>3
  <2> HIDE DEF all
  <2>2. proc[0] = "end" /\ all = Append(Written, 0) /\ k = count + 1
    <3>1. \A i \in 1 .. count : i # 0 OBVIOUS
    <3>2. all # Written BY <1>2, <2>1, <3>1, WrittenIs
    <3>3. proc[0] = "end" /\ all = Append(Written, 0) BY <1>1, <3>2 DEF PipeInv, all
    <3>4. k \notin 1 .. count BY <1>2, <2>1, <3>1, <3>3, WrittenIs
    <3> QED BY <1>2, <2>1, <3>3, <3>4, WrittenIs
  <2>3. Len(pipe) = 1 /\ Len(file) = count
    <3>1. Len(all) = count + 1 BY <1>2, <2>2, WrittenIs
    <3>2. Len(file) + 1 = count + 1 /\ Len(file) + Len(pipe) = count + 1 BY <2>1, <2>2, <3>1
    <3> DEFINE a == Len(file)
               b == Len(pipe)
    <3>3. a \in Nat /\ b \in Nat /\ count \in Nat BY <1>2
    <3>4. a + 1 = count + 1 /\ a + b = count + 1 BY <3>2
    <3> HIDE DEF a, b
    <3>5. a = count /\ b = 1 BY <3>3, <3>4
    <3> QED BY <3>5 DEF a, b
  <2>4. file = Written
    <3>1. \A i \in 1 .. Len(file) : file[i] = Written[i] BY <1>2, <2>1, <2>2, <2>3, WrittenIs
    <3> QED BY <1>2, <2>3, <3>1, SeqEqual, WrittenIs
  <2>5. rest = <<>>
    <3>1. n = 1 BY <1>3, <2>3
    <3> QED BY <1>2, <2>3, <3>1, SubSeqEmpty DEF rest
  <2>6. 0 # 1 /\ proc \in [All -> Places] /\ 1 \in All
    BY DEF TypeInv, SessionsAssumption, All
  <2>7. proc'[0] = "end" /\ proc'[1] = "end" BY <1>7, <2>2, <2>6
  <2>8. Written' = Written BY <1>1 DEF Written
  <2> QED BY <1>1, <1>7, <2>4, <2>5, <2>7, <2>8 DEF PipeInv
<1> QED BY <1>1, <1>6, <1>7

LEMMA PipeNext ==
    ASSUME SessionsAssumption, TypeInv, PipeInv, [Next]_vars
    PROVE  PipeInv'
<1>0. /\ 0 \in All /\ 1 \in All /\ proc \in [All -> Places] /\ pipe \in Seq(Nat)
      /\ file \in Seq(Nat) /\ count \in Nat
  BY DEF SessionsAssumption, TypeInv, All
<1>1. CASE Write
  <2>1. /\ proc[0] = "write" /\ count' = count + 1 /\ pipe' = Append(pipe, count + 1)
        /\ UNCHANGED <<session, proc, file>>
    BY <1>1 DEF Write, passing
  <2>2. file \o Append(pipe, count + 1) = Append(file \o pipe, count + 1)
    BY <1>0, ConcatAppend
  <2>3. Append(Written, count + 1) = Written' BY <1>0, <2>1, WrittenNext DEF Written
  <2> QED BY <2>1, <2>2, <2>3 DEF PipeInv
<1>2. CASE WriteEnd
  <2>1. /\ proc[0] = "write" /\ count' = count /\ pipe' = Append(pipe, 0)
        /\ UNCHANGED <<session, file>> /\ proc' = [proc EXCEPT ![0] = "end"]
    BY <1>2 DEF WriteEnd, Goto
  <2>2. file \o Append(pipe, 0) = Append(file \o pipe, 0) BY <1>0, ConcatAppend
  <2>3. Written' = Written BY <2>1 DEF Written
  <2>4. proc'[0] = "end" /\ proc'[1] = proc[1] BY <1>0, <2>1
  <2> QED BY <2>1, <2>2, <2>3, <2>4 DEF PipeInv
<1>3. CASE Copy BY <1>3, PipeCopy
<1>4. ASSUME NEW p \in All, Lock(p) \/ Unlock(p) \/ EnsureFails(p) \/ Cleanup(p)
      PROVE  PipeInv'
  <2>1. session' = session BY <1>4 DEF Lock, Unlock, EnsureFails, Cleanup
  <2>2. CASE session = "session_5"
    <3>1. proc[p] \in {"lock", "critical"} /\ p # 0 /\ p # 1
      BY <1>4, <2>2 DEF Lock, Unlock, EnsureFails, Cleanup, PipeInv
    <3>2. proc'[0] = proc[0] /\ proc'[1] = proc[1] /\ UNCHANGED copying
      BY <1>0, <1>4, <3>1 DEF Lock, Unlock, EnsureFails, Cleanup, Goto
    <3> QED BY <2>1, <3>2 DEF PipeInv, Written, copying
  <2> QED BY <2>1, <2>2 DEF PipeInv
<1>5. CASE SemaphoreWait \/ SemaphoreDestroy
  <2>1. session' = session /\ proc[0] \in {"wait", "destroy"}
    BY <1>5 DEF SemaphoreWait, SemaphoreDestroy
  <2> QED BY <2>1 DEF PipeInv
<1>6. CASE UNCHANGED vars BY <1>6 DEF vars, passing, copying, PipeInv, Written
<1> QED BY <1>1, <1>2, <1>3, <1>4, <1>5, <1>6 DEF Next

(* session_5's child copies every line, in order and once, and stops after  *)
(* all of them; when it has not stopped though the pipe is empty, it has     *)
(* copied the null byte that was to stop it.                                  *)
THEOREM LinesAreCopied ==
    ASSUME SessionsAssumption PROVE Spec => []CopiesTheLines
<1>1. Init => PipeInv
  <2> SUFFICES ASSUME Init, session = "session_5" PROVE PipeInv
    BY DEF PipeInv
  <2>1. proc[0] = "write" /\ proc[1] = "select"
    BY DEF Init, SessionsAssumption, All
  <2>2. Written = <<>> BY DEF Init, Written
  <2>3. file = <<>> /\ pipe = <<>> BY DEF Init
  <2>4. <<>> \o <<>> = <<>> OBVIOUS
  <2> QED BY <2>1, <2>2, <2>3, <2>4 DEF PipeInv
<1>2. TypeInv /\ PipeInv /\ [Next]_vars => PipeInv' BY PipeNext
<1>3. TypeInv /\ PipeInv => CopiesTheLines
  <2> SUFFICES ASSUME TypeInv, PipeInv, session = "session_5"
               PROVE  /\ file \o pipe \in {Written, Append(Written, 0)}
                      /\ proc[1] = "end" => file = Written
                      /\ proc[0] = "end" /\ pipe = <<>> => proc[1] = "end" \/ Last(file) = 0
    BY DEF CopiesTheLines, Written
  <2>1. file \in Seq(Nat) /\ count \in Nat BY DEF TypeInv
  <2>2. file \o <<>> = file BY <2>1, ConcatEmptySeq
  <2>3. file = Append(Written, 0) => Last(file) = 0 BY <2>1, WrittenIs DEF Last
  <2> QED BY <2>2, <2>3 DEF PipeInv
<1> QED BY <1>1, <1>2, <1>3, SemaphoreHolds, PTL DEF Spec
-----------------------------------------------------------------------------
(* The pins of bolos.c: A makes H, I, E, B and C in this order, B makes D   *)
(* and that one G, C makes F and that one J                                   *)

Letters == {"A", "B", "C", "D", "E", "F", "G", "H", "I", "J"}
Names == Letters \cup {"0"}
Argv == [left : Names, right : Names, bottom : Names]
Made(p) == bolo[p] # "none"

PinTypes ==
    /\ bolo \in [Letters -> {"none", "tree", "exec", "branch", "wait", "failed"}]
    /\ args \in [Letters -> Argv]
    /\ pins \in [Letters -> Names \X Names]
    /\ table \in [Letters -> Names]
    /\ turn \in 3 .. 8

(* Who is there, and whose pid A has in its table *)
TreeInv ==
    /\ \A p \in Letters : bolo[p] = "tree" => p = "A"
    /\ Made("A") /\ (bolo["A"] \in {"exec", "wait"} => turn = 8)
    /\ table["A"] = "A"
    /\ (Made("H") <=> turn > 3) /\ (turn > 3 => table["H"] = "H")
    /\ (Made("I") <=> turn > 4) /\ (turn > 4 => table["I"] = "I")
    /\ (Made("E") <=> turn > 5) /\ (turn > 5 => table["E"] = "E")
    /\ (Made("B") <=> turn > 6) /\ (turn > 6 => table["B"] = "B")
    /\ (Made("C") <=> turn > 7) /\ (turn > 7 => table["C"] = "C")
    /\ (Made("D") => Made("B")) /\ (Made("F") => Made("C"))
    /\ (Made("G") => Made("D")) /\ (Made("J") => Made("F"))

(* What each has been told, and what it knows while it makes its own *)
ToldInv ==
    /\ bolo["A"] \in {"exec", "wait"} => args["A"].left = "B" /\ args["A"].right = "C"
    /\ Made("E") => args["E"].left = "H" /\ args["E"].right = "I"
    /\ Made("B") => args["B"].right = "E" /\ args["B"].bottom = "H"
    /\ Made("C") => args["C"].left = "E" /\ args["C"].bottom = "I"
    /\ Made("D") => args["D"].right = "H"
    /\ Made("F") => args["F"].left = "I"
BranchInv ==
    /\ \A p \in Letters : bolo[p] = "branch" => p \in {"B", "C", "D", "F"}
    /\ bolo["B"] = "branch" => pins["B"] = <<"0", "E">>
    /\ bolo["C"] = "branch" => pins["C"] = <<"E", "0">>
    /\ bolo["D"] = "branch" => pins["D"] = <<"0", "H">>
    /\ bolo["F"] = "branch" => pins["F"] = <<"I", "0">>

WaitInv ==
    /\ \A p \in Letters : bolo[p] = "wait" => pins[p] = Bolos!Behind[p]
    /\ bolo["B"] = "wait" => Made("D")
    /\ bolo["C"] = "wait" => Made("F")
    /\ bolo["D"] = "wait" => Made("G")
    /\ bolo["F"] = "wait" => Made("J")

PinsInv == PinTypes /\ TreeInv /\ ToldInv /\ BranchInv /\ WaitInv

LEMMA BehindIs ==
    /\ Bolos!Behind["A"] = <<"B", "C">> /\ Bolos!Behind["B"] = <<"D", "E">>
    /\ Bolos!Behind["C"] = <<"E", "F">> /\ Bolos!Behind["D"] = <<"G", "H">>
    /\ Bolos!Behind["E"] = <<"H", "I">> /\ Bolos!Behind["F"] = <<"I", "J">>
    /\ Bolos!Behind["G"] = <<"0", "0">> /\ Bolos!Behind["H"] = <<"0", "0">>
    /\ Bolos!Behind["I"] = <<"0", "0">> /\ Bolos!Behind["J"] = <<"0", "0">>
BY DEF Bolos!Behind, Bolos!None

LEMMA ChildIs ==
    /\ Bolos!Child(0) = "A" /\ Bolos!Child(1) = "A" /\ Bolos!Child(2) = "A"
    /\ Bolos!Child(3) = "H" /\ Bolos!Child(4) = "I" /\ Bolos!Child(5) = "E"
    /\ Bolos!Child(6) = "B" /\ Bolos!Child(7) = "C"
    /\ Len(Bolos!ordered_childs) = 8
BY DEF Bolos!Child, Bolos!ordered_childs

LEMMA PinsInit == Bolos!Init => PinsInv
<1> SUFFICES ASSUME Bolos!Init PROVE PinsInv
  OBVIOUS
<1>1. PinTypes
  BY DEF Bolos!Init, Bolos!Letters, Bolos!None, PinTypes, Letters, Names, Argv
<1>2. /\ \A p \in Letters : bolo[p] = IF p = "A" THEN "tree" ELSE "none"
      /\ table["A"] = "A" /\ turn = 3
  BY DEF Bolos!Init, Bolos!Letters, Letters
<1>3. TreeInv BY <1>2 DEF TreeInv, Letters, Made
<1>4. ToldInv /\ BranchInv /\ WaitInv
  BY <1>2 DEF ToldInv, BranchInv, WaitInv, Letters, Made
<1> QED BY <1>1, <1>3, <1>4 DEF PinsInv

(* The table holds the two pins behind when A makes the next one *)
LEMMA PinsFork ==
    ASSUME PinsInv, Bolos!ForkInTree PROVE PinsInv'
<1> DEFINE c == Bolos!Child(turn)
           l == table[Bolos!Child(turn - 2)]
           r == table[Bolos!Child(turn - 1)]
           b == table[Bolos!Child(turn - 3)]
<1>1. /\ bolo["A"] = "tree" /\ turn \in 3 .. 7 /\ turn' = turn + 1 /\ pins' = pins
      /\ bolo' = [bolo EXCEPT ![c] = "exec"]
      /\ args' = [args EXCEPT ![c] = [left |-> l, right |-> r, bottom |-> b]]
      /\ table' = [table EXCEPT ![c] = c]
  BY ChildIs DEF Bolos!ForkInTree, PinsInv, PinTypes
<1>2. /\ c \in {"H", "I", "E", "B", "C"} /\ ~Made(c)
      /\ c = "H" <=> turn = 3
      /\ c = "I" <=> turn = 4
      /\ c = "E" <=> turn = 5
      /\ c = "B" <=> turn = 6
      /\ c = "C" <=> turn = 7
  <2>1. turn = 3 \/ turn = 4 \/ turn = 5 \/ turn = 6 \/ turn = 7 BY <1>1
  <2> QED BY <2>1, ChildIs DEF PinsInv, TreeInv
<1>3. /\ turn = 5 => l = "H" /\ r = "I"
      /\ turn = 6 => r = "E" /\ b = "H"
      /\ turn = 7 => l = "E" /\ b = "I"
      /\ l \in Names /\ r \in Names /\ b \in Names
  <2>1. turn = 3 \/ turn = 4 \/ turn = 5 \/ turn = 6 \/ turn = 7 BY <1>1
  <2>2. table \in [Letters -> Names] BY DEF PinsInv, PinTypes
  <2>3. CASE turn = 3 BY <2>2, <2>3, ChildIs DEF Letters
  <2>4. CASE turn = 4 BY <2>2, <2>4, ChildIs DEF Letters
  <2>5. CASE turn = 5
    <3>1. l = table["H"] /\ r = table["I"] /\ b = table["A"] BY <2>5, ChildIs
    <3> QED BY <2>2, <2>5, <3>1 DEF Letters, PinsInv, TreeInv
  <2>6. CASE turn = 6
    <3>1. l = table["I"] /\ r = table["E"] /\ b = table["H"] BY <2>6, ChildIs
    <3> QED BY <2>2, <2>6, <3>1 DEF Letters, PinsInv, TreeInv
  <2>7. CASE turn = 7
    <3>1. l = table["E"] /\ r = table["B"] /\ b = table["I"] BY <2>7, ChildIs
    <3> QED BY <2>2, <2>7, <3>1 DEF Letters, PinsInv, TreeInv
  <2> QED BY <2>1, <2>3, <2>4, <2>5, <2>6, <2>7
<1> HIDE DEF c, l, r, b
<1>4. PinTypes'
  <2>1. [left |-> l, right |-> r, bottom |-> b] \in Argv BY <1>3 DEF Argv
  <2>2. c \in Names BY <1>2 DEF Names, Letters
  <2>3. turn + 1 \in 3 .. 8 BY <1>1
  <2>4. c \in Letters BY <1>2 DEF Letters
  <2>5. bolo' \in [Letters -> {"none", "tree", "exec", "branch", "wait", "failed"}]
    BY <1>1, <2>4 DEF PinsInv, PinTypes
  <2>6. args' \in [Letters -> Argv] BY <1>1, <2>1, <2>4 DEF PinsInv, PinTypes
  <2>7. table' \in [Letters -> Names] BY <1>1, <2>2, <2>4 DEF PinsInv, PinTypes
  <2> QED BY <1>1, <2>3, <2>5, <2>6, <2>7 DEF PinsInv, PinTypes
<1>5. /\ bolo'[c] = "exec" /\ table'[c] = c
      /\ args'[c].left = l /\ args'[c].right = r /\ args'[c].bottom = b
      /\ \A p \in Letters \ {c} : bolo'[p] = bolo[p] /\ table'[p] = table[p] /\ args'[p] = args[p]
      /\ \A p \in Letters : Made(p)' <=> Made(p) \/ p = c
  BY <1>1, <1>2 DEF PinsInv, PinTypes, Letters, Made
<1>6. TreeInv' BY <1>1, <1>2, <1>5 DEF PinsInv, PinTypes, TreeInv, Letters
<1>7. ToldInv' BY <1>1, <1>2, <1>3, <1>5 DEF PinsInv, ToldInv, Letters
<1>8. BranchInv' BY <1>1, <1>2, <1>5 DEF PinsInv, BranchInv, Letters
<1>9. WaitInv' BY <1>1, <1>2, <1>5 DEF PinsInv, WaitInv, Letters
<1> QED BY <1>4, <1>6, <1>7, <1>8, <1>9 DEF PinsInv

LEMMA PinsExecA ==
    ASSUME PinsInv, Bolos!ExecA PROVE PinsInv'
<1>1. /\ bolo["A"] = "tree" /\ turn = 8 /\ UNCHANGED <<pins, table, turn>>
      /\ bolo' = [bolo EXCEPT !["A"] = "exec"]
      /\ args' = [args EXCEPT !["A"] = [left |-> "B", right |-> "C", bottom |-> "0"]]
  <2>1. bolo["A"] = "tree" /\ turn = 8 BY ChildIs DEF Bolos!ExecA
  <2>2. table["B"] = "B" /\ table["C"] = "C" BY <2>1 DEF PinsInv, TreeInv
  <2> QED BY <2>1, <2>2 DEF Bolos!ExecA, Bolos!None
<1>2. PinTypes'
  <2>1. [left |-> "B", right |-> "C", bottom |-> "0"] \in Argv BY DEF Argv, Names, Letters
  <2> QED BY <1>1, <2>1 DEF PinsInv, PinTypes
<1>3. /\ bolo'["A"] = "exec" /\ args'["A"].left = "B" /\ args'["A"].right = "C"
      /\ \A p \in Letters \ {"A"} : bolo'[p] = bolo[p] /\ args'[p] = args[p]
      /\ \A p \in Letters : Made(p)' <=> Made(p)
  BY <1>1 DEF PinsInv, PinTypes, Letters, Made
<1>4. TreeInv' BY <1>1, <1>3 DEF PinsInv, TreeInv, Letters
<1>5. ToldInv' BY <1>1, <1>3 DEF PinsInv, ToldInv, Letters
<1>6. BranchInv' BY <1>1, <1>3 DEF PinsInv, BranchInv, Letters
<1>7. WaitInv' BY <1>1, <1>3 DEF PinsInv, WaitInv, Letters
<1> QED BY <1>2, <1>4, <1>5, <1>6, <1>7 DEF PinsInv

(* A process whose fork or execl failed is none of those that wait *)
LEMMA PinsFail ==
    ASSUME PinsInv, NEW p \in Letters, Bolos!Fail(p), Made(p) PROVE PinsInv'
<1>1. bolo' = [bolo EXCEPT ![p] = "failed"] /\ UNCHANGED <<args, pins, table, turn>>
  BY DEF Bolos!Fail
<1>2. /\ PinTypes' /\ bolo'[p] = "failed"
      /\ \A q \in Letters \ {p} : bolo'[q] = bolo[q]
      /\ \A q \in Letters : Made(q)' <=> Made(q)
  BY <1>1 DEF PinsInv, PinTypes, Made
<1>3. TreeInv' BY <1>1, <1>2 DEF PinsInv, TreeInv, Letters
<1>4. ToldInv' BY <1>1, <1>2 DEF PinsInv, ToldInv, Letters
<1>5. BranchInv' BY <1>1, <1>2 DEF PinsInv, BranchInv, Letters
<1>6. WaitInv' BY <1>1, <1>2 DEF PinsInv, WaitInv, Letters
<1> QED BY <1>2, <1>3, <1>4, <1>5, <1>6 DEF PinsInv

LEMMA PinsMain ==
    ASSUME PinsInv, NEW p \in Letters, Bolos!Main(p) PROVE PinsInv'
<1>1. /\ bolo[p] = "exec" /\ UNCHANGED <<args, table, turn>>
      /\ bolo' = [bolo EXCEPT ![p] = IF p \in {"B", "C", "D", "F"} THEN "branch" ELSE "wait"]
  BY DEF Bolos!Main, Bolos!IsBranch
<1> DEFINE know == pins'[p]
<1>2. /\ p \in {"G", "H", "I", "J"} => know = <<"0", "0">>
      /\ p \in {"A", "E"} => know = <<args[p].left, args[p].right>>
      /\ p \in {"B", "D"} => know = <<"0", args[p].right>>
      /\ p \in {"C", "F"} => know = <<args[p].left, "0">>
      /\ pins' = [pins EXCEPT ![p] = know]
  <2>0. pins \in [Letters -> Names \X Names] BY DEF PinsInv, PinTypes
  <2>1. CASE p \in {"G", "H", "I", "J"}
    BY <2>0, <2>1 DEF Bolos!Main, Bolos!IsLeaf, Bolos!None
  <2>2. CASE p \in {"A", "E"} BY <2>0, <2>2 DEF Bolos!Main, Bolos!IsLeaf, Bolos!None
  <2>3. CASE p \in {"B", "D"} BY <2>0, <2>3 DEF Bolos!Main, Bolos!IsLeaf, Bolos!None
  <2>4. CASE p \in {"C", "F"} BY <2>0, <2>4 DEF Bolos!Main, Bolos!IsLeaf, Bolos!None
  <2> QED BY <2>1, <2>2, <2>3, <2>4 DEF Letters
<1> HIDE DEF know
<1>3. Made(p) /\ args[p].left \in Names /\ args[p].right \in Names
  BY <1>1 DEF Made, PinsInv, PinTypes, Argv
<1>4. PinTypes'
  <2>1. know \in Names \X Names BY <1>2, <1>3 DEF Names, Letters
  <2> QED BY <1>1, <1>2, <2>1 DEF PinsInv, PinTypes
<1>5. /\ bolo'[p] = (IF p \in {"B", "C", "D", "F"} THEN "branch" ELSE "wait")
      /\ pins'[p] = know
      /\ \A q \in Letters \ {p} : bolo'[q] = bolo[q] /\ pins'[q] = pins[q]
      /\ \A q \in Letters : Made(q)' <=> Made(q)
  BY <1>1, <1>2 DEF PinsInv, PinTypes, Made
<1>6. TreeInv' BY <1>1, <1>5 DEF PinsInv, TreeInv, Letters
<1>7. ToldInv' BY <1>1, <1>5 DEF PinsInv, ToldInv, Letters
<1>8. BranchInv'
  BY <1>1, <1>2, <1>3, <1>5 DEF PinsInv, ToldInv, BranchInv, Letters
<1>9. WaitInv'
  <2>1. p \notin {"B", "C", "D", "F"} => know = Bolos!Behind[p]
    BY <1>1, <1>2, <1>3, BehindIs DEF PinsInv, ToldInv, Letters
  <2> QED BY <1>1, <1>5, <2>1 DEF PinsInv, WaitInv, Letters
<1> QED BY <1>4, <1>6, <1>7, <1>8, <1>9 DEF PinsInv

(* The child of a branch learns its other pin from the argument bottom *)
LEMMA PinsBranch ==
    ASSUME PinsInv, NEW p \in Letters, Bolos!ForkBranch(p) PROVE PinsInv'
<1>1. bolo[p] = "branch" /\ p \in {"B", "C", "D", "F"} /\ UNCHANGED <<table, turn>>
  BY DEF Bolos!ForkBranch, PinsInv, BranchInv
<1>2. PICK q \in Letters, argv \in Argv :
         /\ bolo' = [bolo EXCEPT ![p] = "wait", ![q] = "exec"]
         /\ args' = [args EXCEPT ![q] = argv]
         /\ pins' = [pins EXCEPT ![p] = Bolos!Behind[p]]
         /\ p = "B" => q = "D" /\ argv.right = "H"
         /\ p = "C" => q = "F" /\ argv.left = "I"
         /\ p = "D" => q = "G"
         /\ p = "F" => q = "J"
  <2>1. CASE p = "B"
    <3> DEFINE argv == [left |-> "0", right |-> "H", bottom |-> "0"]
    <3>1. argv \in Argv BY DEF Argv, Names, Letters
    <3>2. pins[p] = <<"0", "E">> /\ args[p].bottom = "H"
      BY <1>1, <2>1 DEF PinsInv, BranchInv, ToldInv, Made
    <3>3. /\ bolo' = [bolo EXCEPT ![p] = "wait", !["D"] = "exec"]
          /\ args' = [args EXCEPT !["D"] = argv]
          /\ pins' = [pins EXCEPT ![p] = <<"D", "E">>]
      BY <2>1, <3>2 DEF Bolos!ForkBranch, Bolos!child_name, Bolos!Bottom, Bolos!None
    <3>4. "D" \in Letters BY DEF Letters
    <3> QED BY <2>1, <3>1, <3>3, <3>4, BehindIs
  <2>2. CASE p = "C"
    <3> DEFINE argv == [left |-> "I", right |-> "0", bottom |-> "0"]
    <3>1. argv \in Argv BY DEF Argv, Names, Letters
    <3>2. pins[p] = <<"E", "0">> /\ args[p].bottom = "I"
      BY <1>1, <2>2 DEF PinsInv, BranchInv, ToldInv, Made
    <3>3. /\ bolo' = [bolo EXCEPT ![p] = "wait", !["F"] = "exec"]
          /\ args' = [args EXCEPT !["F"] = argv]
          /\ pins' = [pins EXCEPT ![p] = <<"E", "F">>]
      BY <2>2, <3>2 DEF Bolos!ForkBranch, Bolos!child_name, Bolos!Bottom, Bolos!None
    <3>4. "F" \in Letters BY DEF Letters
    <3> QED BY <2>2, <3>1, <3>3, <3>4, BehindIs
  <2>3. CASE p = "D"
    <3> DEFINE argv == [left |-> "0", right |-> "0", bottom |-> "0"]
    <3>1. argv \in Argv BY DEF Argv, Names, Letters
    <3>2. pins[p] = <<"0", "H">> BY <1>1, <2>3 DEF PinsInv, BranchInv
    <3>3. /\ bolo' = [bolo EXCEPT ![p] = "wait", !["G"] = "exec"]
          /\ args' = [args EXCEPT !["G"] = argv]
          /\ pins' = [pins EXCEPT ![p] = <<"G", "H">>]
      BY <2>3, <3>2 DEF Bolos!ForkBranch, Bolos!child_name, Bolos!Bottom, Bolos!None
    <3>4. "G" \in Letters BY DEF Letters
    <3> QED BY <2>3, <3>1, <3>3, <3>4, BehindIs
  <2>4. CASE p = "F"
    <3> DEFINE argv == [left |-> "0", right |-> "0", bottom |-> "0"]
    <3>1. argv \in Argv BY DEF Argv, Names, Letters
    <3>2. pins[p] = <<"I", "0">> BY <1>1, <2>4 DEF PinsInv, BranchInv
    <3>3. /\ bolo' = [bolo EXCEPT ![p] = "wait", !["J"] = "exec"]
          /\ args' = [args EXCEPT !["J"] = argv]
          /\ pins' = [pins EXCEPT ![p] = <<"I", "J">>]
      BY <2>4, <3>2 DEF Bolos!ForkBranch, Bolos!child_name, Bolos!Bottom, Bolos!None
    <3>4. "J" \in Letters BY DEF Letters
    <3> QED BY <2>4, <3>1, <3>3, <3>4, BehindIs
  <2> QED BY <1>1, <2>1, <2>2, <2>3, <2>4
<1>3. Bolos!Behind[p] \in Names \X Names /\ q \in Letters /\ q # p
  <2>1. CASE p = "B" BY <1>2, <2>1, BehindIs DEF Names, Letters
  <2>2. CASE p = "C" BY <1>2, <2>2, BehindIs DEF Names, Letters
  <2>3. CASE p = "D" BY <1>2, <2>3, BehindIs DEF Names, Letters
  <2>4. CASE p = "F" BY <1>2, <2>4, BehindIs DEF Names, Letters
  <2> QED BY <1>1, <2>1, <2>2, <2>3, <2>4
<1>4. PinTypes' BY <1>1, <1>2, <1>3 DEF PinsInv, PinTypes
<1>5. /\ bolo'[p] = "wait" /\ bolo'[q] = "exec" /\ pins'[p] = Bolos!Behind[p] /\ args'[q] = argv
      /\ \A o \in Letters \ {p, q} : bolo'[o] = bolo[o]
      /\ \A o \in Letters \ {p} : pins'[o] = pins[o]
      /\ \A o \in Letters \ {q} : args'[o] = args[o]
      /\ \A o \in Letters : Made(o)' <=> Made(o) \/ o = q
  BY <1>1, <1>2, <1>3 DEF PinsInv, PinTypes, Made
<1>6. Made(p) BY <1>1 DEF Made
<1>7. TreeInv'
  <2>1. \A o \in Letters : bolo'[o] = "tree" => o = "A"
    BY <1>5 DEF PinsInv, TreeInv
  <2>2. /\ bolo'["A"] = bolo["A"]
        /\ \A o \in {"A", "B", "C", "E", "H", "I"} : Made(o)' <=> Made(o)
    BY <1>1, <1>2, <1>5 DEF Letters
  <2>3. /\ (Made("D")' => Made("B")') /\ (Made("F")' => Made("C")')
        /\ (Made("G")' => Made("D")') /\ (Made("J")' => Made("F")')
    <3>1. CASE p = "B" BY <1>2, <1>5, <1>6, <3>1 DEF PinsInv, TreeInv, Letters
    <3>2. CASE p = "C" BY <1>2, <1>5, <1>6, <3>2 DEF PinsInv, TreeInv, Letters
    <3>3. CASE p = "D" BY <1>2, <1>5, <1>6, <3>3 DEF PinsInv, TreeInv, Letters
    <3>4. CASE p = "F" BY <1>2, <1>5, <1>6, <3>4 DEF PinsInv, TreeInv, Letters
    <3> QED BY <1>1, <3>1, <3>2, <3>3, <3>4
  <2> QED BY <1>1, <2>1, <2>2, <2>3 DEF PinsInv, TreeInv
<1>8. ToldInv'
  <2>1. /\ bolo'["A"] = bolo["A"]
        /\ \A o \in {"A", "B", "C", "E"} : (Made(o)' <=> Made(o)) /\ args'[o] = args[o]
    BY <1>1, <1>2, <1>5 DEF Letters
  <2>2. (Made("D")' => args'["D"].right = "H") /\ (Made("F")' => args'["F"].left = "I")
    <3>1. q = "D" => p = "B" BY <1>1, <1>2
    <3>2. q = "F" => p = "C" BY <1>1, <1>2
    <3>3. argv.right = "H" \/ q # "D" BY <1>2, <3>1
    <3>4. argv.left = "I" \/ q # "F" BY <1>2, <3>2
    <3> QED BY <1>5, <3>3, <3>4 DEF PinsInv, ToldInv, Letters
  <2> QED BY <2>1, <2>2 DEF PinsInv, ToldInv
<1>9. BranchInv' BY <1>1, <1>2, <1>3, <1>5 DEF PinsInv, BranchInv, Letters
<1>10. WaitInv' BY <1>1, <1>2, <1>3, <1>5 DEF PinsInv, WaitInv, Letters
<1> QED BY <1>4, <1>7, <1>8, <1>9, <1>10 DEF PinsInv

(* Whoever waits for the signals of the pins behind it has their pids, the   *)
(* statement's pyramid, whatever order the branches run in and whatever call  *)
(* fails; the assertions of just_wait and build_branch hold.                   *)
THEOREM PinsAreKnown == Bolos!Spec => []Bolos!KnowsItsPins
<1>1. PinsInv /\ [Bolos!Next]_(Bolos!vars) => PinsInv'
  <2> SUFFICES ASSUME PinsInv, [Bolos!Next]_(Bolos!vars) PROVE PinsInv'
    OBVIOUS
  <2>1. CASE Bolos!ForkInTree BY <2>1, PinsFork
  <2>2. CASE Bolos!ForkInTreeFails
    BY <2>2, PinsFail DEF Bolos!ForkInTreeFails, PinsInv, TreeInv, Letters
  <2>3. CASE Bolos!ExecA BY <2>3, PinsExecA
  <2>4. ASSUME NEW p \in Letters, Bolos!ExecFails(p) \/ Bolos!ForkBranchFails(p) PROVE PinsInv'
    BY <2>4, PinsFail DEF Bolos!ExecFails, Bolos!ForkBranchFails, Made
  <2>5. ASSUME NEW p \in Letters, Bolos!Main(p) PROVE PinsInv' BY <2>5, PinsMain
  <2>6. ASSUME NEW p \in Letters, Bolos!ForkBranch(p) PROVE PinsInv' BY <2>6, PinsBranch
  <2>7. CASE UNCHANGED Bolos!vars
    BY <2>7 DEF Bolos!vars, PinsInv, PinTypes, TreeInv, ToldInv, BranchInv, WaitInv, Made
  <2> QED BY <2>1, <2>2, <2>3, <2>4, <2>5, <2>6, <2>7 DEF Bolos!Next, Bolos!Letters, Letters
<1>2. PinsInv => Bolos!KnowsItsPins
  <2> SUFFICES ASSUME PinsInv, NEW p \in Letters
               PROVE  /\ bolo[p] = "wait" => pins[p] = Bolos!Behind[p]
                      /\ bolo[p] = "branch" => "0" \in {pins[p][1], pins[p][2]}
                      /\ \A i \in 1 .. 2 :
                            bolo[p] = "wait" /\ pins[p][i] # "0" => bolo[pins[p][i]] # "none"
    BY DEF Bolos!KnowsItsPins, Bolos!Letters, Bolos!None, Letters
  <2>1. bolo[p] = "branch" => "0" \in {pins[p][1], pins[p][2]}
    BY DEF PinsInv, BranchInv
  <2>2. ASSUME bolo[p] = "wait"
        PROVE  /\ pins[p] = Bolos!Behind[p]
               /\ pins[p][1] # "0" => Made(pins[p][1])
               /\ pins[p][2] # "0" => Made(pins[p][2])
    <3>1. pins[p] = Bolos!Behind[p] BY <2>2 DEF PinsInv, WaitInv
    <3>2. Made(p) BY <2>2 DEF Made
    <3>3. p = "A" => Made("B") /\ Made("C") BY <2>2 DEF PinsInv, TreeInv
    <3>4. /\ Made("E") => Made("H") /\ Made("I")
          /\ Made("B") => Made("E") /\ Made("H")
          /\ Made("C") => Made("E") /\ Made("I")
      BY DEF PinsInv, PinTypes, TreeInv
    <3>5. p \in {"B", "C", "D", "F"} => Made(Bolos!Behind[p][1]) /\ Made(Bolos!Behind[p][2])
      BY <2>2, <3>2, <3>4, BehindIs DEF PinsInv, WaitInv, TreeInv
    <3> QED BY <3>1, <3>2, <3>3, <3>4, <3>5, BehindIs DEF Letters
  <2>3. \A i \in 1 .. 2 : i = 1 \/ i = 2 OBVIOUS
  <2> QED BY <2>1, <2>2, <2>3 DEF Made
<1> QED BY <1>1, <1>2, PinsInit, PTL DEF Bolos!Spec
=============================================================================
