------------------------- MODULE OneTimeCodes_proofs -------------------------
(***************************************************************************)
(* Proofs about OneTimeCodes, for any number of requests, verifications,   *)
(* codes and failures and any limits.                                      *)
(***************************************************************************)
EXTENDS OneTimeCodes, FiniteSetTheorems, SequenceTheorems, TLAPS

-----------------------------------------------------------------------------
(* Sequences and cardinalities.                                            *)

\* A function on an initial interval is a sequence of that length.
LEMMA FunSeq ==
  ASSUME NEW S, NEW n \in Nat, NEW f \in [1..n -> S]
  PROVE  f \in Seq(S) /\ Len(f) = n
<1>1. f \in Seq(S)
  BY SeqDef
<1>2. Len(f) \in Nat /\ DOMAIN f = 1..Len(f)
  BY <1>1, LenProperties
<1>3. 1..n = 1..Len(f)
  BY <1>2
<1> QED BY <1>1, <1>2, <1>3

\* A part of a finite set has no more members, and a natural number of them.
LEMMA PartSmaller ==
  ASSUME NEW T, IsFiniteSet(T), NEW S, S \subseteq T
  PROVE  /\ IsFiniteSet(S)
         /\ Cardinality(S) \in Nat /\ Cardinality(T) \in Nat
         /\ Cardinality(S) <= Cardinality(T)
BY FS_Subset, FS_CardinalityType

\* The fields of a row, and of the state of a verification.
LEMMA RowFields ==
  ASSUME NEW r \in Row
  PROVE  /\ r.consumed \in BOOLEAN /\ r.attempts \in Nat
         /\ r.expired \in BOOLEAN /\ r.recent \in BOOLEAN
         /\ [r EXCEPT !.consumed = TRUE] \in Row
         /\ [r EXCEPT !.attempts = @ + 1] \in Row
         /\ [r EXCEPT !.expired = TRUE] \in Row
         /\ [r EXCEPT !.recent = FALSE] \in Row
<1>1. /\ r.consumed \in BOOLEAN /\ r.attempts \in Nat
      /\ r.expired \in BOOLEAN /\ r.recent \in BOOLEAN
  BY DEF Row
<1>2. [r EXCEPT !.consumed = TRUE] \in Row
  BY DEF Row
<1>3. [r EXCEPT !.attempts = @ + 1] \in Row
  <2>1. r.attempts + 1 \in Nat
    BY <1>1
  <2> DEFINE n == r.attempts + 1
  <2>2. n \in Nat
    BY <2>1
  <2> HIDE DEF n
  <2>3. [r EXCEPT !.attempts = n] \in Row
    BY <2>2 DEF Row
  <2> QED BY <2>3 DEF n
<1>4. [r EXCEPT !.expired = TRUE] \in Row
  BY DEF Row
<1>5. [r EXCEPT !.recent = FALSE] \in Row
  BY DEF Row
<1> QED BY <1>1, <1>2, <1>3, <1>4, <1>5

-----------------------------------------------------------------------------
(* Type correctness.                                                       *)

\* The rows are numbered from one, and each is a row.
LEMMA TableType ==
  ASSUME TypeOK
  PROVE  /\ Len(table) \in Nat /\ DOMAIN table = 1..Len(table)
         /\ table \in [1..Len(table) -> Row]
         /\ \A i \in DOMAIN table : table[i] \in Row
<1>1. table \in Seq(Row)
  BY DEF TypeOK
<1>2. Len(table) \in Nat /\ DOMAIN table = 1..Len(table) /\ table \in [1..Len(table) -> Row]
  BY <1>1, LenProperties
<1> QED BY <1>2

\* A table over the same rows is still one.
LEMMA SameRows ==
  ASSUME TypeOK, NEW t, DOMAIN t = DOMAIN table, t = [i \in DOMAIN t |-> t[i]],
         \A i \in DOMAIN t : t[i] \in Row
  PROVE  t \in Seq(Row) /\ Len(t) = Len(table)
<1>1. Len(table) \in Nat /\ DOMAIN table = 1..Len(table)
  BY TableType
<1>2. t \in [1..Len(table) -> Row]
  BY <1>1
<1> QED BY <1>1, <1>2, FunSeq

\* What a step does to the table: it appends a new row, or keeps the rows and
\* may consume, expire or age them; only CountFailure adds an attempt.
RowsKept ==
  /\ table' \in Seq(Row) /\ Len(table') = Len(table)
  /\ DOMAIN table' = DOMAIN table
  /\ \A i \in DOMAIN table :
        /\ table[i].consumed => table'[i].consumed
        /\ table'[i].recent => table[i].recent
AttemptsKept == \A i \in DOMAIN table : table'[i].attempts = table[i].attempts

LEMMA TableUnchanged == TypeOK /\ UNCHANGED table => RowsKept /\ AttemptsKept
BY DEF TypeOK, RowsKept, AttemptsKept

LEMMA TableInvalidate ==
  ASSUME TypeOK, NEW q \in Requests, Invalidate(q)
  PROVE  RowsKept /\ AttemptsKept /\ \A i \in DOMAIN table : table'[i].consumed
<1>1. \A i \in DOMAIN table : table[i] \in Row
  BY TableType
<1>2. table' = [i \in DOMAIN table |-> [table[i] EXCEPT !.consumed = TRUE]]
  BY DEF Invalidate
<1>3. \A i \in DOMAIN table : table'[i] = [table[i] EXCEPT !.consumed = TRUE]
  BY <1>2
<1>4. \A i \in DOMAIN table :
         /\ table'[i] \in Row /\ table'[i].consumed
         /\ table'[i].recent = table[i].recent /\ table'[i].attempts = table[i].attempts
  BY <1>1, <1>3 DEF Row
<1>5. DOMAIN table' = DOMAIN table /\ table' = [i \in DOMAIN table' |-> table'[i]]
  BY <1>2
<1>6. table' \in Seq(Row) /\ Len(table') = Len(table)
  BY <1>4, <1>5, SameRows
<1> QED BY <1>4, <1>5, <1>6 DEF RowsKept, AttemptsKept

\* One row is replaced by another row.
LEMMA TableExcept ==
  ASSUME TypeOK, NEW i \in DOMAIN table, NEW r \in Row,
         table' = [table EXCEPT ![i] = r],
         table[i].consumed => r.consumed, r.recent => table[i].recent
  PROVE  /\ RowsKept /\ table'[i] = r
         /\ \A j \in DOMAIN table : j # i => table'[j] = table[j]
<1>1. table \in Seq(Row) /\ DOMAIN table = 1..Len(table)
  BY TableType DEF TypeOK
<1>2. /\ table' \in Seq(Row) /\ Len(table') = Len(table)
      /\ \A j \in DOMAIN table : table'[j] = IF j = i THEN r ELSE table[j]
  BY <1>1, ExceptSeq
<1>3. DOMAIN table' = DOMAIN table
  OBVIOUS
<1> QED BY <1>2, <1>3 DEF RowsKept

LEMMA TableStore ==
  ASSUME TypeOK, NEW q \in Requests, Store(q)
  PROVE  /\ table' \in Seq(Row) /\ Len(table') = Len(table) + 1
         /\ Len(table') <= MaxCodes
         /\ DOMAIN table' = DOMAIN table \cup {Len(table) + 1}
         /\ Len(table) + 1 \notin DOMAIN table
         /\ \A i \in DOMAIN table : table'[i] = table[i]
         /\ table'[Len(table) + 1] = NewRow
<1>1. table \in Seq(Row) /\ Len(table) \in Nat /\ DOMAIN table = 1..Len(table)
  BY TableType DEF TypeOK
<1>2. NewRow \in Row
  BY DEF NewRow, Row
<1>3. table' = Append(table, NewRow) /\ Len(table) < MaxCodes
  BY DEF Store
<1>4. /\ table' \in Seq(Row) /\ Len(table') = Len(table) + 1
      /\ \A i \in 1..Len(table) : table'[i] = table[i]
      /\ table'[Len(table) + 1] = NewRow
  BY <1>1, <1>2, <1>3
<1>5. DOMAIN table' = 1..Len(table')
  BY <1>4, LenProperties
<1>6. Len(table) + 1 <= MaxCodes
  BY <1>1, <1>3, CodesAssumption
<1>7. 1..(Len(table) + 1) = 1..Len(table) \cup {Len(table) + 1}
  BY <1>1
<1>8. Len(table) + 1 \notin 1..Len(table)
  BY <1>1
<1> QED BY <1>1, <1>4, <1>5, <1>6, <1>7, <1>8

\* A verification that moves on stays well formed.
LEMMA CheckFields ==
  ASSUME NEW c \in Check
  PROVE  /\ c.pc \in {"idle", "mismatched", "matched", "consumed"} /\ c.row \in Nat
         /\ c = [pc |-> c.pc, row |-> c.row]
         /\ [c EXCEPT !.pc = "consumed"] \in Check
         /\ [c EXCEPT !.pc = "consumed"].row = c.row
         /\ [c EXCEPT !.pc = "consumed"].pc = "consumed"
BY DEF Check

LEMMA NoCheckType == NoCheck \in Check /\ NoCheck.pc = "idle" /\ NoCheck.row = 0
BY DEF NoCheck, Check

LEMMA LookedUpType ==
  ASSUME NEW i \in Nat, NEW right \in BOOLEAN
  PROVE  LET c == [pc |-> IF right THEN "matched" ELSE "mismatched", row |-> i]
         IN  c \in Check /\ c.row = i /\ c.pc \in {"matched", "mismatched"}
BY DEF Check

\* A call that fails or crashes spends one of the failures.
LEMMA FailsType == failures \in 0..MaxFailures /\ Fails => failures' \in 0..MaxFailures
<1> SUFFICES ASSUME failures \in 0..MaxFailures, Fails PROVE failures' \in 0..MaxFailures
  OBVIOUS
<1>1. failures < MaxFailures /\ failures' = failures + 1
  BY DEF Fails
<1> QED BY <1>1, CodesAssumption

LEMMA TypeInit == Init => TypeOK
<1> SUFFICES ASSUME Init PROVE TypeOK
  OBVIOUS
<1>1. table \in Seq(Row) /\ Len(table) = 0 /\ Len(table) <= MaxCodes
  BY CodesAssumption, EmptySeq DEF Init
<1>2. asking \in [Requests -> AskingStep]
  BY DEF Init, AskingStep
<1>3. checking \in [Verifications -> Check]
  BY NoCheckType DEF Init
<1>4. \A v \in Verifications : checking[v].pc = "idle" /\ checking[v].row = 0
  BY NoCheckType DEF Init
<1>5. \A v \in Verifications : checking[v].row \in 0..Len(table)
  BY <1>1, <1>4
<1>6. tokens \in [1..MaxCodes -> Nat] /\ failures \in 0..MaxFailures
  BY CodesAssumption DEF Init
<1> QED BY <1>1, <1>2, <1>3, <1>4, <1>5, <1>6 DEF TypeOK

\* The verifications point to rows of the table.
ChecksOK ==
  /\ checking \in [Verifications -> Check]
  /\ \A v \in Verifications : checking[v].row \in 0..Len(table)
  /\ \A v \in Verifications : checking[v].pc # "idle" => checking[v].row # 0

LEMMA ChecksUnchanged ==
  ASSUME TypeOK, Len(table') \in Nat, Len(table) <= Len(table'), UNCHANGED checking
  PROVE  ChecksOK'
<1>1. Len(table) \in Nat
  BY TableType
<1>2. \A v \in Verifications : checking[v].row \in 0..Len(table)
  BY DEF TypeOK
<1>3. \A v \in Verifications : checking[v].row \in 0..Len(table')
  BY <1>1, <1>2
<1> QED BY <1>3 DEF TypeOK, ChecksOK

LEMMA ChecksMove ==
  ASSUME TypeOK, RowsKept, NEW v \in Verifications, NEW c \in Check,
         c.row \in 0..Len(table), c.pc # "idle" => c.row # 0,
         checking' = [checking EXCEPT ![v] = c]
  PROVE  ChecksOK'
<1>1. checking' \in [Verifications -> Check]
  BY DEF TypeOK
<1>2. \A w \in Verifications : checking'[w] = IF w = v THEN c ELSE checking[w]
  BY DEF TypeOK
<1>3. Len(table') = Len(table)
  BY DEF RowsKept
<1>4. \A w \in Verifications : checking'[w].row \in 0..Len(table)
  BY <1>2 DEF TypeOK
<1>5. \A w \in Verifications : checking'[w].pc # "idle" => checking'[w].row # 0
  BY <1>2 DEF TypeOK
<1> QED BY <1>1, <1>3, <1>4, <1>5 DEF ChecksOK

LEMMA ChecksReset ==
  ASSUME TypeOK, RowsKept, checking' = [v \in Verifications |-> NoCheck]
  PROVE  ChecksOK'
<1>1. \A v \in Verifications : checking'[v].row = 0 /\ checking'[v].pc = "idle"
  BY NoCheckType
<1>2. checking' \in [Verifications -> Check]
  BY NoCheckType
<1>3. Len(table') \in Nat
  BY TableType DEF RowsKept
<1> QED BY <1>1, <1>2, <1>3 DEF ChecksOK

\* The row a verification holds is a row of the table.
LEMMA CheckedRow ==
  ASSUME TypeOK, NEW v \in Verifications
  PROVE  /\ checking[v] \in Check /\ checking[v].row \in 0..Len(table)
         /\ checking[v].pc # "idle" =>
              /\ checking[v].row \in DOMAIN table
              /\ checking[v].row \in 1..MaxCodes
              /\ table[checking[v].row] \in Row
<1>1. /\ Len(table) \in Nat /\ DOMAIN table = 1..Len(table)
      /\ \A i \in DOMAIN table : table[i] \in Row
  BY TableType
<1>2. Len(table) <= MaxCodes /\ MaxCodes \in Nat
  BY CodesAssumption DEF TypeOK
<1>3. checking[v] \in Check /\ checking[v].row \in 0..Len(table)
  BY DEF TypeOK
<1>4. ASSUME checking[v].pc # "idle"
      PROVE  checking[v].row \in 1..Len(table) /\ checking[v].row \in 1..MaxCodes
  <2>1. checking[v].row # 0
    BY <1>4 DEF TypeOK
  <2> QED BY <1>1, <1>2, <1>3, <2>1
<1> QED BY <1>1, <1>3, <1>4

\* What each kind of step does to the rows.
LEMMA TableCountFailure ==
  ASSUME TypeOK, NEW v \in Verifications, CountFailure(v)
  PROVE  /\ RowsKept
         /\ checking[v].row \in DOMAIN table
         /\ \A j \in DOMAIN table : j # checking[v].row => table'[j].attempts = table[j].attempts
         /\ \/ table'[checking[v].row].attempts = table[checking[v].row].attempts + 1
            \/ table'[checking[v].row].attempts = table[checking[v].row].attempts
<1> DEFINE i == checking[v].row
<1>1. i \in DOMAIN table /\ table[i] \in Row
  BY CheckedRow DEF CountFailure
<1>2. CASE UNCHANGED table
  BY <1>1, <1>2, TableUnchanged DEF AttemptsKept
<1>3. CASE table' = [table EXCEPT ![i].attempts = @ + 1]
  <2> DEFINE r == [table[i] EXCEPT !.attempts = @ + 1]
  <2>1. /\ r \in Row /\ r.consumed = table[i].consumed /\ r.recent = table[i].recent
        /\ r.attempts = table[i].attempts + 1
    BY <1>1, RowFields DEF Row
  <2>2. table' = [table EXCEPT ![i] = r]
    BY <1>3
  <2> HIDE DEF r
  <2>3. /\ RowsKept /\ table'[i] = r
        /\ \A j \in DOMAIN table : j # i => table'[j] = table[j]
    BY <1>1, <2>1, <2>2, TableExcept
  <2> QED BY <1>1, <2>1, <2>3
<1> QED BY <1>2, <1>3 DEF CountFailure, Fails

LEMMA TableConsume ==
  ASSUME TypeOK, NEW v \in Verifications, Consume(v)
  PROVE  /\ RowsKept /\ AttemptsKept
         /\ checking[v].pc = "matched" /\ checking[v].row \in DOMAIN table
         /\ \/ /\ checking' = [checking EXCEPT ![v].pc = "consumed"]
               /\ ~table[checking[v].row].consumed /\ table'[checking[v].row].consumed
            \/ checking' = [checking EXCEPT ![v] = NoCheck] /\ UNCHANGED table
<1> DEFINE i == checking[v].row
<1>1. i \in DOMAIN table /\ table[i] \in Row /\ checking[v].pc = "matched"
  BY CheckedRow DEF Consume
<1>2. CASE checking' = [checking EXCEPT ![v] = NoCheck] /\ UNCHANGED table
  BY <1>1, <1>2, TableUnchanged
<1>3. CASE /\ table' = [table EXCEPT ![i].consumed = TRUE] /\ ~table[i].consumed
           /\ checking' = [checking EXCEPT ![v].pc = "consumed"]
  <2> DEFINE r == [table[i] EXCEPT !.consumed = TRUE]
  <2>1. /\ r \in Row /\ r.consumed /\ r.recent = table[i].recent
        /\ r.attempts = table[i].attempts
    BY <1>1, RowFields DEF Row
  <2>2. table' = [table EXCEPT ![i] = r]
    BY <1>3
  <2> HIDE DEF r
  <2>3. /\ RowsKept /\ table'[i] = r
        /\ \A j \in DOMAIN table : j # i => table'[j] = table[j]
    BY <1>1, <2>1, <2>2, TableExcept
  <2>4. AttemptsKept
    BY <2>1, <2>3 DEF AttemptsKept
  <2> QED BY <1>1, <1>3, <2>1, <2>3, <2>4
<1> QED BY <1>2, <1>3 DEF Consume

LEMMA TableAges ==
  ASSUME TypeOK, NEW i \in DOMAIN table, Expire(i) \/ Age(i)
  PROVE  RowsKept /\ AttemptsKept
<1>1. table[i] \in Row
  BY TableType
<1>2. PICK r \in Row : /\ table' = [table EXCEPT ![i] = r]
                       /\ r.consumed = table[i].consumed /\ r.attempts = table[i].attempts
                       /\ r.recent => table[i].recent
  <2>1. CASE Expire(i)
    <3> DEFINE r == [table[i] EXCEPT !.expired = TRUE]
    <3>1. /\ r \in Row /\ r.consumed = table[i].consumed
          /\ r.attempts = table[i].attempts /\ r.recent = table[i].recent
      BY <1>1, RowFields DEF Row
    <3>2. table' = [table EXCEPT ![i] = r]
      BY <2>1 DEF Expire
    <3> QED BY <3>1, <3>2
  <2>2. CASE Age(i)
    <3> DEFINE r == [table[i] EXCEPT !.recent = FALSE]
    <3>1. /\ r \in Row /\ r.consumed = table[i].consumed
          /\ r.attempts = table[i].attempts /\ ~r.recent
      BY <1>1, RowFields DEF Row
    <3>2. table' = [table EXCEPT ![i] = r]
      BY <2>2 DEF Age
    <3> QED BY <3>1, <3>2
  <2> QED BY <2>1, <2>2
<1>3. /\ RowsKept /\ table'[i] = r
      /\ \A j \in DOMAIN table : j # i => table'[j] = table[j]
  BY <1>2, TableExcept
<1> QED BY <1>2, <1>3 DEF AttemptsKept

LEMMA TypeStep == TypeOK /\ [Next]_vars => TypeOK'
<1> SUFFICES ASSUME TypeOK, [Next]_vars PROVE TypeOK'
  OBVIOUS
<1> DEFINE Table == table \in Seq(Row) /\ Len(table) <= MaxCodes
<1> DEFINE Rest == /\ asking \in [Requests -> AskingStep]
                   /\ tokens \in [1..MaxCodes -> Nat]
                   /\ failures \in 0..MaxFailures
<1>1. Table' /\ ChecksOK' /\ Rest' => TypeOK'
  BY DEF TypeOK, ChecksOK
<1>2. Table /\ Rest /\ Len(table) \in Nat /\ DOMAIN table = 1..Len(table)
  BY TableType DEF TypeOK
<1>3. RowsKept => Table' /\ Len(table') \in Nat /\ Len(table) <= Len(table')
  BY <1>2 DEF RowsKept
<1>4. UNCHANGED table => RowsKept
  BY TableUnchanged
<1>5. Fails \/ UNCHANGED failures => failures' \in 0..MaxFailures
  BY <1>2, FailsType
<1>6. ASSUME NEW q \in Requests, Count(q) PROVE TypeOK'
  <2>1. RowsKept /\ UNCHANGED checking
    BY <1>4, <1>6 DEF Count
  <2>2. Rest'
    BY <1>2, <1>6 DEF Count, AskingStep
  <2> QED BY <1>1, <1>3, <2>1, <2>2, ChecksUnchanged
<1>7. ASSUME NEW q \in Requests, Invalidate(q) PROVE TypeOK'
  <2>1. RowsKept /\ UNCHANGED checking
    BY <1>7, TableInvalidate DEF Invalidate
  <2>2. Rest'
    BY <1>2, <1>7 DEF Invalidate, AskingStep
  <2> QED BY <1>1, <1>3, <2>1, <2>2, ChecksUnchanged
<1>8. ASSUME NEW q \in Requests, Store(q) PROVE TypeOK'
  <2>1. Table' /\ Len(table') = Len(table) + 1 /\ UNCHANGED checking
    BY <1>8, TableStore DEF Store
  <2>2. Len(table') \in Nat /\ Len(table) <= Len(table')
    BY <1>2, <2>1
  <2>3. Rest'
    BY <1>2, <1>8 DEF Store, AskingStep
  <2> QED BY <1>1, <2>1, <2>2, <2>3, ChecksUnchanged
<1>9. ASSUME NEW q \in Requests, Deliver(q) \/ RequestFails(q) PROVE TypeOK'
  <2>1. RowsKept /\ UNCHANGED <<checking, tokens>> /\ (Fails \/ UNCHANGED failures)
    BY <1>4, <1>9 DEF Deliver, RequestFails
  <2>2. asking' = [asking EXCEPT ![q] = "idle"]
    BY <1>9 DEF Deliver, RequestFails
  <2>3. Rest'
    BY <1>2, <1>5, <2>1, <2>2 DEF AskingStep
  <2> QED BY <1>1, <1>3, <2>1, <2>3, ChecksUnchanged
<1>10. ASSUME NEW v \in Verifications, NEW i \in DOMAIN table, NEW right \in BOOLEAN,
              LookUp(v, i, right)
       PROVE  TypeOK'
  <2> DEFINE c == [pc |-> IF right THEN "matched" ELSE "mismatched", row |-> i]
  <2>1. i \in Nat /\ i \in 0..Len(table) /\ i # 0
    BY <1>2
  <2>2. c \in Check /\ c.row \in 0..Len(table) /\ (c.pc # "idle" => c.row # 0)
    BY <2>1, LookedUpType
  <2>3. checking' = [checking EXCEPT ![v] = c] /\ RowsKept
    BY <1>4, <1>10 DEF LookUp
  <2>4. Rest'
    BY <1>2, <1>10 DEF LookUp
  <2> HIDE DEF c
  <2>5. ChecksOK'
    BY <2>2, <2>3, ChecksMove
  <2> QED BY <1>1, <1>3, <2>3, <2>4, <2>5
<1>11. ASSUME NEW v \in Verifications, RowsKept, Rest',
              checking' = [checking EXCEPT ![v] = NoCheck]
       PROVE  TypeOK'
  <2>1. NoCheck \in Check /\ NoCheck.row \in 0..Len(table) /\ NoCheck.pc = "idle"
    BY <1>2, NoCheckType
  <2>2. NoCheck.pc # "idle" => NoCheck.row # 0
    BY <2>1
  <2>3. ChecksOK'
    BY <1>11, <2>1, <2>2, ChecksMove
  <2> QED BY <1>1, <1>3, <1>11, <2>3
<1>12. ASSUME NEW v \in Verifications, CountFailure(v) PROVE TypeOK'
  <2>1. RowsKept /\ checking' = [checking EXCEPT ![v] = NoCheck]
    BY <1>12, TableCountFailure DEF CountFailure
  <2>2. Rest'
    BY <1>2, <1>5, <1>12 DEF CountFailure
  <2> QED BY <1>11, <2>1, <2>2
<1>13. ASSUME NEW v \in Verifications, Consume(v) PROVE TypeOK'
  <2>1. RowsKept /\ checking[v].pc = "matched"
    BY <1>13, TableConsume
  <2>2. Rest'
    BY <1>2, <1>13 DEF Consume
  <2>3. checking[v] \in Check /\ checking[v].row \in 0..Len(table) /\ checking[v].row # 0
    BY <2>1, CheckedRow DEF TypeOK
  <2>4. CASE checking' = [checking EXCEPT ![v].pc = "consumed"]
    <3> DEFINE c == [checking[v] EXCEPT !.pc = "consumed"]
    <3>1. c \in Check /\ c.row = checking[v].row
      BY <2>3, CheckFields
    <3>2. checking' = [checking EXCEPT ![v] = c]
      BY <2>4
    <3> HIDE DEF c
    <3>3. ChecksOK'
      BY <2>1, <2>3, <3>1, <3>2, ChecksMove
    <3> QED BY <1>1, <1>3, <2>1, <2>2, <3>3
  <2>5. CASE checking' = [checking EXCEPT ![v] = NoCheck]
    BY <1>11, <2>1, <2>2, <2>5
  <2> QED BY <1>13, <2>4, <2>5, TableConsume
<1>14. ASSUME NEW v \in Verifications, SignIn(v) PROVE TypeOK'
  <2>1. RowsKept /\ checking' = [checking EXCEPT ![v] = NoCheck]
    BY <1>4, <1>14 DEF SignIn
  <2>2. checking[v].row \in 1..MaxCodes
    BY <1>14, CheckedRow DEF SignIn
  <2>3. tokens[checking[v].row] + 1 \in Nat
    BY <1>2, <2>2
  <2>4. tokens' \in [1..MaxCodes -> Nat]
    BY <1>2, <1>14, <2>3 DEF SignIn
  <2>5. Rest'
    BY <1>2, <1>14, <2>4 DEF SignIn
  <2> QED BY <1>11, <2>1, <2>5
<1>15. ASSUME NEW v \in Verifications, VerifyFails(v) PROVE TypeOK'
  <2>1. RowsKept /\ checking' = [checking EXCEPT ![v] = NoCheck]
    BY <1>4, <1>15 DEF VerifyFails
  <2>2. Rest'
    BY <1>2, <1>5, <1>15 DEF VerifyFails
  <2> QED BY <1>11, <2>1, <2>2
<1>16. ASSUME NEW i \in DOMAIN table, Expire(i) \/ Age(i) PROVE TypeOK'
  <2>1. RowsKept /\ UNCHANGED <<asking, checking, tokens, failures>>
    BY <1>16, TableAges DEF Expire, Age
  <2> QED BY <1>1, <1>2, <1>3, <2>1, ChecksUnchanged
<1>17. ASSUME Crash PROVE TypeOK'
  <2>1. RowsKept /\ checking' = [v \in Verifications |-> NoCheck]
    BY <1>4, <1>17 DEF Crash
  <2>2. Rest'
    BY <1>2, <1>5, <1>17 DEF Crash, AskingStep
  <2>3. ChecksOK'
    BY <2>1, ChecksReset
  <2> QED BY <1>1, <1>3, <2>1, <2>2, <2>3
<1>18. ASSUME UNCHANGED vars PROVE TypeOK'
  <2>1. RowsKept /\ UNCHANGED <<asking, checking, tokens, failures>>
    BY <1>4, <1>18 DEF vars
  <2> QED BY <1>1, <1>2, <1>3, <2>1, ChecksUnchanged
<1> QED
  BY <1>6, <1>7, <1>8, <1>9, <1>10, <1>12, <1>13, <1>14, <1>15, <1>16, <1>17, <1>18
  DEF Next, RequestOTP, VerifyOTP

\* Every reachable state of the one-time codes is well typed.
THEOREM TypeCorrect == Spec => []TypeOK
BY TypeInit, TypeStep, PTL DEF Spec

-----------------------------------------------------------------------------
(* A code signs in once.                                                   *)

\* Consumed rows stay consumed, and rows stay.
Grows == \A i \in DOMAIN table :
            i \in DOMAIN table' /\ (table[i].consumed => table'[i].consumed)

LEMMA ConsumedKept ==
  ASSUME TypeOK, ConsumedInv, Grows, UNCHANGED tokens,
         \A v \in Verifications : checking'[v] = checking[v] \/ checking'[v].pc # "consumed"
  PROVE  ConsumedInv'
<1>1. ASSUME NEW v \in Verifications, checking'[v].pc = "consumed"
      PROVE  /\ checking'[v] = checking[v] /\ checking[v].pc = "consumed"
             /\ checking[v].row \in DOMAIN table
             /\ table'[checking'[v].row].consumed /\ tokens'[checking'[v].row] = 0
  <2>1. checking'[v] = checking[v] /\ checking[v].pc = "consumed"
    BY <1>1
  <2>2. checking[v].row \in DOMAIN table
    BY <2>1, CheckedRow
  <2>3. table[checking[v].row].consumed /\ tokens[checking[v].row] = 0
    BY <2>1 DEF ConsumedInv
  <2> QED BY <2>1, <2>2, <2>3 DEF Grows
<1>2. ASSUME NEW v \in Verifications, NEW w \in Verifications,
             checking'[v].pc = "consumed", checking'[w] = checking'[v]
      PROVE  v = w
  <2>1. checking[v].pc = "consumed" /\ checking[w] = checking[v]
    BY <1>1, <1>2
  <2> QED BY <2>1 DEF ConsumedInv
<1>3. \A i \in 1..MaxCodes : tokens'[i] > 0 => i \in DOMAIN table' /\ table'[i].consumed
  BY DEF ConsumedInv, Grows
<1>4. \A i \in 1..MaxCodes : tokens'[i] <= 1
  BY DEF ConsumedInv
<1> QED BY <1>1, <1>2, <1>3, <1>4 DEF ConsumedInv

LEMMA RowsGrow == RowsKept => Grows
BY DEF RowsKept, Grows

\* No token was minted for a row that is not consumed, nor will be by another.
LEMMA ConsumedByOne ==
  ASSUME TypeOK, ConsumedInv, NEW v \in Verifications, Consume(v)
  PROVE  ConsumedInv'
<1> DEFINE i == checking[v].row
<1>1. /\ RowsKept /\ checking[v].pc = "matched" /\ i \in DOMAIN table
      /\ i \in 1..MaxCodes /\ UNCHANGED tokens /\ checking[v] \in Check
  BY TableConsume, CheckedRow DEF Consume
<1>2. CASE checking' = [checking EXCEPT ![v] = NoCheck]
  <2>1. \A w \in Verifications : checking'[w] = checking[w] \/ checking'[w].pc # "consumed"
    BY <1>2, NoCheckType DEF TypeOK
  <2> QED BY <1>1, <2>1, RowsGrow, ConsumedKept
<1>3. CASE /\ checking' = [checking EXCEPT ![v].pc = "consumed"]
           /\ ~table[i].consumed /\ table'[i].consumed
  <2>1. /\ checking'[v].pc = "consumed" /\ checking'[v].row = i
        /\ \A w \in Verifications : w # v => checking'[w] = checking[w]
    BY <1>1, <1>3, CheckFields DEF TypeOK
  <2>2. \A w \in Verifications :
           checking[w].pc = "consumed" =>
              checking[w].row \in DOMAIN table /\ checking[w].row # i
    BY <1>3, CheckedRow DEF ConsumedInv
  <2>3. tokens[i] = 0
    <3>1. tokens[i] \in Nat
      BY <1>1 DEF TypeOK
    <3>2. ~(tokens[i] > 0)
      BY <1>1, <1>3 DEF ConsumedInv
    <3> QED BY <3>1, <3>2
  <2>4. ASSUME NEW w \in Verifications, checking'[w].pc = "consumed"
        PROVE  table'[checking'[w].row].consumed /\ tokens'[checking'[w].row] = 0
    <3>1. CASE w = v
      BY <1>1, <1>3, <2>1, <2>3, <3>1
    <3>2. CASE w # v
      <4>1. checking'[w] = checking[w] /\ checking[w].pc = "consumed"
        BY <2>1, <2>4, <3>2
      <4>2. /\ table[checking[w].row].consumed /\ tokens[checking[w].row] = 0
            /\ checking[w].row \in DOMAIN table
        BY <2>2, <4>1 DEF ConsumedInv
      <4> QED BY <1>1, <4>1, <4>2 DEF RowsKept
    <3> QED BY <3>1, <3>2
  <2>5. ASSUME NEW w \in Verifications, NEW x \in Verifications,
               checking'[w].pc = "consumed", checking'[x] = checking'[w]
        PROVE  w = x
    <3>1. CASE w = v /\ x # v
      <4>1. checking[x].pc = "consumed" /\ checking[x].row = i
        BY <2>1, <2>5, <3>1
      <4> QED BY <2>2, <4>1
    <3>2. CASE w # v /\ x = v
      <4>1. checking[w].pc = "consumed" /\ checking[w].row = i
        BY <2>1, <2>5, <3>2
      <4> QED BY <2>2, <4>1
    <3>3. CASE w # v /\ x # v
      BY <2>1, <2>5, <3>3 DEF ConsumedInv
    <3> QED BY <3>1, <3>2, <3>3
  <2>6. \A j \in 1..MaxCodes : tokens'[j] > 0 => j \in DOMAIN table' /\ table'[j].consumed
    BY <1>1 DEF ConsumedInv, RowsKept
  <2>7. \A j \in 1..MaxCodes : tokens'[j] <= 1
    BY <1>1 DEF ConsumedInv
  <2> QED BY <2>4, <2>5, <2>6, <2>7 DEF ConsumedInv
<1> QED BY <1>1, <1>2, <1>3, TableConsume

\* The one call that holds a consumed code mints its only token.
LEMMA SignedInOnce ==
  ASSUME TypeOK, ConsumedInv, NEW v \in Verifications, SignIn(v)
  PROVE  ConsumedInv'
<1> DEFINE i == checking[v].row
<1>1. /\ checking[v].pc = "consumed" /\ UNCHANGED table
      /\ tokens' = [tokens EXCEPT ![i] = @ + 1]
      /\ checking' = [checking EXCEPT ![v] = NoCheck]
  BY DEF SignIn
<1>2. i \in DOMAIN table /\ i \in 1..MaxCodes
  BY <1>1, CheckedRow
<1>3. table[i].consumed /\ tokens[i] = 0
  BY <1>1 DEF ConsumedInv
<1>4. \A j \in 1..MaxCodes : tokens'[j] = IF j = i THEN 1 ELSE tokens[j]
  BY <1>1, <1>2, <1>3 DEF TypeOK
<1>5. \A w \in Verifications :
         checking'[w].pc = "consumed" => w # v /\ checking'[w] = checking[w]
  BY <1>1, NoCheckType DEF TypeOK
<1>6. ASSUME NEW w \in Verifications, checking'[w].pc = "consumed"
      PROVE  table'[checking'[w].row].consumed /\ tokens'[checking'[w].row] = 0
  <2>1. w # v /\ checking'[w] = checking[w] /\ checking[w].pc = "consumed"
    BY <1>5, <1>6
  <2>2. checking[w] # checking[v]
    BY <1>1, <2>1 DEF ConsumedInv
  <2>3. checking[w].row # i
    <3>1. checking[w] \in Check /\ checking[v] \in Check
      BY CheckedRow
    <3>2. checking[w] = [pc |-> "consumed", row |-> checking[w].row]
      BY <2>1, <3>1, CheckFields
    <3>3. checking[v] = [pc |-> "consumed", row |-> i]
      BY <1>1, <3>1, CheckFields
    <3> QED BY <2>2, <3>2, <3>3
  <2>4. checking[w].row \in 1..MaxCodes
    BY <2>1, CheckedRow
  <2>5. table[checking[w].row].consumed /\ tokens[checking[w].row] = 0
    BY <2>1 DEF ConsumedInv
  <2> QED BY <1>1, <1>4, <2>1, <2>3, <2>4, <2>5
<1>7. \A w, x \in Verifications :
         checking'[w].pc = "consumed" /\ checking'[x] = checking'[w] => w = x
  BY <1>5 DEF ConsumedInv
<1>8. \A j \in 1..MaxCodes : tokens'[j] > 0 => j \in DOMAIN table' /\ table'[j].consumed
  BY <1>1, <1>2, <1>3, <1>4 DEF ConsumedInv
<1>9. \A j \in 1..MaxCodes : tokens'[j] <= 1
  BY <1>4 DEF ConsumedInv
<1> QED BY <1>6, <1>7, <1>8, <1>9 DEF ConsumedInv

LEMMA ConsumedStep == TypeOK /\ ConsumedInv /\ [Next]_vars => ConsumedInv'
<1> SUFFICES ASSUME TypeOK, ConsumedInv, [Next]_vars PROVE ConsumedInv'
  OBVIOUS
<1>1. UNCHANGED table => Grows
  BY TableUnchanged, RowsGrow
<1>2. ASSUME NEW q \in Requests, RequestOTP(q) PROVE ConsumedInv'
  <2>1. UNCHANGED <<checking, tokens>>
    BY <1>2 DEF RequestOTP, Count, Invalidate, Store, Deliver, RequestFails
  <2>2. CASE Invalidate(q)
    BY <2>1, <2>2, TableInvalidate, RowsGrow, ConsumedKept
  <2>3. CASE Store(q)
    <3>1. Grows
      BY <2>3, TableStore DEF Grows
    <3> QED BY <2>1, <3>1, ConsumedKept
  <2>4. CASE UNCHANGED table
    BY <1>1, <2>1, <2>4, ConsumedKept
  <2> QED BY <1>2, <2>2, <2>3, <2>4 DEF RequestOTP, Count, Deliver, RequestFails
<1>3. ASSUME NEW v \in Verifications, Grows, UNCHANGED tokens,
             checking' = [checking EXCEPT ![v] = NoCheck]
      PROVE  ConsumedInv'
  <2>1. \A w \in Verifications : checking'[w] = checking[w] \/ checking'[w].pc # "consumed"
    BY <1>3, NoCheckType DEF TypeOK
  <2> QED BY <1>3, <2>1, ConsumedKept
<1>4. ASSUME NEW v \in Verifications, NEW i \in DOMAIN table, NEW right \in BOOLEAN,
             LookUp(v, i, right)
      PROVE  ConsumedInv'
  <2>1. \A w \in Verifications : checking'[w] = checking[w] \/ checking'[w].pc # "consumed"
    BY <1>4 DEF LookUp, TypeOK
  <2> QED BY <1>1, <1>4, <2>1, ConsumedKept DEF LookUp
<1>5. ASSUME NEW v \in Verifications, CountFailure(v) PROVE ConsumedInv'
  BY <1>3, <1>5, TableCountFailure, RowsGrow DEF CountFailure
<1>6. ASSUME NEW v \in Verifications, VerifyFails(v) PROVE ConsumedInv'
  BY <1>1, <1>3, <1>6 DEF VerifyFails
<1>7. ASSUME NEW i \in DOMAIN table, Expire(i) \/ Age(i) PROVE ConsumedInv'
  <2>1. Grows /\ UNCHANGED <<checking, tokens>>
    BY <1>7, TableAges, RowsGrow DEF Expire, Age
  <2> QED BY <2>1, ConsumedKept
<1>8. ASSUME Crash PROVE ConsumedInv'
  <2>1. \A w \in Verifications : checking'[w].pc # "consumed"
    BY <1>8, NoCheckType DEF Crash
  <2> QED BY <1>1, <1>8, <2>1, ConsumedKept DEF Crash
<1>9. ASSUME UNCHANGED vars PROVE ConsumedInv'
  BY <1>1, <1>9, ConsumedKept DEF vars
<1> QED
  BY <1>2, <1>4, <1>5, <1>6, <1>7, <1>8, <1>9, ConsumedByOne, SignedInOnce
  DEF Next, VerifyOTP

LEMMA ConsumedInit == Init => ConsumedInv
<1> SUFFICES ASSUME Init PROVE ConsumedInv
  OBVIOUS
<1>1. \A v \in Verifications : checking[v].pc # "consumed"
  BY NoCheckType DEF Init
<1>2. \A i \in 1..MaxCodes : tokens[i] = 0
  BY DEF Init
<1> QED BY <1>1, <1>2 DEF ConsumedInv

\* However many verifications of a code overlap, the conditional UPDATE lets
\* one of them mint a token (VerifyOTP).
THEOREM CodesSignInOnce == Spec => []CodeSignsInOnce
<1>1. ConsumedInv => CodeSignsInOnce
  BY DEF ConsumedInv, CodeSignsInOnce
<1> QED
  BY <1>1, TypeInit, TypeStep, ConsumedInit, ConsumedStep, PTL DEF Spec

-----------------------------------------------------------------------------
(* The limits on live codes and on codes per hour.                         *)

LEMMA FiniteParts ==
  ASSUME TypeOK
  PROVE  /\ IsFiniteSet(Live) /\ IsFiniteSet(Recent)
         /\ Cardinality(Live) \in Nat /\ Cardinality(Recent) \in Nat
<1>1. Len(table) \in Nat /\ DOMAIN table = 1..Len(table)
  BY TableType
<1>2. IsFiniteSet(DOMAIN table)
  BY <1>1, FS_Interval
<1>3. Live \subseteq DOMAIN table /\ Recent \subseteq DOMAIN table
  BY DEF Live, Recent
<1> QED BY <1>2, <1>3, PartSmaller

\* Sets of calls are finite, and no larger than the set of all calls.
LEMMA Callers ==
  ASSUME NEW Q, Q \subseteq Requests
  PROVE  /\ IsFiniteSet(Q) /\ Cardinality(Q) \in Nat
         /\ Cardinality(Requests) \in Nat /\ Cardinality(Q) <= Cardinality(Requests)
BY CodesAssumption, PartSmaller

\* A row that stays live was live, and one that stays recent was recent.
LEMMA RowsShrink == TypeOK /\ RowsKept => Live' \subseteq Live /\ Recent' \subseteq Recent
BY DEF RowsKept, Live, Recent

\* What a step does to the requests between their statements.
LEMMA RequestsShrink ==
  ASSUME TypeOK, NEW q \in Requests, NEW s \in {"idle", "stored"},
         asking' = [asking EXCEPT ![q] = s]
  PROVE  Storing' = Storing \ {q} /\ Counted' = Counted \ {q}
BY DEF TypeOK, Storing, Counted

LEMMA StoredRow ==
  ASSUME TypeOK, NEW q \in Requests, Store(q)
  PROVE  /\ q \in Storing /\ q \in Counted
         /\ Storing' = Storing \ {q} /\ Counted' = Counted \ {q}
         /\ Len(table) + 1 \notin Live /\ Live' = Live \cup {Len(table) + 1}
         /\ Len(table) + 1 \notin Recent /\ Recent' = Recent \cup {Len(table) + 1}
<1>1. q \in Storing /\ q \in Counted
  BY DEF Store, Storing, Counted
<1>2. Storing' = Storing \ {q} /\ Counted' = Counted \ {q}
  BY RequestsShrink DEF Store
<1> DEFINE n == Len(table) + 1
<1>3. /\ DOMAIN table' = DOMAIN table \cup {n} /\ n \notin DOMAIN table
      /\ \A i \in DOMAIN table : table'[i] = table[i]
      /\ ~table'[n].consumed /\ table'[n].recent
  <2>1. ~NewRow.consumed /\ NewRow.recent
    BY DEF NewRow
  <2>2. /\ DOMAIN table' = DOMAIN table \cup {n} /\ n \notin DOMAIN table
        /\ \A i \in DOMAIN table : table'[i] = table[i]
        /\ table'[n] = NewRow
    BY TableStore
  <2> QED BY <2>1, <2>2
<1> HIDE DEF n
<1>4. n \notin Live /\ Live' = Live \cup {n}
  BY <1>3 DEF Live
<1>5. n \notin Recent /\ Recent' = Recent \cup {n}
  BY <1>3 DEF Recent
<1> QED BY <1>1, <1>2, <1>4, <1>5 DEF n

\* Fewer of each keeps a sum of two cardinalities below its bound.
LEMMA SumKept ==
  ASSUME NEW A, IsFiniteSet(A), NEW B, IsFiniteSet(B),
         NEW A1, A1 \subseteq A, NEW B1, B1 \subseteq B
  PROVE  /\ Cardinality(A) + Cardinality(B) \in Nat
         /\ Cardinality(A1) + Cardinality(B1) \in Nat
         /\ Cardinality(A1) + Cardinality(B1) <= Cardinality(A) + Cardinality(B)
<1>1. /\ Cardinality(A) \in Nat /\ Cardinality(A1) \in Nat
      /\ Cardinality(A1) <= Cardinality(A)
  BY PartSmaller
<1>2. /\ Cardinality(B) \in Nat /\ Cardinality(B1) \in Nat
      /\ Cardinality(B1) <= Cardinality(B)
  BY PartSmaller
<1> QED BY <1>1, <1>2

\* One member moves from a set to another.
LEMMA SumMoved ==
  ASSUME NEW A, IsFiniteSet(A), NEW B, IsFiniteSet(B), NEW a, a \notin A, NEW b \in B
  PROVE  Cardinality(A \cup {a}) + Cardinality(B \ {b}) = Cardinality(A) + Cardinality(B)
<1>1. Cardinality(A \cup {a}) = Cardinality(A) + 1
  BY FS_AddElement
<1>2. Cardinality(B \ {b}) = Cardinality(B) - 1
  BY FS_RemoveElement
<1>3. Cardinality(A) \in Nat /\ Cardinality(B) \in Nat
  BY FS_CardinalityType
<1> QED BY <1>1, <1>2, <1>3

LEMMA LiveKept ==
  ASSUME TypeOK, LiveInv, Live' \subseteq Live, Storing' \subseteq Storing
  PROVE  LiveInv'
<1>1. IsFiniteSet(Live) /\ IsFiniteSet(Storing) /\ Cardinality(Requests) \in Nat
  BY FiniteParts, Callers DEF Storing
<1>2. /\ Cardinality(Live) + Cardinality(Storing) \in Nat
      /\ Cardinality(Live') + Cardinality(Storing') \in Nat
      /\ Cardinality(Live') + Cardinality(Storing') <= Cardinality(Live) + Cardinality(Storing)
  BY <1>1, SumKept
<1> QED BY <1>1, <1>2 DEF LiveInv

LEMMA HourKept ==
  ASSUME TypeOK, HourInv, Recent' \subseteq Recent, Counted' \subseteq Counted
  PROVE  HourInv'
<1>1. IsFiniteSet(Recent) /\ IsFiniteSet(Counted) /\ Cardinality(Requests) \in Nat
  BY FiniteParts, Callers DEF Counted
<1>2. /\ Cardinality(Recent) + Cardinality(Counted) \in Nat
      /\ Cardinality(Recent') + Cardinality(Counted') \in Nat
      /\ Cardinality(Recent') + Cardinality(Counted') <= Cardinality(Recent) + Cardinality(Counted)
  BY <1>1, SumKept
<1> QED BY <1>1, <1>2, CodesAssumption DEF HourInv

\* A request that passed the limit: the others count as much as they can.
LEMMA HourCount ==
  ASSUME TypeOK, HourInv, NEW q \in Requests, Count(q)
  PROVE  HourInv'
<1>1. Cardinality(Recent) < otpMaxPerHour /\ Recent' = Recent
  BY DEF Count, Recent
<1>2. Counted' \subseteq Requests
  BY DEF Counted
<1>3. Cardinality(Counted') \in Nat /\ Cardinality(Requests) \in Nat
      /\ Cardinality(Counted') <= Cardinality(Requests)
  BY <1>2, Callers
<1>4. Cardinality(Recent) \in Nat /\ otpMaxPerHour \in Nat
  BY FiniteParts, CodesAssumption
<1>5. Cardinality(Recent) + Cardinality(Counted') < otpMaxPerHour + Cardinality(Requests)
  BY <1>1, <1>3, <1>4
<1> QED BY <1>1, <1>5 DEF HourInv

LEMMA LimitsStep ==
  ASSUME TypeOK, LiveInv, HourInv, [Next]_vars
  PROVE  LiveInv' /\ HourInv'
<1>1. ASSUME RowsKept, Storing' \subseteq Storing, Counted' \subseteq Counted
      PROVE  LiveInv' /\ HourInv'
  BY <1>1, RowsShrink, LiveKept, HourKept
<1>2. UNCHANGED table => RowsKept
  BY TableUnchanged
<1>3. UNCHANGED asking => Storing' = Storing /\ Counted' = Counted
  BY DEF Storing, Counted
<1>4. ASSUME NEW q \in Requests, Count(q) PROVE LiveInv' /\ HourInv'
  <2>1. Storing' \subseteq Storing
    BY <1>4 DEF Count, Storing, TypeOK
  <2>2. Live' \subseteq Live
    BY <1>2, <1>4, RowsShrink DEF Count
  <2> QED BY <1>4, <2>1, <2>2, LiveKept, HourCount
<1>5. ASSUME NEW q \in Requests, Invalidate(q) PROVE LiveInv' /\ HourInv'
  <2>1. Counted' \subseteq Counted
    BY <1>5 DEF Invalidate, Counted, TypeOK
  <2>2. Recent' \subseteq Recent
    BY <1>5, TableInvalidate, RowsShrink
  <2>3. Live' = {}
    BY <1>5, TableInvalidate DEF Live, RowsKept
  <2>4. Cardinality(Live') = 0
    BY <2>3, FS_EmptySet
  <2>5. Storing' \subseteq Requests
    BY DEF Storing
  <2>6. /\ Cardinality(Storing') \in Nat /\ Cardinality(Requests) \in Nat
        /\ Cardinality(Storing') <= Cardinality(Requests)
    BY <2>5, Callers
  <2>7. Cardinality(Live') + Cardinality(Storing') <= Cardinality(Requests)
    BY <2>4, <2>6
  <2>8. LiveInv'
    BY <2>7 DEF LiveInv
  <2> QED BY <2>1, <2>2, <2>8, HourKept
<1>6. ASSUME NEW q \in Requests, Store(q) PROVE LiveInv' /\ HourInv'
  <2>1. /\ IsFiniteSet(Live) /\ IsFiniteSet(Recent)
        /\ IsFiniteSet(Storing) /\ IsFiniteSet(Counted)
    BY FiniteParts, Callers DEF Storing, Counted
  <2>2. /\ Cardinality(Live') + Cardinality(Storing') = Cardinality(Live) + Cardinality(Storing)
        /\ Cardinality(Recent') + Cardinality(Counted') = Cardinality(Recent) + Cardinality(Counted)
    BY <1>6, <2>1, StoredRow, SumMoved
  <2> QED BY <2>2 DEF LiveInv, HourInv
<1>7. ASSUME NEW q \in Requests, Deliver(q) \/ RequestFails(q) PROVE LiveInv' /\ HourInv'
  <2>1. asking' = [asking EXCEPT ![q] = "idle"] /\ UNCHANGED table
    BY <1>7 DEF Deliver, RequestFails
  <2> QED BY <1>1, <1>2, <2>1, RequestsShrink
<1>8. ASSUME NEW v \in Verifications, VerifyOTP(v) PROVE LiveInv' /\ HourInv'
  <2>1. UNCHANGED asking
    BY <1>8 DEF VerifyOTP, LookUp, CountFailure, Consume, SignIn, VerifyFails
  <2>2. RowsKept
    <3>1. CountFailure(v) \/ Consume(v) \/ UNCHANGED table
      BY <1>8 DEF VerifyOTP, LookUp, SignIn, VerifyFails
    <3> QED BY <1>2, <3>1, TableCountFailure, TableConsume
  <2> QED BY <1>1, <1>3, <2>1, <2>2
<1>9. ASSUME NEW i \in DOMAIN table, Expire(i) \/ Age(i) PROVE LiveInv' /\ HourInv'
  BY <1>1, <1>3, <1>9, TableAges DEF Expire, Age
<1>10. ASSUME Crash PROVE LiveInv' /\ HourInv'
  <2>1. Storing' = {} /\ Counted' = {}
    BY <1>10 DEF Crash, Storing, Counted
  <2> QED BY <1>1, <1>2, <1>10, <2>1 DEF Crash
<1>11. ASSUME UNCHANGED vars PROVE LiveInv' /\ HourInv'
  BY <1>1, <1>2, <1>3, <1>11 DEF vars
<1> QED
  BY <1>4, <1>5, <1>6, <1>7, <1>8, <1>9, <1>10, <1>11 DEF Next, RequestOTP

LEMMA LimitsInit == Init => LiveInv /\ HourInv
<1> SUFFICES ASSUME Init PROVE LiveInv /\ HourInv
  OBVIOUS
<1>1. Live = {} /\ Recent = {} /\ Storing = {} /\ Counted = {}
  BY EmptySeq DEF Init, Live, Recent, Storing, Counted
<1>2. Cardinality({}) = 0
  BY FS_EmptySet
<1>3. Cardinality(Requests) \in Nat
  BY CodesAssumption, FS_CardinalityType
<1>4. otpMaxPerHour \in Nat /\ otpMaxPerHour > 0
  BY CodesAssumption
<1>5. 0 + 0 <= Cardinality(Requests) /\ 0 + 0 < otpMaxPerHour + Cardinality(Requests)
  BY <1>3, <1>4
<1> QED BY <1>1, <1>2, <1>5 DEF LiveInv, HourInv

\* Two live codes need two requests that overlapped between the UPDATE that
\* invalidates and the INSERT (RequestOTP), for any number of requests.
THEOREM LiveCodesLimited == Spec => []LiveCodesOverlapped
<1>1. TypeOK /\ LiveInv => LiveCodesOverlapped
  <2> SUFFICES ASSUME TypeOK, LiveInv PROVE LiveCodesOverlapped
    OBVIOUS
  <2>1. Cardinality(Live) \in Nat /\ Cardinality(Storing) \in Nat /\ Cardinality(Requests) \in Nat
    BY FiniteParts, Callers DEF Storing
  <2> QED BY <2>1 DEF LiveInv, LiveCodesOverlapped
<1>2. TypeOK /\ (LiveInv /\ HourInv) /\ [Next]_vars => (LiveInv /\ HourInv)'
  BY LimitsStep
<1> QED
  BY <1>1, <1>2, TypeInit, TypeStep, LimitsInit, PTL DEF Spec

\* The hourly limit is passed only by requests that read the count together.
THEOREM HourlyCodesLimited == Spec => []CodesPerHourAreLimited
<1>1. TypeOK /\ HourInv => CodesPerHourAreLimited
  <2> SUFFICES ASSUME TypeOK, HourInv PROVE CodesPerHourAreLimited
    OBVIOUS
  <2>1. /\ Cardinality(Recent) \in Nat /\ Cardinality(Counted) \in Nat
        /\ Cardinality(Requests) \in Nat /\ otpMaxPerHour \in Nat
    BY FiniteParts, Callers, CodesAssumption DEF Counted
  <2> QED BY <2>1 DEF HourInv, CodesPerHourAreLimited
<1>2. TypeOK /\ (LiveInv /\ HourInv) /\ [Next]_vars => (LiveInv /\ HourInv)'
  BY LimitsStep
<1> QED
  BY <1>1, <1>2, TypeInit, TypeStep, LimitsInit, PTL DEF Spec

-----------------------------------------------------------------------------
(* The limit on attempts.                                                  *)

LEMMA Mismatchers ==
  ASSUME NEW M, M \subseteq Verifications
  PROVE  /\ IsFiniteSet(M) /\ Cardinality(M) \in Nat
         /\ Cardinality(Verifications) \in Nat
         /\ Cardinality(M) <= Cardinality(Verifications)
BY CodesAssumption, PartSmaller

\* The bound of one row, as AttemptInv states it.
Bounded(i) ==
  table[i].attempts + Cardinality(Mismatching(i))
     < otpMaxAttempts + Cardinality(Verifications)

\* A row with no more attempts and no more verifications that will count one.
LEMMA RowBounded ==
  ASSUME TypeOK, AttemptInv, NEW i \in DOMAIN table, table'[i].attempts = table[i].attempts,
         Mismatching(i)' \subseteq Mismatching(i)
  PROVE  Bounded(i)'
<1>1. Bounded(i)
  BY DEF AttemptInv, Bounded
<1>2. Mismatching(i) \subseteq Verifications
  BY DEF Mismatching
<1>3. /\ IsFiniteSet(Mismatching(i)) /\ Cardinality(Mismatching(i)) \in Nat
      /\ Cardinality(Verifications) \in Nat
  BY <1>2, Mismatchers
<1>4. /\ Cardinality(Mismatching(i)') \in Nat
      /\ Cardinality(Mismatching(i)') <= Cardinality(Mismatching(i))
  BY <1>3, PartSmaller
<1>5. table[i].attempts \in Nat /\ otpMaxAttempts \in Nat
  BY TableType, RowFields, CodesAssumption
<1>6. table[i].attempts + Cardinality(Mismatching(i)')
         < otpMaxAttempts + Cardinality(Verifications)
  BY <1>1, <1>3, <1>4, <1>5 DEF Bounded
<1> QED BY <1>6 DEF Bounded

\* A row whose attempts are below the limit: all verifications may count one.
LEMMA RowBelow ==
  ASSUME NEW i, table'[i].attempts \in Nat, table'[i].attempts < otpMaxAttempts
  PROVE  Bounded(i)'
<1>1. Mismatching(i)' \subseteq Verifications
  BY DEF Mismatching
<1>2. /\ Cardinality(Mismatching(i)') \in Nat /\ Cardinality(Verifications) \in Nat
      /\ Cardinality(Mismatching(i)') <= Cardinality(Verifications)
  BY <1>1, Mismatchers
<1>3. otpMaxAttempts \in Nat
  BY CodesAssumption
<1>4. table'[i].attempts + Cardinality(Mismatching(i)')
         < otpMaxAttempts + Cardinality(Verifications)
  BY <1>2, <1>3
<1> QED BY <1>4 DEF Bounded

\* A verification that ends counts for no row any more.
LEMMA EndedCheck ==
  ASSUME TypeOK, NEW v \in Verifications, checking' = [checking EXCEPT ![v] = NoCheck],
         NEW i
  PROVE  Mismatching(i)' = Mismatching(i) \ {v}
<1>1. \A w \in Verifications : checking'[w] = IF w = v THEN NoCheck ELSE checking[w]
  BY DEF TypeOK
<1>2. NoCheck # [pc |-> "mismatched", row |-> i]
  BY DEF NoCheck
<1> QED BY <1>1, <1>2 DEF Mismatching

\* The attempt a verification adds was reserved while it held the row.
LEMMA AttemptCounted ==
  ASSUME TypeOK, AttemptInv, NEW v \in Verifications, CountFailure(v)
  PROVE  AttemptInv'
<1>0. checking[v].row \in DOMAIN table
  BY TableCountFailure
<1>. PICK i \in DOMAIN table : i = checking[v].row
  BY <1>0
<1>1. /\ RowsKept
      /\ \A j \in DOMAIN table : j # i => table'[j].attempts = table[j].attempts
      /\ \/ table'[i].attempts = table[i].attempts + 1
         \/ table'[i].attempts = table[i].attempts
  BY TableCountFailure
<1>2. checking[v].pc = "mismatched" /\ checking' = [checking EXCEPT ![v] = NoCheck]
  BY DEF CountFailure
<1>3. \A j : Mismatching(j)' = Mismatching(j) \ {v}
  BY <1>2, EndedCheck
<1>4. \A j \in DOMAIN table : j # i => Bounded(j)'
  BY <1>1, <1>3, RowBounded
<1>5. Bounded(i)'
  <2>1. v \in Mismatching(i)
    <3>1. checking[v] = [pc |-> "mismatched", row |-> i]
      BY <1>2, CheckedRow, CheckFields
    <3> QED BY <3>1 DEF Mismatching
  <2>2. Mismatching(i) \subseteq Verifications
    BY DEF Mismatching
  <2>3. /\ IsFiniteSet(Mismatching(i)) /\ Cardinality(Mismatching(i)) \in Nat
        /\ Cardinality(Verifications) \in Nat
    BY <2>2, Mismatchers
  <2>4. Cardinality(Mismatching(i) \ {v}) = Cardinality(Mismatching(i)) - 1
    BY <2>1, <2>3, FS_RemoveElement
  <2>5. table[i].attempts \in Nat /\ otpMaxAttempts \in Nat
    BY TableType, RowFields, CodesAssumption
  <2>6. Bounded(i)
    BY DEF AttemptInv, Bounded
  <2>7. Cardinality(Mismatching(i)') = Cardinality(Mismatching(i)) - 1
    BY <1>3, <2>4
  <2>8. table'[i].attempts + Cardinality(Mismatching(i)')
           < otpMaxAttempts + Cardinality(Verifications)
    BY <1>1, <2>3, <2>5, <2>6, <2>7 DEF Bounded
  <2> QED BY <2>8 DEF Bounded
<1>6. DOMAIN table' = DOMAIN table
  BY <1>1 DEF RowsKept
<1> QED BY <1>4, <1>5, <1>6 DEF AttemptInv, Bounded

LEMMA AttemptKept ==
  ASSUME TypeOK, AttemptInv, RowsKept, AttemptsKept,
         \A i \in DOMAIN table : Mismatching(i)' \subseteq Mismatching(i)
  PROVE  AttemptInv'
<1>1. \A i \in DOMAIN table : Bounded(i)'
  BY RowBounded DEF AttemptsKept
<1> QED BY <1>1 DEF AttemptInv, Bounded, RowsKept

LEMMA AttemptStep == TypeOK /\ AttemptInv /\ [Next]_vars => AttemptInv'
<1> SUFFICES ASSUME TypeOK, AttemptInv, [Next]_vars PROVE AttemptInv'
  OBVIOUS
<1>1. UNCHANGED table => RowsKept /\ AttemptsKept
  BY TableUnchanged
<1>2. UNCHANGED checking => \A i : Mismatching(i)' = Mismatching(i)
  BY DEF Mismatching
<1>3. ASSUME NEW q \in Requests, RequestOTP(q) PROVE AttemptInv'
  <2>1. UNCHANGED checking
    BY <1>3 DEF RequestOTP, Count, Invalidate, Store, Deliver, RequestFails
  <2>2. CASE Invalidate(q)
    BY <1>2, <2>1, <2>2, TableInvalidate, AttemptKept
  <2>3. CASE Store(q)
    <3>. PICK n \in Nat : n = Len(table) + 1
      BY TableType
    <3>1. /\ DOMAIN table' = DOMAIN table \cup {n}
          /\ \A i \in DOMAIN table : table'[i] = table[i]
          /\ table'[n] = NewRow
      BY <2>3, TableStore
    <3>2. NewRow.attempts = 0
      BY DEF NewRow
    <3>3. otpMaxAttempts \in Nat /\ 0 < otpMaxAttempts
      BY CodesAssumption
    <3>4. Bounded(n)'
      BY <3>1, <3>2, <3>3, RowBelow
    <3>5. \A i \in DOMAIN table : Bounded(i)'
      BY <1>2, <2>1, <3>1, RowBounded
    <3> QED BY <3>1, <3>4, <3>5 DEF AttemptInv, Bounded
  <2>4. CASE UNCHANGED table
    BY <1>1, <1>2, <2>1, <2>4, AttemptKept
  <2> QED BY <1>3, <2>2, <2>3, <2>4 DEF RequestOTP, Count, Deliver, RequestFails
<1>4. ASSUME NEW v \in Verifications, NEW i \in DOMAIN table, NEW right \in BOOLEAN,
             LookUp(v, i, right)
      PROVE  AttemptInv'
  <2>1. /\ UNCHANGED table /\ table[i].attempts < otpMaxAttempts
        /\ \A w \in Verifications : w # v => checking'[w] = checking[w]
        /\ checking'[v].row = i
    BY <1>4 DEF LookUp, TypeOK
  <2>2. ASSUME NEW j \in DOMAIN table, j # i PROVE Mismatching(j)' \subseteq Mismatching(j)
    BY <2>1, <2>2 DEF Mismatching
  <2>3. \A j \in DOMAIN table : j # i => Bounded(j)'
    BY <2>1, <2>2, RowBounded
  <2>4. table[i].attempts \in Nat
    BY TableType, RowFields
  <2>5. Bounded(i)'
    BY <2>1, <2>4, RowBelow
  <2> QED BY <2>1, <2>3, <2>5 DEF AttemptInv, Bounded
<1>5. ASSUME NEW v \in Verifications, Consume(v) PROVE AttemptInv'
  <2>1. RowsKept /\ AttemptsKept
    BY <1>5, TableConsume
  <2>2. CASE checking' = [checking EXCEPT ![v] = NoCheck]
    BY <2>1, <2>2, EndedCheck, AttemptKept
  <2>3. CASE checking' = [checking EXCEPT ![v].pc = "consumed"]
    <3>1. /\ checking'[v].pc = "consumed"
          /\ \A w \in Verifications : w # v => checking'[w] = checking[w]
      BY <2>3, CheckedRow, CheckFields DEF TypeOK
    <3>2. \A i \in DOMAIN table : Mismatching(i)' \subseteq Mismatching(i)
      BY <3>1 DEF Mismatching
    <3> QED BY <2>1, <3>2, AttemptKept
  <2> QED BY <1>5, <2>2, <2>3, TableConsume
<1>6. ASSUME NEW v \in Verifications, SignIn(v) \/ VerifyFails(v) PROVE AttemptInv'
  <2>1. UNCHANGED table /\ checking' = [checking EXCEPT ![v] = NoCheck]
    BY <1>6 DEF SignIn, VerifyFails
  <2> QED BY <1>1, <2>1, EndedCheck, AttemptKept
<1>7. ASSUME NEW i \in DOMAIN table, Expire(i) \/ Age(i) PROVE AttemptInv'
  BY <1>2, <1>7, TableAges, AttemptKept DEF Expire, Age
<1>8. ASSUME Crash PROVE AttemptInv'
  <2>1. UNCHANGED table /\ \A v \in Verifications : checking'[v].pc = "idle"
    BY <1>8, NoCheckType DEF Crash
  <2>2. \A i \in DOMAIN table : Mismatching(i)' \subseteq Mismatching(i)
    BY <2>1 DEF Mismatching
  <2> QED BY <1>1, <2>1, <2>2, AttemptKept
<1>9. ASSUME UNCHANGED vars PROVE AttemptInv'
  BY <1>1, <1>2, <1>9, AttemptKept DEF vars
<1> QED
  BY <1>3, <1>4, <1>5, <1>6, <1>7, <1>8, <1>9, AttemptCounted DEF Next, VerifyOTP

\* Attempts beyond the limit were all counted by verifications that read the
\* row before the limit was reached (VerifyOTP), for any number of them.
THEOREM AttemptsLimited == Spec => []AttemptsAreLimited
<1>1. Init => AttemptInv
  BY EmptySeq DEF Init, AttemptInv
<1>2. TypeOK /\ AttemptInv => AttemptsAreLimited
  <2> SUFFICES ASSUME TypeOK, AttemptInv, NEW i \in DOMAIN table
               PROVE  table[i].attempts < otpMaxAttempts + Cardinality(Verifications)
    BY DEF AttemptsAreLimited
  <2>1. Mismatching(i) \subseteq Verifications
    BY DEF Mismatching
  <2>2. Cardinality(Mismatching(i)) \in Nat /\ Cardinality(Verifications) \in Nat
    BY <2>1, Mismatchers
  <2>3. table[i].attempts \in Nat /\ otpMaxAttempts \in Nat
    BY TableType, RowFields, CodesAssumption
  <2> QED BY <2>2, <2>3 DEF AttemptInv
<1> QED
  BY <1>1, <1>2, TypeInit, TypeStep, AttemptStep, PTL DEF Spec
=============================================================================
