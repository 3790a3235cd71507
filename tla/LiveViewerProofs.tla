-------------------------- MODULE LiveViewerProofs --------------------------
(***************************************************************************)
(* Proofs about LiveViewer: for any number of pages, runs and records, one *)
(* runner at most is alive and it is the one the dashboard shows, the      *)
(* store is the log of the run, and a page shows the records of the runs   *)
(* in their order.                                                         *)
(***************************************************************************)
EXTENDS LiveViewer, FiniteSetTheorems, SequenceTheorems, WellFoundedInduction, TLAPS

----------------------------------------------------------------------------
(* The inductive invariant.                                                *)

\* What a runner has written at offset i.
LogCell(r, i) == [run |-> r, rec |-> (i + 1) \div 2, end |-> i % 2 = 0]

\* A run not started yet has no process, the last one started has one; a process that
\* has not opened the log has written nothing, and one that succeeded whole lines.
RunnersInv ==
    /\ \A r \in Runs :
        /\ r > starts => runner[r] = "absent"
        /\ (r > starts \/ runner[r] = "starting") => written[r] = 0
        /\ runner[r] = "succeeded" => written[r] % 2 = 0
        /\ (r # starts /\ ~overlap) => ~Alive(r)
    /\ starts > 0 => runner[starts] # "absent"

\* Whoever writes the log, what was read of it is in the store, two cells a record, or
\* in the retained tail; the last read may have taken one cell for a record.
ReaderInv ==
    /\ Len(file) <= 2 * MaxRecords
    /\ \/ 2 * Len(store) + Len(pending) = offset
       \/ state # "running" /\ pending = << >> /\ 2 * Len(store) = offset + 1
    /\ starts = 0 => file = <<>> /\ offset = 0

\* With one writer the log is that of the last run, and it is read from its start on.
LogInv ==
    (~overlap /\ starts > 0) =>
        /\ Len(file) = written[starts] /\ offset <= Len(file) /\ Len(pending) <= 1
        /\ \A i \in DOMAIN file : file[i] = LogCell(starts, i)
        /\ \A i \in DOMAIN pending : pending[i] = LogCell(starts, 2 * Len(store) + i)
        /\ \A n \in DOMAIN store : store[n] = <<starts, n>>

\* The state is that of the last run's process; only a read that failed can hide one
\* that lives.
StateInv ==
    /\ current \in {0, starts}
    /\ state = "running" => current = starts /\ starts > 0
    /\ \A th \in Threads : pc[th] = "exit" =>
          state = "running" /\ \A other \in Threads : pc[other] = "exit" => other = th
    /\ state = "completed" => starts > 0 /\ ~Alive(starts)
    /\ (state = "completed" /\ ~overlap) => offset = written[starts] /\ offset % 2 = 0
    /\ state = "idle" => starts = 0
    /\ faults = 0 => ~overlap /\ \A r \in Runs : Alive(r) => r = current /\ state = "running"
    /\ (state = "failed" /\ faults = 0) => starts > 0 /\ runner[starts] = "crashed"

\* A page shows an unbroken stretch of indices; what it asked for, and what it is
\* answered, goes on where it ends, unless the page was emptied since.
Asking(t) == pc[<<t, "poll">>] \in {"refresh", "exit", "answer"}
Answered(t) == pc[<<t, "poll">>] = "arrive"
IndexInv(t) ==
    /\ view[t] = << >> => cursor[t] = 0
    /\ \A k \in DOMAIN view[t] : view[t][k].index = cursor[t] - Len(view[t]) + k
    /\ Asking(t) => asked[t] = cursor[t] \/ view[t] = << >>
    /\ ~Answered(t) => reply[t] = << >>
    /\ reply[t] # << >> => reply[t][1].index = cursor[t] + 1 \/ view[t] = << >>
    /\ \A k \in DOMAIN reply[t] : reply[t][k].index = reply[t][1].index + k - 1

\* With one writer an event is the record of its index, an answer is of one run, and
\* what a page shows, with the answer behind it, never goes back to an earlier run.
RecordsInv(t) ==
    ~overlap =>
        /\ \A k \in DOMAIN view[t] :
              /\ view[t][k].record[2] = view[t][k].index /\ view[t][k].record[1] <= starts
              /\ k > 1 => view[t][k].record[1] >= view[t][k - 1].record[1]
        /\ \A k \in DOMAIN reply[t] :
              /\ reply[t][k].record[2] = reply[t][k].index
              /\ reply[t][k].record[1] = reply[t][1].record[1]
              /\ reply[t][k].record[1] <= starts
        /\ (reply[t] # << >> /\ view[t] # << >>) =>
              reply[t][1].record[1] >= view[t][Len(view[t])].record[1]

\* A page that starts no run is never emptied.
WatcherInv(t) ==
    /\ cursor[t] = Len(view[t])
    /\ Asking(t) => asked[t] = cursor[t]
    /\ reply[t] # << >> => reply[t][1].index = cursor[t] + 1

PageInv(t) == IndexInv(t) /\ RecordsInv(t) /\ (t \notin Starters => WatcherInv(t))

PagesInv ==
    /\ \A t \in Tabs : PageInv(t)
    /\ \A t \in Starters : pc[<<t, "start">>] # "answer"

IInv == TypeOK /\ RunnersInv /\ ReaderInv /\ LogInv /\ StateInv /\ PagesInv

----------------------------------------------------------------------------
(* Numbers and sets.                                                       *)

\* A nonempty set of numbers has a smallest member.
LEMMA SmallestExists ==
  ASSUME NEW T \in SUBSET Nat, T # {}
  PROVE  \E x \in T : \A y \in T : x <= y
<1> DEFINE below == {ss \in Nat \X Nat : ss[1] < ss[2]}
<1>1. IsWellFoundedOn(below, Nat)
  BY NatLessThanWellFounded DEF OpToRel
<1> HIDE DEF below
<1>2. PICK x \in T : \A y \in T : ~ (<<y, x>> \in below)
  BY <1>1, WFMin
<1>3. \A y \in T : <<y, x>> \in Nat \X Nat /\ ~ (<<y, x>>[1] < <<y, x>>[2])
  BY <1>2 DEF below
<1>4. \A y \in T : x <= y
  <2> TAKE y \in T
  <2>1. <<y, x>>[1] = y /\ <<y, x>>[2] = x
    OBVIOUS
  <2>2. ~ (y < x) /\ x \in Nat /\ y \in Nat
    BY <1>3, <2>1
  <2> QED BY <2>2
<1> QED BY <1>4

\* Numbers greater than one that go down by twos from a largest one are 2, 4, ... up to
\* twice their count.
LEMMA GoingDownByTwos ==
  ASSUME NEW L \in Nat, NEW E \in SUBSET (1 .. L),
         \A i \in E : i > 1 /\ (i > 2 => i - 2 \in E)
  PROVE  \E m \in Nat : 2 * m <= L /\ E = {2 * n : n \in 1 .. m} /\ Cardinality(E) = m
<1>0. \A i \in E : i \in Nat /\ L - i \in Nat
  OBVIOUS
<1>1. \A i \in E : \E n \in Nat : i = 2 * n
  <2> DEFINE odd == {i \in E : ~ \E n \in Nat : i = 2 * n}
  <2>1. SUFFICES ASSUME odd # {} PROVE FALSE
    OBVIOUS
  <2>2. PICK i \in odd : \A j \in odd : i <= j
    <3>1. odd \in SUBSET Nat
      BY <1>0
    <3> HIDE DEF odd
    <3> QED BY <2>1, <3>1, SmallestExists
  <2>3. i \in Nat /\ i > 2 /\ i - 2 \in E
    <3>1. i > 1 /\ i \in Nat /\ i # 2
      <4>1. 2 = 2 * 1
        OBVIOUS
      <4> QED BY <4>1
    <3> QED BY <3>1
  <2>4. PICK n \in Nat : i - 2 = 2 * n
    <3>1. i - 2 \notin odd
      BY <2>2, <2>3
    <3> QED BY <2>3, <3>1
  <2>5. i = 2 * (n + 1) /\ n + 1 \in Nat
    BY <2>3, <2>4
  <2> QED BY <2>5
<1>2. CASE E = {}
  <2>1. E = {2 * n : n \in 1 .. 0} /\ 2 * 0 <= L
    BY <1>2
  <2>2. Cardinality(E) = 0
    BY <1>2, FS_EmptySet
  <2> QED BY <2>1, <2>2
<1>3. CASE E # {}
  <2> DEFINE depths == {L - i : i \in E}
  <2>1. PICK last \in E : \A i \in E : i <= last
    <3>1. depths \in SUBSET Nat /\ depths # {}
      BY <1>0, <1>3
    <3>2. PICK d \in depths : \A e \in depths : d <= e
      <4> HIDE DEF depths
      <4> QED BY <3>1, SmallestExists
    <3>3. PICK last \in E : d = L - last
      BY <3>2
    <3>4. \A i \in E : i <= last
      <4> TAKE i \in E
      <4>1. L - last <= L - i
        BY <3>2, <3>3
      <4>2. i \in Nat /\ last \in Nat
        OBVIOUS
      <4> QED BY <4>1, <4>2
    <3> QED BY <3>4
  <2>2. PICK m \in Nat : last = 2 * m
    BY <1>1
  <2>3. ASSUME NEW k \in Nat, 2 * m - 2 * k > 1 PROVE 2 * m - 2 * k \in E
    <3> DEFINE gaps == {h \in Nat : 2 * m - 2 * h > 1 /\ 2 * m - 2 * h \notin E}
    <3>1. SUFFICES ASSUME gaps # {} PROVE FALSE
      BY <2>3
    <3>2. PICK h \in gaps : \A g \in gaps : h <= g
      <4>1. gaps \in SUBSET Nat
        OBVIOUS
      <4> HIDE DEF gaps
      <4> QED BY <3>1, <4>1, SmallestExists
    <3>3. h # 0
      BY <2>2, <3>2
    <3>4. h - 1 \in Nat /\ h - 1 \notin gaps
      BY <3>2, <3>3
    <3>5. 2 * m - 2 * (h - 1) > 2 /\ 2 * m - 2 * (h - 1) - 2 = 2 * m - 2 * h
      BY <3>2
    <3>6. 2 * m - 2 * (h - 1) \in E
      BY <3>4, <3>5
    <3>7. 2 * m - 2 * h \in E
      BY <3>5, <3>6
    <3> QED BY <3>2, <3>7
  <2>4. \A n \in 1 .. m : 2 * n \in E
    <3> TAKE n \in 1 .. m
    <3>1. m - n \in Nat /\ 2 * m - 2 * (m - n) = 2 * n /\ 2 * n > 1
      OBVIOUS
    <3> QED BY <3>1, <2>3
  <2>5. \A i \in E : \E n \in 1 .. m : i = 2 * n
    <3> TAKE i \in E
    <3>1. PICK n \in Nat : i = 2 * n
      BY <1>1
    <3>2. i > 1 /\ i <= 2 * m
      BY <2>1, <2>2
    <3>3. n \in 1 .. m
      BY <3>1, <3>2
    <3> QED BY <3>1, <3>3
  <2>6. E = {2 * n : n \in 1 .. m}
    BY <2>4, <2>5
  <2>7. Cardinality(E) = m
    <3> DEFINE f == [n \in 1 .. m |-> 2 * n]
    <3>1. \A n, k \in 1 .. m : 2 * n = 2 * k => n = k
      OBVIOUS
    <3>2. f \in Bijection(1 .. m, E)
      BY <2>4, <2>5, <3>1 DEF Bijection, Injection, Surjection, IsInjective
    <3>3. ExistsBijection(1 .. m, E)
      BY <3>2 DEF ExistsBijection
    <3>4. IsFiniteSet(1 .. m) /\ Cardinality(1 .. m) = m
      BY FS_Interval
    <3> QED BY <3>3, <3>4, FS_Bijection
  <2>8. 2 * m <= L
    BY <2>1, <2>2
  <2> QED BY <2>6, <2>7, <2>8
<1> QED BY <1>2, <1>3

----------------------------------------------------------------------------
(* What a poll of the log reads.                                           *)

\* The lengths of the sequences.
LEMMA LengthsAreTyped ==
  ASSUME TypeOK
  PROVE  /\ Len(file) \in Nat /\ Len(pending) \in Nat /\ Len(store) \in Nat
         /\ offset \in Nat /\ starts \in Nat /\ MaxRecords \in Nat
         /\ DOMAIN file = 1 .. Len(file) /\ DOMAIN pending = 1 .. Len(pending)
         /\ DOMAIN store = 1 .. Len(store)
BY LiveAssumption DEF TypeOK

\* What is left of a sequence behind its first k elements.
LEMMA TailOfASequence ==
  ASSUME NEW S, NEW s \in Seq(S), NEW k \in Nat, k <= Len(s)
  PROVE  /\ SubSeq(s, k + 1, Len(s)) \in Seq(S) /\ Len(SubSeq(s, k + 1, Len(s))) = Len(s) - k
         /\ \A i \in 1 .. Len(s) - k : SubSeq(s, k + 1, Len(s))[i] = s[k + i]
<1> DEFINE n == Len(s)
           t == SubSeq(s, k + 1, n)
<1>1. n \in Nat /\ \A i \in k + 1 .. n : s[i] \in S
  OBVIOUS
<1>2. k + 1 \in Int /\ n \in Int
  BY <1>1
<1> HIDE DEF n
<1>3. /\ t \in Seq(S) /\ Len(t) = IF k + 1 <= n THEN n - (k + 1) + 1 ELSE 0
      /\ \A i \in 1 .. n - (k + 1) + 1 : t[i] = s[k + 1 + i - 1]
  BY <1>1, <1>2, SubSeqProperties
<1> HIDE DEF t
<1>4. n - (k + 1) + 1 = n - k /\ k <= n
  BY <1>1 DEF n
<1>5. (IF k + 1 <= n THEN n - (k + 1) + 1 ELSE 0) = n - k
  BY <1>1, <1>4
<1>6. \A i \in 1 .. n - k : t[i] = s[k + i]
  <2> TAKE i \in 1 .. n - k
  <2>1. i \in 1 .. n - (k + 1) + 1 /\ k + 1 + i - 1 = k + i
    BY <1>1, <1>4
  <2> QED BY <2>1, <1>3
<1> QED BY <1>3, <1>5, <1>6 DEF n, t

\* Before a poll are the retained tail and, behind it, what was appended to the log.
LEMMA DataIsTyped ==
  ASSUME TypeOK, offset <= Len(file)
  PROVE  /\ Data \in Seq(Cell) /\ Len(Data) = Len(pending) + Len(file) - offset
         /\ Len(Data) \in Nat /\ DOMAIN Data = 1 .. Len(Data)
         /\ \A i \in 1 .. Len(Data) :
               Data[i] = IF i <= Len(pending) THEN pending[i]
                                              ELSE file[offset + i - Len(pending)]
<1> DEFINE new == SubSeq(file, offset + 1, Len(file))
<1>1. /\ file \in Seq(Cell) /\ pending \in Seq(Cell) /\ Len(file) \in Nat
      /\ Len(pending) \in Nat /\ offset \in Nat
  BY LengthsAreTyped DEF TypeOK
<1> HIDE DEF Cell
<1>2. /\ new \in Seq(Cell) /\ Len(new) = Len(file) - offset
      /\ \A i \in 1 .. Len(file) - offset : new[i] = file[offset + i]
  BY <1>1, TailOfASequence
<1> HIDE DEF new
<1>3. /\ Data \in Seq(Cell) /\ Len(Data) = Len(pending) + Len(new)
      /\ \A i \in 1 .. Len(pending) + Len(new) :
            Data[i] = IF i <= Len(pending) THEN pending[i] ELSE new[i - Len(pending)]
  <2>1. Data = pending \o new
    BY DEF Data, new
  <2> QED BY <2>1, <1>1, <1>2, ConcatProperties
<1>4. Len(Data) = Len(pending) + Len(file) - offset /\ Len(Data) \in Nat
  BY <1>1, <1>2, <1>3
<1>5. ASSUME NEW i \in 1 .. Len(Data)
      PROVE  Data[i] = IF i <= Len(pending) THEN pending[i]
                                            ELSE file[offset + i - Len(pending)]
  <2>1. CASE i <= Len(pending)
    BY <2>1, <1>3, <1>5
  <2>2. CASE ~ (i <= Len(pending))
    <3>1. i - Len(pending) \in 1 .. Len(file) - offset
          /\ offset + (i - Len(pending)) = offset + i - Len(pending)
      BY <2>2, <1>1, <1>4
    <3>2. Data[i] = new[i - Len(pending)]
      BY <2>2, <1>3
    <3> QED BY <2>2, <3>1, <3>2, <1>2
  <2> QED BY <2>1, <2>2
<1>6. DOMAIN Data = 1 .. Len(Data)
  BY <1>3
<1> QED BY <1>3, <1>4, <1>5, <1>6

\* If every line decodes they are two cells each, one behind the other.
LEMMA LinesAreTwoCells ==
  ASSUME TypeOK, offset <= Len(file), \A i \in Ends : Decodes(i)
  PROVE  \E m \in Nat : /\ 2 * m <= Len(Data) /\ Ends = {2 * n : n \in 1 .. m}
                        /\ Cardinality(Ends) = m
<1>1. Len(Data) \in Nat /\ DOMAIN Data = 1 .. Len(Data)
  BY DataIsTyped
<1>2. Ends \in SUBSET (1 .. Len(Data))
  BY <1>1 DEF Ends
<1>3. ASSUME NEW i \in Ends PROVE i > 1 /\ (i > 2 => i - 2 \in Ends)
  <2>1. i > 1 /\ (i > 2 => Data[i - 2].end)
    BY DEF Decodes
  <2>2. i > 2 => i - 2 \in 1 .. Len(Data)
    BY <1>1, <1>2
  <2> QED BY <2>1, <2>2, <1>1 DEF Ends
<1> QED BY <1>1, <1>2, <1>3, GoingDownByTwos

\* What is before a poll of which every line decodes: m lines of two cells, and a tail.
Lines(m) ==
    /\ m \in Nat /\ 2 * m <= Len(Data) /\ Ends = {2 * n : n \in 1 .. m}
    /\ Complete \in Seq(Cell \ {Hole}) /\ Len(Complete) = m
    /\ \A n \in 1 .. m : Complete[n] = Data[2 * n]
    /\ Unfinished \in Seq(Cell) /\ Len(Unfinished) = Len(Data) - 2 * m
    /\ \A i \in 1 .. Len(Unfinished) : Unfinished[i] = Data[2 * m + i]

LEMMA PollFindsLines ==
  ASSUME TypeOK, offset <= Len(file), \A i \in Ends : Decodes(i)
  PROVE  \E m \in Nat : Lines(m)
<1>1. PICK m \in Nat : /\ 2 * m <= Len(Data) /\ Ends = {2 * n : n \in 1 .. m}
                       /\ Cardinality(Ends) = m
  BY LinesAreTwoCells
<1>2. Data \in Seq(Cell) /\ Len(Data) \in Nat /\ DOMAIN Data = 1 .. Len(Data)
  BY DataIsTyped
<1>3. /\ Unfinished \in Seq(Cell) /\ Len(Unfinished) = Len(Data) - 2 * m
      /\ \A i \in 1 .. Len(Unfinished) : Unfinished[i] = Data[2 * m + i]
  <2> HIDE DEF Cell
  <2>1. Unfinished = SubSeq(Data, 2 * m + 1, Len(Data))
    BY <1>1 DEF Unfinished
  <2>2. 2 * m \in Nat
    OBVIOUS
  <2>3. /\ Unfinished \in Seq(Cell) /\ Len(Unfinished) = Len(Data) - 2 * m
        /\ \A i \in 1 .. Len(Data) - 2 * m : Unfinished[i] = Data[2 * m + i]
    BY <2>1, <2>2, <1>1, <1>2, TailOfASequence
  <2> QED BY <2>3
<1>4. \A n \in 1 .. m : Data[2 * n] \in Cell \ {Hole}
  <2> TAKE n \in 1 .. m
  <2>1. 2 * n \in Ends
    BY <1>1
  <2>2. 2 * n \in 1 .. Len(Data) /\ Data[2 * n].end
    BY <2>1, <1>2 DEF Ends
  <2>3. Data[2 * n] \in Cell
    BY <2>2, <1>2
  <2>4. Data[2 * n] # Hole
    BY <2>2 DEF Hole
  <2> QED BY <2>3, <2>4
<1>5. /\ Complete \in Seq(Cell \ {Hole}) /\ Len(Complete) = m
      /\ \A n \in 1 .. m : Complete[n] = Data[2 * n]
  <2>1. Complete = [n \in 1 .. m |-> Data[2 * n]]
    BY <1>1 DEF Complete
  <2> HIDE DEF Cell, Hole
  <2>2. Complete \in [1 .. m -> Cell \ {Hole}]
    BY <2>1, <1>4
  <2> QED BY <2>1, <2>2
<1> QED BY <1>1, <1>3, <1>5 DEF Lines

\* The store with the records of some lines behind it.
Appended(lines) == store \o [i \in DOMAIN lines |-> <<lines[i].run, lines[i].rec>>]

LEMMA LinesAreAppended ==
  ASSUME TypeOK, NEW lines \in Seq(Cell \ {Hole})
  PROVE  /\ Appended(lines) \in Seq(Record)
         /\ Len(Appended(lines)) = Len(store) + Len(lines)
         /\ \A n \in 1 .. Len(store) : Appended(lines)[n] = store[n]
         /\ \A n \in 1 .. Len(lines) :
               Appended(lines)[Len(store) + n] = <<lines[n].run, lines[n].rec>>
<1> DEFINE m == Len(lines)
           records == [n \in 1 .. m |-> <<lines[n].run, lines[n].rec>>]
<1>1. m \in Nat /\ DOMAIN lines = 1 .. m /\ \A n \in 1 .. m : lines[n] \in Cell \ {Hole}
  <2> HIDE DEF Cell, Hole
  <2> QED OBVIOUS
<1> HIDE DEF m
<1>2. records \in Seq(Record) /\ Len(records) = m
  <2>1. \A n \in 1 .. m : <<lines[n].run, lines[n].rec>> \in Record
    BY <1>1 DEF Cell, Record
  <2> HIDE DEF Record
  <2>2. records \in [1 .. m -> Record]
    BY <2>1
  <2> QED BY <1>1, <2>2
<1>3. Appended(lines) = store \o records
  BY <1>1 DEF Appended
<1>4. \A n \in 1 .. m : records[n] = <<lines[n].run, lines[n].rec>>
  OBVIOUS
<1> HIDE DEF records
<1>5. store \in Seq(Record) /\ Len(store) \in Nat
  BY LengthsAreTyped DEF TypeOK
<1>6. /\ Appended(lines) \in Seq(Record) /\ Len(Appended(lines)) = Len(store) + m
      /\ \A i \in 1 .. Len(store) + m :
            Appended(lines)[i] = IF i <= Len(store) THEN store[i] ELSE records[i - Len(store)]
  <2>1. /\ store \o records \in Seq(Record)
        /\ Len(store \o records) = Len(store) + Len(records)
        /\ \A i \in 1 .. Len(store) + Len(records) :
              (store \o records)[i] =
                  IF i <= Len(store) THEN store[i] ELSE records[i - Len(store)]
    BY <1>2, <1>5, ConcatProperties
  <2> QED BY <2>1, <1>2, <1>3
<1>7. \A n \in 1 .. m : Len(store) + n \in 1 .. Len(store) + m
                         /\ ~ (Len(store) + n <= Len(store)) /\ Len(store) + n - Len(store) = n
  BY <1>1, <1>5
<1>8. \A n \in 1 .. Len(store) : n \in 1 .. Len(store) + m /\ n <= Len(store)
  BY <1>1, <1>5
<1>9. \A n \in 1 .. Len(store) : Appended(lines)[n] = store[n]
  BY <1>6, <1>8
<1>10. \A n \in 1 .. m : Appended(lines)[Len(store) + n] = <<lines[n].run, lines[n].rec>>
  BY <1>4, <1>6, <1>7
<1> QED BY <1>6, <1>9, <1>10 DEF m

\* A sequence of length one.
LEMMA OneElement ==
  ASSUME NEW S, NEW s \in Seq(S), Len(s) = 1
  PROVE  s = <<s[1]>> /\ s[1] \in S
<1>1. s[1] \in S
  BY ElementOfSeq
<1>2. <<s[1]>> \in Seq(S) /\ Len(<<s[1]>>) = Len(s) /\ \A i \in 1 .. Len(s) : <<s[1]>>[i] = s[i]
  BY <1>1
<1> QED BY <1>1, <1>2, SeqEqual

\* What a poll that returns does to the store and the reader: m more records, and one
\* more of an unterminated tail if it is taken.
Polled(m, taken) ==
    /\ m \in Nat /\ taken \in {0, 1} /\ 2 * m <= Len(Data) /\ Ends = {2 * n : n \in 1 .. m}
    /\ offset' = Len(file)
    /\ pending' \in Seq(Cell) /\ Len(pending') = Len(Data) - 2 * m - taken
    /\ taken = 1 => pending' = << >>
    /\ \A i \in 1 .. Len(pending') : pending'[i] = Data[2 * m + i]
    /\ store' \in Seq(Record) /\ Len(store') = Len(store) + m + taken
    /\ \A n \in 1 .. Len(store) : store'[n] = store[n]
    /\ \A n \in 1 .. m : store'[Len(store) + n] = <<Data[2 * n].run, Data[2 * n].rec>>
    /\ taken = 1 => store'[Len(store) + m + 1] = <<Data[2 * m + 1].run, Data[2 * m + 1].rec>>

LEMMA PollReadsLines ==
  ASSUME TypeOK, offset <= Len(file), \A i \in Ends : Decodes(i), NEW final \in BOOLEAN,
         PollReturns(final), final => MayDecode(Unfinished)
  PROVE  \E m \in Nat, taken \in {0, 1} : Polled(m, taken) /\ (taken = 1 => final)
<1>1. PICK m \in Nat : Lines(m)
  BY PollFindsLines
<1>2. /\ 2 * m <= Len(Data) /\ Ends = {2 * n : n \in 1 .. m}
      /\ Complete \in Seq(Cell \ {Hole}) /\ Len(Complete) = m
      /\ \A n \in 1 .. m : Complete[n] = Data[2 * n]
      /\ Unfinished \in Seq(Cell) /\ Len(Unfinished) = Len(Data) - 2 * m
      /\ \A i \in 1 .. Len(Unfinished) : Unfinished[i] = Data[2 * m + i]
  BY <1>1 DEF Lines
<1>3. Len(Data) \in Nat /\ Len(store) \in Nat
  BY DataIsTyped, LengthsAreTyped
<1>4. offset' = Len(file)
  BY DEF PollReturns
<1>5. CASE final => Unfinished = << >>
  <2>1. pending' = Unfinished /\ store' = Appended(Complete)
    <3>1. CASE final
      <4>1. Complete \o << >> = Complete
        <5> HIDE DEF Cell, Hole
        <5> QED BY <1>2, ConcatEmptySeq
      <4> QED BY <3>1, <4>1, <1>5 DEF PollReturns, Appended
    <3>2. CASE ~final
      BY <3>2 DEF PollReturns, Appended
    <3> QED BY <3>1, <3>2
  <2>2. /\ store' \in Seq(Record) /\ Len(store') = Len(store) + m
        /\ \A n \in 1 .. Len(store) : store'[n] = store[n]
        /\ \A n \in 1 .. m : store'[Len(store) + n] = <<Complete[n].run, Complete[n].rec>>
    <3> HIDE DEF Cell, Hole
    <3> QED BY <2>1, <1>2, LinesAreAppended
  <2>3. Len(Data) - 2 * m - 0 = Len(Data) - 2 * m /\ Len(store) + m + 0 = Len(store) + m
    BY <1>3
  <2>4. Polled(m, 0)
    <3>1. 0 \in {0, 1} /\ (0 = 1 => FALSE)
      OBVIOUS
    <3>2. Len(pending') = Len(Data) - 2 * m - 0 /\ Len(store') = Len(store) + m + 0
      BY <2>1, <2>2, <2>3, <1>2
    <3> QED BY <2>1, <2>2, <3>1, <3>2, <1>2, <1>4 DEF Polled
  <2> QED BY <2>4
<1>6. CASE final /\ Unfinished # << >>
  <2>1. Len(Unfinished) = 1 /\ Unfinished[1] # Hole
    BY <1>6 DEF MayDecode
  <2>2. Unfinished[1] = Data[2 * m + 1] /\ Len(Data) - 2 * m - 1 = 0
    <3>1. 1 \in 1 .. Len(Unfinished) /\ Len(Data) - 2 * m = 1
      <4>1. Len(Data) - 2 * m = 1
        BY <1>2, <2>1
      <4>2. 1 \in 1 .. Len(Unfinished)
        BY <2>1
      <4> QED BY <4>1, <4>2
    <3>2. Unfinished[1] = Data[2 * m + 1]
      BY <3>1, <1>2
    <3> QED BY <3>1, <3>2, <1>3
  <2> DEFINE lines == Complete \o Unfinished
  <2>3. /\ lines \in Seq(Cell \ {Hole}) /\ Len(lines) = m + 1
        /\ \A n \in 1 .. m : lines[n] = Complete[n]
        /\ lines[m + 1] = Unfinished[1]
    <3> HIDE DEF Cell, Hole
    <3>1. Unfinished \in Seq(Cell \ {Hole})
      <4>1. Unfinished = <<Unfinished[1]>> /\ Unfinished[1] \in Cell
        BY <1>2, <2>1, OneElement
      <4> DEFINE cell == Unfinished[1]
      <4>2. cell \in Cell \ {Hole}
        BY <4>1, <2>1
      <4> HIDE DEF cell
      <4>3. <<cell>> \in Seq(Cell \ {Hole})
        BY <4>2
      <4> QED BY <4>1, <4>3 DEF cell
    <3>2. /\ lines \in Seq(Cell \ {Hole}) /\ Len(lines) = m + 1
          /\ \A i \in 1 .. m + 1 :
                lines[i] = IF i <= m THEN Complete[i] ELSE Unfinished[i - m]
      <4>1. /\ lines \in Seq(Cell \ {Hole}) /\ Len(lines) = Len(Complete) + Len(Unfinished)
            /\ \A i \in 1 .. Len(Complete) + Len(Unfinished) :
                  lines[i] = IF i <= Len(Complete) THEN Complete[i]
                                                   ELSE Unfinished[i - Len(Complete)]
        <5> DEFINE Whole == Cell \ {Hole}
        <5>1. Complete \in Seq(Whole) /\ Unfinished \in Seq(Whole)
          BY <3>1, <1>2
        <5> HIDE DEF Whole
        <5>2. /\ lines \in Seq(Whole) /\ Len(lines) = Len(Complete) + Len(Unfinished)
              /\ \A i \in 1 .. Len(Complete) + Len(Unfinished) :
                    lines[i] = IF i <= Len(Complete) THEN Complete[i]
                                                     ELSE Unfinished[i - Len(Complete)]
          BY <5>1, ConcatProperties
        <5> QED BY <5>2 DEF Whole
      <4> HIDE DEF lines
      <4> QED BY <4>1, <1>2, <2>1
    <3>3. m + 1 - m = 1 /\ ~ (m + 1 <= m) /\ m + 1 \in 1 .. m + 1
          /\ \A n \in 1 .. m : n \in 1 .. m + 1 /\ n <= m
      OBVIOUS
    <3> HIDE DEF lines
    <3>4. ASSUME NEW n \in 1 .. m
          PROVE  lines[n] = Complete[n]
      <4>1. n \in 1 .. m + 1 /\ n <= m
        BY <3>3
      <4> QED BY <3>2, <4>1
    <3>5. lines[m + 1] = Unfinished[1]
      <4>1. lines[m + 1] = IF m + 1 <= m THEN Complete[m + 1] ELSE Unfinished[m + 1 - m]
        BY <3>2, <3>3
      <4> QED BY <3>3, <4>1
    <3> QED BY <3>2, <3>4, <3>5
  <2>4. pending' = << >> /\ store' = Appended(lines)
    BY <1>6 DEF PollReturns, Appended
  <2> HIDE DEF lines
  <2>5. /\ store' \in Seq(Record) /\ Len(store') = Len(store) + (m + 1)
        /\ \A n \in 1 .. Len(store) : store'[n] = store[n]
        /\ \A n \in 1 .. m + 1 : store'[Len(store) + n] = <<lines[n].run, lines[n].rec>>
    <3> HIDE DEF Cell, Hole
    <3> QED BY <2>3, <2>4, LinesAreAppended
  <2>6. Len(store) + (m + 1) = Len(store) + m + 1 /\ m + 1 \in 1 .. m + 1
        /\ \A n \in 1 .. m : n \in 1 .. m + 1
    BY <1>3
  <2>7. /\ store'[Len(store) + m + 1] = <<Data[2 * m + 1].run, Data[2 * m + 1].rec>>
        /\ \A n \in 1 .. m : store'[Len(store) + n] = <<Data[2 * n].run, Data[2 * n].rec>>
    <3>1. store'[Len(store) + (m + 1)] = <<lines[m + 1].run, lines[m + 1].rec>>
      BY <2>5, <2>6
    <3>2. \A n \in 1 .. m : store'[Len(store) + n] = <<lines[n].run, lines[n].rec>>
      BY <2>5, <2>6
    <3>3. lines[m + 1] = Data[2 * m + 1]
      BY <2>2, <2>3
    <3>4. store'[Len(store) + m + 1] = <<Data[2 * m + 1].run, Data[2 * m + 1].rec>>
      <4>1. Len(store) + (m + 1) = Len(store) + m + 1
        BY <2>6
      <4> QED BY <3>1, <3>3, <4>1
    <3>5. ASSUME NEW n \in 1 .. m
          PROVE  store'[Len(store) + n] = <<Data[2 * n].run, Data[2 * n].rec>>
      <4>1. lines[n] = Data[2 * n]
        BY <1>2, <2>3
      <4> QED BY <3>2, <4>1
    <3> QED BY <3>4, <3>5
  <2>8. pending' \in Seq(Cell) /\ Len(pending') = 0
    BY <2>4
  <2>9. Polled(m, 1)
    <3>1. 1 \in {0, 1} /\ Len(store') = Len(store) + m + 1
      BY <2>5, <2>6
    <3>2. Len(pending') = Len(Data) - 2 * m - 1 /\ 1 .. Len(pending') = {}
      BY <2>2, <2>8
    <3> QED BY <2>4, <2>5, <2>7, <2>8, <3>1, <3>2, <1>2, <1>4 DEF Polled
  <2> QED BY <2>9, <1>6
<1> QED BY <1>5, <1>6

\* With one writer, what a poll reads goes on where the store ends, up to the last cell
\* written.
LEMMA OneRunsData ==
  ASSUME TypeOK, ReaderInv, LogInv, state = "running", ~overlap, starts > 0
  PROVE  /\ offset <= Len(file) /\ Len(Data) \in Nat /\ DOMAIN Data = 1 .. Len(Data)
         /\ 2 * Len(store) + Len(Data) = written[starts]
         /\ \A i \in 1 .. Len(Data) : Data[i] = LogCell(starts, 2 * Len(store) + i)
<1>1. /\ offset <= Len(file) /\ Len(file) = written[starts] /\ Len(pending) <= 1
      /\ \A i \in DOMAIN file : file[i] = LogCell(starts, i)
      /\ \A i \in DOMAIN pending : pending[i] = LogCell(starts, 2 * Len(store) + i)
      /\ 2 * Len(store) + Len(pending) = offset
  BY DEF LogInv, ReaderInv
<1>2. /\ Len(Data) = Len(pending) + Len(file) - offset
      /\ Len(Data) \in Nat /\ DOMAIN Data = 1 .. Len(Data)
      /\ \A i \in 1 .. Len(Data) :
            Data[i] = IF i <= Len(pending) THEN pending[i]
                                           ELSE file[offset + i - Len(pending)]
  BY <1>1, DataIsTyped
<1>3. 2 * Len(store) + Len(Data) = written[starts]
  BY <1>1, <1>2, LengthsAreTyped
<1>4. ASSUME NEW i \in 1 .. Len(Data) PROVE Data[i] = LogCell(starts, 2 * Len(store) + i)
  <2>1. CASE i <= Len(pending)
    <3>1. i \in DOMAIN pending
      BY <2>1, <1>2, LengthsAreTyped
    <3> QED BY <2>1, <3>1, <1>1, <1>2
  <2>2. CASE ~ (i <= Len(pending))
    <3>1. offset + i - Len(pending) = 2 * Len(store) + i
      BY <1>1, LengthsAreTyped
    <3>2. 2 * Len(store) + i \in DOMAIN file
      <4>1. /\ Len(store) \in Nat /\ Len(file) \in Nat /\ DOMAIN file = 1 .. Len(file)
            /\ 2 * Len(store) + Len(Data) = Len(file)
        BY <1>1, <1>3, LengthsAreTyped
      <4>2. i \in Nat /\ 1 <= i /\ i <= Len(Data)
        BY <1>2
      <4> QED BY <4>1, <4>2, <1>2
    <3> QED BY <2>2, <3>1, <3>2, <1>1, <1>2
  <2> QED BY <2>1, <2>2
<1> QED BY <1>1, <1>2, <1>3, <1>4

\* The cells of one run decode: a line is never torn, and the tail is never in the way.
CellFacts(r, k, i) ==
    /\ LogCell(r, 2 * k + i).end <=> \E n \in Nat : i = 2 * n
    /\ (i > 1 /\ LogCell(r, 2 * k + i).end) =>
          LogCell(r, 2 * k + (i - 1)) = [LogCell(r, 2 * k + i) EXCEPT !.end = FALSE]
    /\ (i > 2 /\ LogCell(r, 2 * k + i).end) => LogCell(r, 2 * k + (i - 2)).end
    /\ LogCell(r, 2 * k + 2 * i).rec = k + i

LEMMA CellsDecode ==
  ASSUME NEW k \in Nat, NEW r, NEW i \in Nat \ {0}
  PROVE  CellFacts(r, k, i)
<1>1. LogCell(r, 2 * k + i).end <=> (2 * k + i) % 2 = 0
  BY DEF LogCell
<1>2. (2 * k + i) % 2 = 0 <=> \E n \in Nat : i = 2 * n
  <2>1. (2 * k + i) % 2 = i % 2
    OBVIOUS
  <2>2. i % 2 = 0 => i = 2 * (i \div 2) /\ i \div 2 \in Nat
    OBVIOUS
  <2>3. \A n \in Nat : (2 * n) % 2 = 0
    OBVIOUS
  <2> QED BY <2>1, <2>2, <2>3
<1>3. ASSUME i > 1, (2 * k + i) % 2 = 0
      PROVE  LogCell(r, 2 * k + (i - 1)) = [LogCell(r, 2 * k + i) EXCEPT !.end = FALSE]
  <2>1. (2 * k + (i - 1)) % 2 # 0
    BY <1>3
  <2>2. (2 * k + (i - 1) + 1) \div 2 = (2 * k + i + 1) \div 2
    BY <1>3
  <2> DEFINE no == FALSE
             even == (2 * k + i) % 2 = 0
             n == (2 * k + i + 1) \div 2
  <2>3. LogCell(r, 2 * k + (i - 1)) = [run |-> r, rec |-> n, end |-> no]
    BY <2>1, <2>2 DEF LogCell
  <2>4. LogCell(r, 2 * k + i) = [run |-> r, rec |-> n, end |-> even]
    BY DEF LogCell
  <2> HIDE DEF no, even, n
  <2>5. LogCell(r, 2 * k + (i - 1)) = [LogCell(r, 2 * k + i) EXCEPT !.end = no]
    BY <2>3, <2>4
  <2> QED BY <2>5 DEF no
<1>4. ASSUME i > 2, (2 * k + i) % 2 = 0 PROVE LogCell(r, 2 * k + (i - 2)).end
  <2>1. (2 * k + (i - 2)) % 2 = 0
    BY <1>4
  <2> QED BY <2>1 DEF LogCell
<1>5. LogCell(r, 2 * k + 2 * i).rec = k + i
  <2>1. (2 * k + 2 * i + 1) \div 2 = k + i
    OBVIOUS
  <2> QED BY <2>1 DEF LogCell
<1> QED BY <1>1, <1>2, <1>3, <1>4, <1>5 DEF CellFacts

\* A log with one writer can always be read, and leaves no tail once whole lines are
\* written.
LEMMA OneRunIsReadable ==
  ASSUME TypeOK, ReaderInv, LogInv, state = "running", ~overlap, starts > 0
  PROVE  /\ ~Unreadable
         /\ written[starts] % 2 = 0 => Unfinished = << >>
         /\ \A i \in 1 .. Len(Data) : i \in Ends <=> \E n \in Nat : i = 2 * n
<1>1. /\ offset <= Len(file) /\ Len(Data) \in Nat /\ DOMAIN Data = 1 .. Len(Data)
      /\ 2 * Len(store) + Len(Data) = written[starts]
      /\ \A i \in 1 .. Len(Data) : Data[i] = LogCell(starts, 2 * Len(store) + i)
  BY OneRunsData
<1>2. Len(store) \in Nat /\ Len(file) \in Nat /\ offset \in Nat
  BY LengthsAreTyped
<1>3. \A i \in 1 .. Len(Data) : i \in Ends <=> \E n \in Nat : i = 2 * n
  <2> TAKE i \in 1 .. Len(Data)
  <2>1. i \in Nat \ {0} /\ (i \in Ends <=> LogCell(starts, 2 * Len(store) + i).end)
    BY <1>1 DEF Ends
  <2>2. CellFacts(starts, Len(store), i)
    BY <2>1, <1>2, CellsDecode
  <2> QED BY <2>1, <2>2 DEF CellFacts
<1>4. \A i \in Ends : Decodes(i)
  <2> TAKE i \in Ends
  <2>1. i \in 1 .. Len(Data) /\ i \in Nat \ {0} /\ LogCell(starts, 2 * Len(store) + i).end
    BY <1>1 DEF Ends
  <2>2. i > 1
    BY <2>1, <1>3
  <2>3. i - 1 \in 1 .. Len(Data) /\ (i > 2 => i - 2 \in 1 .. Len(Data))
    BY <2>1, <2>2, <1>1
  <2>4. CellFacts(starts, Len(store), i)
    BY <2>1, <1>2, CellsDecode
  <2>5. Data[i - 1] = [Data[i] EXCEPT !.end = FALSE]
    <3>1. Data[i - 1] = LogCell(starts, 2 * Len(store) + (i - 1))
      BY <2>3, <1>1
    <3>2. Data[i] = LogCell(starts, 2 * Len(store) + i)
      BY <2>1, <1>1
    <3> QED BY <3>1, <3>2, <2>1, <2>2, <2>4 DEF CellFacts
  <2>6. ASSUME i > 2 PROVE Data[i - 2].end
    <3>1. Data[i - 2] = LogCell(starts, 2 * Len(store) + (i - 2))
      BY <2>3, <2>6, <1>1
    <3> QED BY <3>1, <2>1, <2>4, <2>6 DEF CellFacts
  <2> QED BY <2>2, <2>5, <2>6 DEF Decodes
<1>5. ~ (Len(file) < offset)
  BY <1>1, <1>2
<1>6. ~Unreadable
  BY <1>4, <1>5 DEF Unreadable
<1>7. ASSUME written[starts] % 2 = 0 PROVE Unfinished = << >>
  <2>1. PICK m \in Nat : /\ 2 * m <= Len(Data) /\ Ends = {2 * n : n \in 1 .. m}
                         /\ Cardinality(Ends) = m
    BY <1>1, <1>4, LinesAreTwoCells
  <2>2. Len(Data) <= 2 * m
    <3>1. Len(Data) % 2 = 0
      BY <1>1, <1>2, <1>7
    <3>2. Len(Data) = 2 * (Len(Data) \div 2) /\ Len(Data) \div 2 \in Nat
      <4>1. \A n \in Nat : n % 2 = 0 => n = 2 * (n \div 2) /\ n \div 2 \in Nat
        OBVIOUS
      <4> QED BY <4>1, <3>1, <1>1
    <3>3. CASE Len(Data) = 0
      BY <3>3
    <3>4. CASE Len(Data) # 0
      <4>1. Len(Data) \in Ends
        BY <3>2, <3>4, <1>1, <1>3
      <4>2. PICK n \in 1 .. m : Len(Data) = 2 * n
        BY <4>1, <2>1
      <4> QED BY <4>2
    <3> QED BY <3>3, <3>4
  <2>3. Unfinished = SubSeq(Data, 2 * m + 1, Len(Data))
    BY <2>1 DEF Unfinished
  <2>4. Len(Data) < 2 * m + 1 /\ 2 * m + 1 \in Int /\ Len(Data) \in Int
    BY <2>2, <1>1
  <2> QED BY <2>3, <2>4, SubSeqEmpty
<1> QED BY <1>3, <1>6, <1>7

\* A poll that returns keeps the reader's books, and those of the one run; what the last
\* one takes of a tail is the next record of the run.
LEMMA PollKeepsLog ==
  ASSUME TypeOK, ReaderInv, LogInv, state = "running", NEW final \in BOOLEAN, ~Unreadable,
         PollReturns(final), final => MayDecode(Unfinished) /\ state' # "running",
         UNCHANGED <<file, written, starts, overlap>>
  PROVE  /\ offset' = Len(file) /\ offset' \in 0 .. 2 * MaxRecords
         /\ pending' \in Seq(Cell) /\ store' \in Seq(Record)
         /\ Len(store') \in Nat /\ Len(store) <= Len(store')
         /\ ReaderInv' /\ LogInv'
<1>1. /\ Len(file) \in Nat /\ Len(pending) \in Nat /\ Len(store) \in Nat /\ offset \in Nat
      /\ starts \in Nat /\ MaxRecords \in Nat
  BY LengthsAreTyped
<1>2. offset <= Len(file) /\ \A i \in Ends : Decodes(i)
  BY <1>1 DEF Unreadable
<1>3. PICK m \in Nat, taken \in {0, 1} : Polled(m, taken) /\ (taken = 1 => final)
  BY <1>2, PollReadsLines
<1>4. /\ 2 * m <= Len(Data) /\ Ends = {2 * n : n \in 1 .. m} /\ offset' = Len(file)
      /\ pending' \in Seq(Cell) /\ Len(pending') = Len(Data) - 2 * m - taken
      /\ taken = 1 => pending' = << >>
      /\ \A i \in 1 .. Len(pending') : pending'[i] = Data[2 * m + i]
      /\ store' \in Seq(Record) /\ Len(store') = Len(store) + m + taken
      /\ \A n \in 1 .. Len(store) : store'[n] = store[n]
      /\ \A n \in 1 .. m : store'[Len(store) + n] = <<Data[2 * n].run, Data[2 * n].rec>>
      /\ taken = 1 =>
            store'[Len(store) + m + 1] = <<Data[2 * m + 1].run, Data[2 * m + 1].rec>>
  BY <1>3 DEF Polled
<1>5. /\ Len(Data) = Len(pending) + Len(file) - offset /\ Len(Data) \in Nat
      /\ Len(file) <= 2 * MaxRecords /\ 2 * Len(store) + Len(pending) = offset
  BY <1>2, DataIsTyped DEF ReaderInv
<1>6. /\ Len(pending') \in Nat /\ (taken = 0 \/ taken = 1) /\ (taken = 1 => Len(pending') = 0)
      /\ Len(Data) = 2 * m + Len(pending') + taken
      /\ offset' \in 0 .. 2 * MaxRecords /\ Len(store') \in Nat /\ Len(store) <= Len(store')
  <2>1. CASE taken = 0
    <3>1. Len(pending') = Len(Data) - 2 * m /\ Len(store') = Len(store) + m
      BY <2>1, <1>1, <1>4, <1>5
    <3> QED BY <2>1, <3>1, <1>1, <1>4, <1>5
  <2>2. CASE taken = 1
    <3>1. Len(pending') = 0 /\ Len(pending') = Len(Data) - 2 * m - 1
          /\ Len(store') = Len(store) + m + 1
      BY <2>2, <1>4
    <3> QED BY <2>2, <3>1, <1>1, <1>4, <1>5
  <2> QED BY <2>1, <2>2
<1>7. ReaderInv'
  <2>1. 2 * Len(store') + Len(pending') = offset' + taken
    <3>1. Len(store') = Len(store) + m + taken /\ offset' = Len(file) /\ m \in Nat
      BY <1>4
    <3> QED BY <3>1, <1>1, <1>5, <1>6
  <2>2. starts' = 0 => file' = << >> /\ offset' = 0
    BY <1>4 DEF ReaderInv
  <2>3. CASE taken = 0
    <3>1. 2 * Len(store') + Len(pending') = offset'
      BY <2>1, <2>3, <1>1, <1>4
    <3> QED BY <3>1, <2>2, <1>5 DEF ReaderInv
  <2>4. CASE taken = 1
    <3>1. pending' = << >> /\ Len(pending') = 0 /\ state' # "running"
      BY <2>4, <1>3, <1>4
    <3>2. 2 * Len(store') = offset' + 1
      BY <2>1, <2>4, <3>1, <1>6
    <3> QED BY <3>1, <3>2, <2>2, <1>5 DEF ReaderInv
  <2> QED BY <2>3, <2>4
<1>8. LogInv'
  <2> SUFFICES ASSUME ~overlap, starts > 0
               PROVE  /\ Len(file) = written[starts] /\ offset' <= Len(file)
                      /\ Len(pending') <= 1
                      /\ \A i \in DOMAIN file : file[i] = LogCell(starts, i)
                      /\ \A i \in DOMAIN pending' :
                            pending'[i] = LogCell(starts, 2 * Len(store') + i)
                      /\ \A n \in DOMAIN store' : store'[n] = <<starts, n>>
    BY DEF LogInv
  <2>1. /\ Len(file) = written[starts]
        /\ \A i \in DOMAIN file : file[i] = LogCell(starts, i)
        /\ \A n \in 1 .. Len(store) : store[n] = <<starts, n>>
    BY LengthsAreTyped DEF LogInv
  <2>2. \A i \in 1 .. Len(Data) : Data[i] = LogCell(starts, 2 * Len(store) + i)
    BY OneRunsData
  <2>3. \A i \in 1 .. Len(Data) : i \in Ends <=> \E n \in Nat : i = 2 * n
    BY OneRunIsReadable
  <2>4. Len(pending') <= 1
    <3>1. SUFFICES ASSUME 2 * m + 2 <= Len(Data) PROVE FALSE
      BY <1>5, <1>6
    <3>2. 2 * (m + 1) \in 1 .. Len(Data) /\ m + 1 \in Nat
      BY <3>1, <1>5
    <3>3. 2 * (m + 1) \in Ends
      BY <3>2, <2>3
    <3>4. PICK n \in 1 .. m : 2 * (m + 1) = 2 * n
      BY <3>3, <1>4
    <3> QED BY <3>4
  <2>5. ASSUME NEW i \in DOMAIN pending'
        PROVE  pending'[i] = LogCell(starts, 2 * Len(store') + i)
    <3>1. i \in 1 .. Len(pending') /\ i \in Nat
      BY <1>4
    <3>2. taken = 0 /\ 2 * m + i \in 1 .. Len(Data)
      BY <3>1, <1>6
    <3>3. 2 * Len(store) + (2 * m + i) = 2 * Len(store') + i
      <4>1. Len(store') = Len(store) + m
        BY <3>2, <1>1, <1>4
      <4> QED BY <3>1, <4>1, <1>1
    <3> QED BY <3>1, <3>2, <3>3, <1>4, <2>2
  <2>6. ASSUME NEW n \in DOMAIN store' PROVE store'[n] = <<starts, n>>
    <3>1. n \in 1 .. Len(store) + m + taken
      BY <1>4
    <3>2. CASE n <= Len(store)
      <4>1. n \in 1 .. Len(store)
        BY <3>1, <3>2, <1>1
      <4>2. store'[n] = store[n]
        BY <4>1, <1>4
      <4> QED BY <4>1, <4>2, <2>1
    <3>3. CASE ~ (n <= Len(store)) /\ n <= Len(store) + m
      <4> DEFINE k == n - Len(store)
      <4>1. k \in 1 .. m /\ k \in Nat \ {0} /\ n = Len(store) + k
        BY <3>1, <3>3, <1>1
      <4> HIDE DEF k
      <4>2. 2 * k \in 1 .. Len(Data)
        BY <4>1, <1>4, <1>5
      <4>3. Data[2 * k] = LogCell(starts, 2 * Len(store) + 2 * k)
        BY <4>2, <2>2
      <4>4. CellFacts(starts, Len(store), k)
        BY <4>1, <1>1, CellsDecode
      <4>5. LogCell(starts, 2 * Len(store) + 2 * k).rec = n
        BY <4>1, <4>4 DEF CellFacts
      <4>6. LogCell(starts, 2 * Len(store) + 2 * k).run = starts
        BY DEF LogCell
      <4>7. store'[Len(store) + k] = <<Data[2 * k].run, Data[2 * k].rec>>
        BY <4>1, <1>4
      <4>8. Data[2 * k].run = starts /\ Data[2 * k].rec = n
        BY <4>3, <4>5, <4>6
      <4> QED BY <4>1, <4>7, <4>8
    <3>4. CASE n > Len(store) + m
      <4>1. taken = 1 /\ n = Len(store) + m + 1
        BY <3>1, <3>4, <1>1
      <4>2. Len(pending') = 0
        BY <4>1, <1>4
      <4>3. 2 * m + 1 \in 1 .. Len(Data)
        BY <4>1, <4>2, <1>4, <1>5
      <4>4. Data[2 * m + 1] = LogCell(starts, 2 * Len(store) + (2 * m + 1))
        BY <4>3, <2>2
      <4>5. (2 * Len(store) + (2 * m + 1) + 1) \div 2 = n
        BY <4>1, <1>1
      <4>6. Data[2 * m + 1].run = starts /\ Data[2 * m + 1].rec = n
        BY <4>4, <4>5 DEF LogCell
      <4> QED BY <4>1, <4>6, <1>4
    <3> QED BY <3>1, <3>2, <3>3, <3>4, <1>1
  <2> QED BY <1>4, <2>1, <2>4, <2>5, <2>6
<1> QED BY <1>4, <1>6, <1>7, <1>8

----------------------------------------------------------------------------
(* The invariant is inductive.                                             *)

LEMMA InitInv == Init => IInv
<1> SUFFICES ASSUME Init PROVE IInv
  OBVIOUS
<1> USE LiveAssumption DEF Init
<1>1. TypeOK
  <2> DEFINE busy == {th \in Threads : pc[th] = "exit"}
  <2>1. busy = {}
    OBVIOUS
  <2>2. Cardinality(busy) <= 1
    <3> HIDE DEF busy
    <3>1. Cardinality(busy) = 0
      BY <2>1, FS_EmptySet
    <3> QED BY <3>1
  <2>3. 0 \in 0 .. 2 * MaxRecords /\ 0 \in 0 .. MaxRecords /\ 0 \in 0 .. MaxRuns
        /\ 0 \in 0 .. MaxFaults
    OBVIOUS
  <2>4. file \in Seq(Cell) /\ pending \in Seq(Cell) /\ store \in Seq(Record)
    <3> HIDE DEF Cell, Record
    <3> QED OBVIOUS
  <2>5. pc \in [Threads -> Places] /\ runner \in [Runs -> RunnerStates]
    BY DEF Places, RunnerStates
  <2>6. view \in [Tabs -> Seq(Event)] /\ reply \in [Tabs -> Seq(Event)]
    <3>1. << >> \in Seq(Event)
      <4> HIDE DEF Event
      <4> QED OBVIOUS
    <3> QED BY <3>1
  <2> QED BY <2>2, <2>3, <2>4, <2>5, <2>6 DEF TypeOK
<1>2. RunnersInv /\ ReaderInv /\ LogInv
  BY DEF RunnersInv, ReaderInv, LogInv, Runs, Alive
<1>3. StateInv
  BY DEF StateInv, Alive
<1>4. PagesInv
  <2>1. \A t \in Tabs : <<t, "poll">> \in Threads
    BY DEF Threads
  <2>2. \A t \in Starters : <<t, "start">> \in Threads
    BY DEF Threads
  <2>3. \A t \in Tabs : PageInv(t)
    BY <2>1 DEF PageInv, IndexInv, RecordsInv, WatcherInv, Asking, Answered
  <2> QED BY <2>2, <2>3 DEF PagesInv
<1> QED BY <1>1, <1>2, <1>3, <1>4 DEF IInv

\* A set without two members has at most one.
LEMMA OneAtMost ==
  ASSUME NEW S, \A x, y \in S : x = y
  PROVE  Cardinality(S) <= 1
<1>1. CASE S = {}
  <2>1. Cardinality(S) = 0
    BY <1>1, FS_EmptySet
  <2> QED BY <2>1
<1>2. CASE S # {}
  <2>1. PICK x : S = {x}
    BY <1>2
  <2>2. Cardinality(S) = 1
    BY <2>1, FS_Singleton
  <2> QED BY <2>2
<1> QED BY <1>1, <1>2

\* A handler thread is a page's poll or its START RUN.
LEMMA ThreadIsAPages ==
  ASSUME NEW th \in Threads
  PROVE  \/ th[1] \in Tabs /\ th[2] = "poll" /\ th = <<th[1], "poll">>
         \/ th[1] \in Starters /\ th[2] = "start" /\ th = <<th[1], "start">>
BY DEF Threads

\* What the step of one handler does to where the handlers stand; at most one of them
\* holds the lock, if it steps out of it or nobody held it.
LEMMA HandlerSteps ==
  ASSUME TypeOK, StateInv, NEW th \in Threads, NEW place \in Places, Goto(th, place),
         pc[th] = "exit" \/ Free \/ place # "exit"
  PROVE  /\ pc' \in [Threads -> Places]
         /\ pc'[th] = place /\ \A x \in Threads : x # th => pc'[x] = pc[x]
         /\ \A x, y \in Threads : pc'[x] = "exit" /\ pc'[y] = "exit" => x = y
         /\ Cardinality({x \in Threads : pc'[x] = "exit"}) <= 1
<1>1. pc \in [Threads -> Places] /\ pc' = [pc EXCEPT ![th] = place]
  BY DEF TypeOK, Goto
<1>2. /\ pc' \in [Threads -> Places] /\ pc'[th] = place
      /\ \A x \in Threads : x # th => pc'[x] = pc[x]
  BY <1>1
<1>3. \A x, y \in Threads : pc[x] = "exit" /\ pc[y] = "exit" => x = y
  BY DEF StateInv
<1>4. \A x, y \in Threads : pc'[x] = "exit" /\ pc'[y] = "exit" => x = y
  <2>1. CASE pc[th] = "exit"
    BY <2>1, <1>2, <1>3
  <2>2. CASE Free
    BY <2>2, <1>2 DEF Free
  <2>3. CASE place # "exit"
    BY <2>3, <1>2, <1>3
  <2> QED BY <2>1, <2>2, <2>3
<1>5. Cardinality({x \in Threads : pc'[x] = "exit"}) <= 1
  BY <1>4, OneAtMost
<1> QED BY <1>2, <1>4, <1>5

\* A page notices nothing of what changes neither it nor its poll.
LEMMA PageUntouched ==
  ASSUME NEW t \in Tabs, PageInv(t), Asking(t)' <=> Asking(t), Answered(t)' <=> Answered(t),
         asked'[t] = asked[t], reply'[t] = reply[t], view'[t] = view[t],
         cursor'[t] = cursor[t], UNCHANGED <<starts, overlap>>
  PROVE  PageInv(t)'
<1>1. IndexInv(t)'
  BY DEF PageInv, IndexInv
<1>2. RecordsInv(t)'
  BY DEF PageInv, RecordsInv
<1>3. t \notin Starters => WatcherInv(t)'
  BY DEF PageInv, WatcherInv
<1> QED BY <1>1, <1>2, <1>3 DEF PageInv

\* The pages notice nothing of a handler that goes on reading.
LEMMA PagesGoOn ==
  ASSUME TypeOK, PagesInv, NEW th \in Threads, pc[th] \in {"refresh", "exit"},
         pc'[th] \in {"exit", Back(th)}, \A x \in Threads : x # th => pc'[x] = pc[x],
         UNCHANGED <<requestVars, tabVars, starts, overlap>>
  PROVE  PagesInv'
<1>1. UNCHANGED <<asked, reply, view, cursor, starts>>
  BY DEF requestVars, tabVars
<1>2. \A t \in Tabs : (Asking(t)' <=> Asking(t)) /\ (Answered(t)' <=> Answered(t))
  <2> TAKE t \in Tabs
  <2>1. <<t, "poll">> \in Threads
    BY DEF Threads
  <2>2. CASE th = <<t, "poll">>
    <3>1. Back(th) = "answer"
      BY <2>2 DEF Back
    <3> QED BY <3>1, <2>2 DEF Asking, Answered
  <2>3. CASE th # <<t, "poll">>
    BY <2>1, <2>3 DEF Asking, Answered
  <2> QED BY <2>2, <2>3
<1>3. \A t \in Tabs : PageInv(t)'
  BY <1>1, <1>2, PageUntouched DEF PagesInv
<1>4. \A t \in Starters : pc'[<<t, "start">>] # "answer"
  <2> TAKE t \in Starters
  <2>1. <<t, "start">> \in Threads
    BY DEF Threads
  <2>2. CASE th = <<t, "start">>
    BY <2>2 DEF Back
  <2>3. CASE th # <<t, "start">>
    BY <2>1, <2>3 DEF PagesInv
  <2> QED BY <2>2, <2>3
<1> QED BY <1>3, <1>4 DEF PagesInv

\* A step of a runner: the pages do not move.
LEMMA PagesUntouched ==
  ASSUME PagesInv, UNCHANGED <<pc, requestVars, tabVars, starts, overlap>>
  PROVE  PagesInv'
<1> USE DEF requestVars, tabVars
<1>1. \A t \in Tabs : (Asking(t)' <=> Asking(t)) /\ (Answered(t)' <=> Answered(t))
  BY DEF Asking, Answered
<1>2. \A t \in Tabs : PageInv(t)'
  BY <1>1, PageUntouched DEF PagesInv
<1> QED BY <1>2 DEF PagesInv

\* start() truncates the log, and so does the runner when it opens it: of the one run
\* nothing is lost by that.
LEMMA OpenLogKeepsIInv ==
  ASSUME IInv, NEW r \in Runs, OpenLog(r)
  PROVE  IInv'
<1> USE DEF IInv
<1>1. /\ runner[r] = "starting" /\ runner' = [runner EXCEPT ![r] = "writing"] /\ file' = << >>
      /\ UNCHANGED <<written, liveVars, readerVars, store, pc, requestVars, tabVars,
                     starts, faults, overlap>>
  BY DEF OpenLog
<1>2. UNCHANGED <<state, current, offset, pending, asked, reply, accepted, view, cursor>>
  BY <1>1 DEF liveVars, readerVars, requestVars, tabVars
<1>3. \A x \in Runs : /\ runner'[x] = IF x = r THEN "writing" ELSE runner[x]
                      /\ Alive(x)' <=> Alive(x)
  BY <1>1 DEF TypeOK, Alive
<1>4. TypeOK'
  <2>1. file' \in Seq(Cell)
    <3> HIDE DEF Cell
    <3> QED BY <1>1
  <2>2. runner' \in [Runs -> RunnerStates]
    BY <1>1 DEF TypeOK, RunnerStates
  <2> QED BY <2>1, <2>2, <1>1, <1>2 DEF TypeOK
<1>5. starts \in 0 .. MaxRuns /\ MaxRuns \in Nat /\ (starts > 0 => starts \in Runs)
      /\ MaxRecords \in Nat
  BY LiveAssumption DEF TypeOK, Runs
<1>6. starts > 0 /\ (~overlap => r = starts) /\ written[r] = 0
  BY <1>1, <1>5 DEF RunnersInv, Alive, Runs
<1>7. RunnersInv'
  BY <1>1, <1>3, <1>5, <1>6 DEF RunnersInv
<1>8. Len(file') = 0 /\ DOMAIN file' = {}
  BY <1>1
<1>9. ReaderInv'
  BY <1>1, <1>2, <1>5, <1>6, <1>8 DEF ReaderInv
<1>10. LogInv'
  <2> SUFFICES ASSUME ~overlap
               PROVE  /\ Len(file') = written[starts] /\ offset <= Len(file')
                      /\ Len(pending) <= 1
                      /\ \A i \in DOMAIN pending :
                            pending[i] = LogCell(starts, 2 * Len(store) + i)
                      /\ \A n \in DOMAIN store : store[n] = <<starts, n>>
    BY <1>1, <1>2, <1>8 DEF LogInv
  <2> QED BY <1>6, <1>8 DEF LogInv
<1>11. StateInv'
  BY <1>1, <1>2, <1>3, <1>5 DEF StateInv
<1>12. PagesInv'
  BY <1>1, PagesUntouched
<1> QED BY <1>4, <1>7, <1>9, <1>10, <1>11, <1>12

\* A runner that may still write has written less than what all runs together write.
LEMMA RoomToWrite ==
  ASSUME TypeOK, NEW r \in Runs, Cardinality(CellsWritten) < 2 * MaxRecords
  PROVE  written[r] \in Nat /\ written[r] + 1 \in 1 .. 2 * MaxRecords
<1> DEFINE last == 2 * MaxRecords
           mine == {<<r, i>> : i \in 1 .. written[r]}
           f == [i \in 1 .. written[r] |-> <<r, i>>]
<1>1. last \in Nat /\ written[r] \in 0 .. last /\ MaxRuns \in Nat /\ MaxRecords \in Nat
  BY LiveAssumption DEF TypeOK
<1>2. IsFiniteSet(CellsWritten)
  <2>1. IsFiniteSet(Runs) /\ IsFiniteSet(1 .. last)
    BY <1>1, FS_Interval DEF Runs
  <2>2. IsFiniteSet(Runs \X (1 .. last))
    BY <2>1, FS_Product
  <2> QED BY <2>2, FS_Subset DEF CellsWritten
<1>3. mine \subseteq CellsWritten
  BY <1>1 DEF CellsWritten
<1>4. Cardinality(mine) = written[r]
  <2>1. f \in Bijection(1 .. written[r], mine)
    BY DEF Bijection, Injection, Surjection, IsInjective
  <2>2. ExistsBijection(1 .. written[r], mine)
    BY <2>1 DEF ExistsBijection
  <2>3. IsFiniteSet(1 .. written[r]) /\ Cardinality(1 .. written[r]) = written[r]
    BY <1>1, FS_Interval
  <2> QED BY <2>2, <2>3, FS_Bijection
<1>5. Cardinality(mine) <= Cardinality(CellsWritten)
  BY <1>2, <1>3, FS_Subset
<1>6. Cardinality(CellsWritten) \in Nat
  BY <1>2, FS_CardinalityType
<1> QED BY <1>1, <1>4, <1>5, <1>6

\* A runner appends: with one writer its next cell is the next of the log.
LEMMA WriteCellKeepsIInv ==
  ASSUME IInv, NEW r \in Runs, WriteCell(r)
  PROVE  IInv'
<1> DEFINE n == written[r] + 1
           size == IF n > Len(file) THEN n ELSE Len(file)
<1> USE DEF IInv
<1>1. /\ runner[r] = "writing" /\ Cardinality(CellsWritten) < 2 * MaxRecords
      /\ file' = WriteAt(n, LogCell(r, n)) /\ written' = [written EXCEPT ![r] = n]
      /\ UNCHANGED <<runner, liveVars, readerVars, store, pc, requestVars, tabVars,
                     starts, faults, overlap>>
  BY DEF WriteCell, LogCell
<1>2. UNCHANGED <<state, current, offset, pending, asked, reply, accepted, view, cursor>>
  BY <1>1 DEF liveVars, readerVars, requestVars, tabVars
<1>3. n \in 1 .. 2 * MaxRecords /\ written[r] \in Nat
  BY <1>1, RoomToWrite
<1>4. /\ starts \in 0 .. MaxRuns /\ MaxRuns \in Nat /\ (starts > 0 => starts \in Runs)
      /\ MaxRecords \in Nat /\ Len(file) \in Nat /\ DOMAIN file = 1 .. Len(file)
  BY LiveAssumption, LengthsAreTyped DEF TypeOK, Runs
<1>5. starts > 0 /\ (~overlap => r = starts)
  BY <1>1, <1>4 DEF RunnersInv, Alive, Runs
<1>6. LogCell(r, n) \in Cell
  <2>1. (n + 1) \div 2 \in 1 .. MaxRecords
    BY <1>3, <1>4
  <2> QED BY <2>1 DEF Cell, LogCell
<1>7. Hole \in Cell
  BY DEF Cell
<1>8. size \in Nat /\ Len(file) <= size /\ size <= 2 * MaxRecords
  BY <1>3, <1>4 DEF ReaderInv
<1>9. /\ file' \in Seq(Cell) /\ Len(file') = size /\ DOMAIN file' = 1 .. size
      /\ \A i \in 1 .. size : file'[i] = IF i = n THEN LogCell(r, n)
                                         ELSE IF i <= Len(file) THEN file[i] ELSE Hole
  <2> HIDE DEF Cell, size, n
  <2>1. file' = [i \in 1 .. size |-> IF i = n THEN LogCell(r, n)
                                     ELSE IF i <= Len(file) THEN file[i] ELSE Hole]
    BY <1>1 DEF WriteAt, size
  <2>2. file \in Seq(Cell)
    BY DEF TypeOK
  <2>3. \A i \in 1 .. size : (IF i = n THEN LogCell(r, n)
                              ELSE IF i <= Len(file) THEN file[i] ELSE Hole) \in Cell
    BY <1>4, <1>6, <1>7, <1>8, <2>2
  <2>4. file' \in [1 .. size -> Cell]
    BY <2>1, <2>3
  <2> QED BY <2>1, <2>4, <1>8
<1> HIDE DEF n, size
<1>10. /\ written' \in [Runs -> 0 .. 2 * MaxRecords]
       /\ \A x \in Runs : written'[x] = IF x = r THEN n ELSE written[x]
  BY <1>1, <1>3 DEF TypeOK
<1>11. TypeOK'
  BY <1>1, <1>2, <1>9, <1>10 DEF TypeOK
<1>12. RunnersInv'
  BY <1>1, <1>10 DEF RunnersInv, Alive
<1>13. ReaderInv'
  BY <1>1, <1>2, <1>5, <1>8, <1>9 DEF ReaderInv
<1>14. LogInv'
  <2> SUFFICES ASSUME ~overlap
               PROVE  /\ Len(file') = written'[starts] /\ offset <= Len(file')
                      /\ Len(pending) <= 1
                      /\ \A i \in DOMAIN file' : file'[i] = LogCell(starts, i)
                      /\ \A i \in DOMAIN pending :
                            pending[i] = LogCell(starts, 2 * Len(store) + i)
                      /\ \A k \in DOMAIN store : store[k] = <<starts, k>>
    BY <1>1, <1>2 DEF LogInv
  <2>1. r = starts /\ Len(file) + 1 = n /\ offset <= Len(file)
    BY <1>3, <1>5 DEF LogInv, n
  <2>2. size = n
    BY <2>1, <1>3, <1>4 DEF size, n
  <2>3. offset <= size
    BY <2>1, <1>8, <1>4, LengthsAreTyped
  <2>4. ASSUME NEW i \in DOMAIN file' PROVE file'[i] = LogCell(starts, i)
    <3>1. i \in 1 .. n /\ file'[i] = IF i = n THEN LogCell(r, n)
                                     ELSE IF i <= Len(file) THEN file[i] ELSE Hole
      BY <2>2, <1>9
    <3>2. CASE i = n
      BY <2>1, <3>1, <3>2
    <3>3. CASE i # n
      <4>1. i \in DOMAIN file /\ i <= Len(file)
        BY <2>1, <3>1, <3>3, <1>3, <1>4
      <4> QED BY <4>1, <3>1, <3>3, <1>5 DEF LogInv
    <3> QED BY <3>2, <3>3
  <2> QED BY <2>1, <2>2, <2>3, <2>4, <1>5, <1>9, <1>10 DEF LogInv
<1>15. StateInv'
  <2>1. (state = "completed" /\ ~overlap) => r # starts
    BY <1>1, <1>4 DEF StateInv, Alive
  <2>2. \A x \in Runs : Alive(x)' <=> Alive(x)
    BY <1>1 DEF Alive
  <2>3. Alive(starts)' <=> Alive(starts)
    BY <1>4, <1>1 DEF Alive
  <2>4. (state = "completed" /\ ~overlap) => offset = written'[starts] /\ offset % 2 = 0
    BY <2>1, <1>4, <1>5, <1>10 DEF StateInv
  <2> QED BY <2>2, <2>3, <2>4, <1>1, <1>2 DEF StateInv
<1>16. PagesInv'
  BY <1>1, PagesUntouched
<1> QED BY <1>11, <1>12, <1>13, <1>14, <1>15, <1>16

\* A process ends, with exit code 0 only behind a whole line.
LEMMA ExitKeepsIInv ==
  ASSUME IInv, NEW r \in Runs, Exit(r)
  PROVE  IInv'
<1> USE DEF IInv
<1>1. PICK how \in {"succeeded", "crashed"} :
        /\ Alive(r) /\ (how = "succeeded" => written[r] % 2 = 0)
        /\ runner' = [runner EXCEPT ![r] = IF r = starts THEN how ELSE "absent"]
        /\ UNCHANGED <<file, written, liveVars, readerVars, store, pc, requestVars, tabVars,
                       starts, faults, overlap>>
  BY DEF Exit
<1>2. UNCHANGED <<state, current, offset, pending, asked, reply, accepted, view, cursor>>
  BY <1>1 DEF liveVars, readerVars, requestVars, tabVars
<1>3. \A x \in Runs : runner'[x] = IF x = r THEN IF r = starts THEN how ELSE "absent"
                                             ELSE runner[x]
  BY <1>1 DEF TypeOK
<1>4. starts \in 0 .. MaxRuns /\ MaxRuns \in Nat /\ (starts > 0 => starts \in Runs)
  BY LiveAssumption DEF TypeOK, Runs
<1>5. \A x \in Runs : Alive(x)' => Alive(x) /\ x # r
  BY <1>3 DEF Alive
<1>6. TypeOK'
  <2>1. runner' \in [Runs -> RunnerStates]
    BY <1>1 DEF TypeOK, RunnerStates
  <2> QED BY <2>1, <1>1, <1>2 DEF TypeOK
<1>7. RunnersInv'
  <2>1. \A x \in Runs : x > starts => x # r
    BY <1>1 DEF RunnersInv, Alive
  <2>2. ASSUME NEW x \in Runs
        PROVE  /\ x > starts => runner'[x] = "absent"
               /\ (x > starts \/ runner'[x] = "starting") => written[x] = 0
               /\ runner'[x] = "succeeded" => written[x] % 2 = 0
               /\ (x # starts /\ ~overlap) => ~Alive(x)'
    BY <2>1, <1>1, <1>3, <1>5 DEF RunnersInv
  <2>3. starts > 0 => runner'[starts] # "absent"
    BY <1>3, <1>4 DEF RunnersInv
  <2> QED BY <2>2, <2>3, <1>1 DEF RunnersInv
<1>8. ReaderInv' /\ LogInv'
  BY <1>1, <1>2 DEF ReaderInv, LogInv
<1>9. StateInv'
  <2>1. starts > 0 => (Alive(starts)' => Alive(starts))
    BY <1>1, <1>4, <1>5
  <2>2. (starts > 0 /\ runner[starts] = "crashed") => runner'[starts] = "crashed"
    BY <1>1, <1>3, <1>4 DEF Alive
  <2> QED BY <2>1, <2>2, <1>1, <1>2, <1>5 DEF StateInv
<1>10. PagesInv'
  BY <1>1, PagesUntouched
<1> QED BY <1>6, <1>7, <1>8, <1>9, <1>10

\* The state and the reader aside, the invariant survives a step of refresh().
LEMMA RefreshGoesOn ==
  ASSUME IInv, NEW th \in Threads, pc[th] \in {"refresh", "exit"}, pc[th] = "exit" \/ Free,
         NEW place \in {"exit", Back(th)}, Goto(th, place),
         UNCHANGED <<processVars, current, requestVars, tabVars, starts, overlap>>,
         state' \in {"running", "completed", "failed", state}, faults' \in 0 .. MaxFaults,
         offset' \in 0 .. 2 * MaxRecords, pending' \in Seq(Cell), store' \in Seq(Record)
  PROVE  /\ TypeOK' /\ RunnersInv' /\ PagesInv'
         /\ \A x \in Threads : pc'[x] = "exit" => x = th /\ place = "exit"
<1> USE DEF IInv
<1>1. UNCHANGED <<file, runner, written, current, asked, reply, accepted, view, cursor,
                  starts, overlap>>
  BY DEF processVars, requestVars, tabVars
<1>2. place \in Places
  BY DEF Back, Places
<1>3. /\ pc' \in [Threads -> Places] /\ pc'[th] = place
      /\ \A x \in Threads : x # th => pc'[x] = pc[x]
      /\ Cardinality({x \in Threads : pc'[x] = "exit"}) <= 1
  BY <1>2, HandlerSteps
<1>4. TypeOK'
  <2>1. state' \in {"idle", "running", "completed", "failed"}
    BY DEF TypeOK
  <2> QED BY <2>1, <1>1, <1>3 DEF TypeOK
<1>5. RunnersInv'
  BY <1>1 DEF RunnersInv, Alive
<1>6. PagesInv'
  BY <1>3, PagesGoOn
<1>7. \A x \in Threads : pc'[x] = "exit" => x = th /\ place = "exit"
  BY <1>3 DEF StateInv, Free
<1> QED BY <1>4, <1>5, <1>6, <1>7

\* A handler that only goes on.
LEMMA RefreshPasses ==
  ASSUME IInv, NEW th \in Threads, pc[th] \in {"refresh", "exit"}, pc[th] = "exit" \/ Free,
         Goto(th, Back(th)), UNCHANGED <<state, readerVars, store, faults>>,
         UNCHANGED <<processVars, current, requestVars, tabVars, starts, overlap>>
  PROVE  IInv'
<1> USE DEF IInv
<1>1. UNCHANGED <<file, runner, written, current, offset, pending, starts, overlap>>
  BY DEF processVars, readerVars
<1>3. /\ offset' \in 0 .. 2 * MaxRecords /\ pending' \in Seq(Cell) /\ store' \in Seq(Record)
      /\ faults' \in 0 .. MaxFaults
  BY <1>1 DEF TypeOK
<1>4. /\ TypeOK' /\ RunnersInv' /\ PagesInv'
      /\ \A x \in Threads : pc'[x] = "exit" => x = th /\ Back(th) = "exit"
  BY <1>3, RefreshGoesOn
<1>5. \A x \in Threads : pc'[x] # "exit"
  BY <1>4 DEF Back
<1>6. ReaderInv' /\ LogInv'
  BY <1>1 DEF ReaderInv, LogInv
<1>7. StateInv'
  BY <1>1, <1>5 DEF StateInv, Alive
<1> QED BY <1>4, <1>6, <1>7

\* A handler whose read fails gives the run up: without a fault only if its process
\* crashed.
LEMMA RefreshGivesUp ==
  ASSUME IInv, NEW th \in Threads, pc[th] \in {"refresh", "exit"}, pc[th] = "exit" \/ Free,
         state = "running",
         PollRaises(th, Unreadable \/ (~Alive(current) /\ Unfinished # << >>)),
         UNCHANGED <<processVars, current, requestVars, tabVars, starts, overlap>>
  PROVE  IInv'
<1> USE DEF IInv
<1>1. UNCHANGED <<file, runner, written, current, offset, pending, store, starts, overlap>>
      /\ state' = "failed" /\ Goto(th, Back(th))
  BY DEF processVars, readerVars, PollRaises
<1> DEFINE torn == ~Alive(current) /\ Unfinished # << >>
<1>3. faults \in 0 .. MaxFaults /\ MaxFaults \in Nat
  BY LiveAssumption DEF TypeOK
<1>4. faults' \in 0 .. MaxFaults /\ (faults' = 0 => faults = 0 /\ (Unreadable \/ torn))
  <2>1. CASE (Unreadable \/ torn) /\ UNCHANGED faults
    BY <2>1, <1>3
  <2>2. CASE faults < MaxFaults /\ faults' = faults + 1
    BY <2>2, <1>3
  <2> QED BY <2>1, <2>2 DEF PollRaises
<1>5. offset' \in 0 .. 2 * MaxRecords /\ pending' \in Seq(Cell) /\ store' \in Seq(Record)
  BY <1>1 DEF TypeOK
<1>6. /\ TypeOK' /\ RunnersInv' /\ PagesInv'
      /\ \A x \in Threads : pc'[x] = "exit" => x = th /\ Back(th) = "exit"
  BY <1>1, <1>4, <1>5, RefreshGoesOn
<1>7. \A x \in Threads : pc'[x] # "exit"
  BY <1>6 DEF Back
<1>8. ReaderInv' /\ LogInv'
  BY <1>1 DEF ReaderInv, LogInv
<1>9. starts > 0 /\ starts \in Runs /\ current = starts
  BY LiveAssumption DEF StateInv, TypeOK, Runs
<1>10. ASSUME faults' = 0
       PROVE  ~overlap /\ runner[starts] = "crashed" /\ \A r \in Runs : ~Alive(r)
  <2>1. /\ faults = 0 /\ (Unreadable \/ torn) /\ ~overlap
        /\ \A r \in Runs : Alive(r) => r = current
    BY <1>10, <1>4 DEF StateInv
  <2>2. torn /\ written[starts] % 2 # 0
    BY <2>1, <1>9, OneRunIsReadable
  <2>3. ~Alive(starts) /\ runner[starts] \notin {"absent", "succeeded"}
    BY <2>2, <1>9 DEF RunnersInv
  <2>4. runner[starts] = "crashed"
    BY <2>3, <1>9 DEF TypeOK, RunnerStates, Alive
  <2> QED BY <2>1, <2>3, <2>4, <1>9
<1>11. StateInv'
  BY <1>1, <1>7, <1>9, <1>10 DEF StateInv, Alive
<1> QED BY <1>6, <1>8, <1>11

\* The first half of refresh(): a read of the log, under the lock.
LEMMA RefreshKeepsIInv ==
  ASSUME IInv, NEW th \in Threads, Refresh(th)
  PROVE  IInv'
<1> USE DEF IInv
<1>1. /\ pc[th] \in {"refresh", "exit"} /\ Free
      /\ UNCHANGED <<processVars, current, requestVars, tabVars, starts, overlap>>
  BY DEF Refresh
<1>2. CASE state # "running"
  BY <1>1, <1>2, RefreshPasses DEF Refresh
<1>3. CASE state = "running" /\ PollRaises(th, Unreadable)
  <2>1. PollRaises(th, Unreadable \/ (~Alive(current) /\ Unfinished # << >>))
    BY <1>3 DEF PollRaises
  <2> QED BY <1>1, <1>3, <2>1, RefreshGivesUp
<1>4. CASE /\ state = "running" /\ ~Unreadable /\ PollReturns(FALSE)
           /\ Goto(th, "exit") /\ UNCHANGED state
  <2>1. UNCHANGED <<file, runner, written, current, starts, overlap, faults>>
    BY <1>1, <1>4 DEF processVars, PollReturns
  <2>2. /\ offset' \in 0 .. 2 * MaxRecords /\ pending' \in Seq(Cell) /\ store' \in Seq(Record)
        /\ ReaderInv' /\ LogInv'
    BY <1>4, <2>1, PollKeepsLog
  <2>3. faults' \in 0 .. MaxFaults
    BY <2>1 DEF TypeOK
  <2>4. /\ TypeOK' /\ RunnersInv' /\ PagesInv'
        /\ \A x \in Threads : pc'[x] = "exit" => x = th
    BY <1>1, <1>4, <2>2, <2>3, RefreshGoesOn
  <2>5. StateInv'
    BY <1>4, <2>1, <2>4 DEF StateInv, Alive
  <2> QED BY <2>2, <2>4, <2>5
<1> QED BY <1>2, <1>3, <1>4 DEF Refresh

\* The second half: the run has ended or not; its last lines are read before its exit
\* code becomes the state.
LEMMA FinishKeepsIInv ==
  ASSUME IInv, NEW th \in Threads, Finish(th)
  PROVE  IInv'
<1> USE DEF IInv
<1>1. /\ pc[th] \in {"refresh", "exit"} /\ pc[th] = "exit"
      /\ UNCHANGED <<processVars, current, requestVars, tabVars, starts, overlap>>
  BY DEF Finish
<1>2. state = "running" /\ current = starts /\ starts > 0 /\ starts \in Runs
  BY <1>1, LiveAssumption DEF StateInv, TypeOK, Runs
<1>3. CASE ~Ended
  BY <1>1, <1>3, RefreshPasses DEF Finish
<1>4. CASE Ended /\ PollRaises(th, Unreadable \/ Unfinished # << >>)
  <2>1. PollRaises(th, Unreadable \/ (~Alive(current) /\ Unfinished # << >>))
    BY <1>4 DEF PollRaises, Ended
  <2> QED BY <1>1, <1>2, <2>1, RefreshGivesUp
<1>5. CASE /\ Ended /\ ~Unreadable /\ MayDecode(Unfinished) /\ PollReturns(TRUE)
           /\ Goto(th, Back(th))
           /\ state' = IF runner[current] = "succeeded" THEN "completed" ELSE "failed"
  <2>1. UNCHANGED <<file, runner, written, current, starts, overlap, faults>>
    BY <1>1, <1>5 DEF processVars, PollReturns
  <2>2. /\ offset' \in 0 .. 2 * MaxRecords /\ pending' \in Seq(Cell) /\ store' \in Seq(Record)
        /\ ReaderInv' /\ LogInv' /\ offset' = Len(file)
    BY <1>2, <1>5, <2>1, PollKeepsLog
  <2>3. faults' \in 0 .. MaxFaults
    BY <2>1 DEF TypeOK
  <2>4. /\ TypeOK' /\ RunnersInv' /\ PagesInv'
        /\ \A x \in Threads : pc'[x] = "exit" => x = th /\ Back(th) = "exit"
    BY <1>1, <1>5, <2>2, <2>3, RefreshGoesOn
  <2>5. \A x \in Threads : pc'[x] # "exit"
    BY <2>4 DEF Back
  <2>6. ~Alive(starts) /\ runner[starts] \in {"succeeded", "crashed"}
    <3>1. ~Alive(starts) /\ runner[starts] # "absent" /\ runner[starts] \in RunnerStates
      BY <1>2, <1>5 DEF Ended, RunnersInv, TypeOK
    <3> QED BY <3>1 DEF Alive, RunnerStates
  <2>7. (~overlap /\ runner[starts] = "succeeded") =>
            offset' = written[starts] /\ offset' % 2 = 0
    BY <1>2, <2>2 DEF LogInv, RunnersInv
  <2>8. faults = 0 => ~overlap /\ \A r \in Runs : ~Alive(r)
    BY <1>2, <2>6 DEF StateInv
  <2>9. StateInv'
    BY <1>2, <1>5, <2>1, <2>5, <2>6, <2>7, <2>8 DEF StateInv, Alive
  <2> QED BY <2>2, <2>4, <2>9
<1> QED BY <1>3, <1>4, <1>5 DEF Finish

\* A step of a page or of a handler that neither takes the lock nor gives it back leaves
\* the runners, the reader and the state alone.
LEMMA OutsideTheLock ==
  ASSUME IInv, NEW th \in Threads, NEW place \in Places \ {"exit"}, pc[th] # "exit",
         Goto(th, place),
         UNCHANGED <<processVars, liveVars, readerVars, store, starts, faults, overlap>>
  PROVE  /\ RunnersInv' /\ ReaderInv' /\ LogInv' /\ StateInv'
         /\ pc' \in [Threads -> Places] /\ pc'[th] = place
         /\ \A x \in Threads : x # th => pc'[x] = pc[x]
         /\ Cardinality({x \in Threads : pc'[x] = "exit"}) <= 1
<1> USE DEF IInv
<1>1. UNCHANGED <<file, runner, written, state, current, offset, pending>>
  BY DEF processVars, liveVars, readerVars
<1>2. /\ pc' \in [Threads -> Places] /\ pc'[th] = place
      /\ \A x \in Threads : x # th => pc'[x] = pc[x]
      /\ Cardinality({x \in Threads : pc'[x] = "exit"}) <= 1
  BY HandlerSteps
<1>3. RunnersInv' /\ ReaderInv' /\ LogInv'
  BY <1>1 DEF RunnersInv, ReaderInv, LogInv, Alive
<1>4. StateInv'
  <2>1. \A x \in Threads : pc'[x] = "exit" => pc[x] = "exit"
    BY <1>2
  <2> QED BY <2>1, <1>1 DEF StateInv, Alive
<1> QED BY <1>2, <1>3, <1>4

\* The state of a page, without what else the step did, is that of before it.
LEMMA OtherPages ==
  ASSUME IInv, NEW t \in Tabs, pc'[<<t, "poll">>] = pc[<<t, "poll">>],
         asked'[t] = asked[t], reply'[t] = reply[t], view'[t] = view[t],
         cursor'[t] = cursor[t], UNCHANGED <<starts, overlap>>
  PROVE  PageInv(t)'
<1>1. (Asking(t)' <=> Asking(t)) /\ (Answered(t)' <=> Answered(t))
  BY DEF Asking, Answered
<1> QED BY <1>1, PageUntouched DEF IInv, PagesInv

\* Two threads of two pages, or of one, are different threads.
LEMMA ThreadsDiffer ==
  /\ \A t \in Tabs : <<t, "poll">> \in Threads
  /\ \A t \in Starters : <<t, "start">> \in Threads /\ t \in Tabs
  /\ \A t, u \in Tabs : <<t, "poll">> # <<u, "start">>
  /\ \A t, u \in Tabs : t # u => <<t, "poll">> # <<u, "poll">> /\ <<t, "start">> # <<u, "start">>
BY LiveAssumption DEF Threads

\* A page asks from its cursor on.
LEMMA SendPollKeepsIInv ==
  ASSUME IInv, NEW t \in Tabs, SendPoll(t)
  PROVE  IInv'
<1> DEFINE th == <<t, "poll">>
<1> USE DEF IInv
<1>1. /\ pc[th] = "idle" /\ Goto(th, "refresh") /\ asked' = [asked EXCEPT ![t] = cursor[t]]
      /\ UNCHANGED <<processVars, liveVars, readerVars, store, reply, accepted, tabVars,
                     starts, faults, overlap>>
  BY DEF SendPoll
<1>2. th \in Threads
  BY ThreadsDiffer
<1> HIDE DEF th
<1>3. /\ RunnersInv' /\ ReaderInv' /\ LogInv' /\ StateInv'
      /\ pc' \in [Threads -> Places] /\ pc'[th] = "refresh"
      /\ \A x \in Threads : x # th => pc'[x] = pc[x]
      /\ Cardinality({x \in Threads : pc'[x] = "exit"}) <= 1
  <2>1. "refresh" \in Places \ {"exit"}
    BY DEF Places
  <2> QED BY <1>1, <1>2, <2>1, OutsideTheLock
<1>4. UNCHANGED <<file, runner, written, state, current, offset, pending, view, cursor>>
  BY <1>1 DEF processVars, liveVars, readerVars, tabVars
<1>5. asked' \in [Tabs -> 0 .. MaxRecords]
      /\ \A u \in Tabs : asked'[u] = IF u = t THEN cursor[t] ELSE asked[u]
  BY <1>1 DEF TypeOK
<1>6. TypeOK'
  BY <1>1, <1>3, <1>4, <1>5 DEF TypeOK
<1>7. ASSUME NEW u \in Tabs PROVE PageInv(u)'
  <2>1. CASE u = t
    <3>1. /\ asked'[u] = cursor'[u] /\ Asking(u)' /\ ~Answered(u)' /\ ~Answered(u)
          /\ PageInv(u)
      BY <2>1, <1>1, <1>3, <1>4, <1>5 DEF Asking, Answered, th, PagesInv
    <3>2. IndexInv(u)'
      BY <3>1, <1>1, <1>4 DEF PageInv, IndexInv
    <3>3. RecordsInv(u)'
      BY <3>1, <1>1, <1>4 DEF PageInv, RecordsInv
    <3>4. u \notin Starters => WatcherInv(u)'
      BY <3>1, <1>1, <1>4 DEF PageInv, WatcherInv
    <3> QED BY <3>2, <3>3, <3>4 DEF PageInv
  <2>2. CASE u # t
    <3>1. pc'[<<u, "poll">>] = pc[<<u, "poll">>]
      BY <2>2, <1>3, ThreadsDiffer DEF th
    <3> QED BY <2>2, <3>1, <1>1, <1>4, <1>5, OtherPages
  <2> QED BY <2>1, <2>2
<1>8. \A u \in Starters : pc'[<<u, "start">>] # "answer"
  BY <1>3, ThreadsDiffer DEF PagesInv, th
<1>9. PagesInv'
  BY <1>7, <1>8 DEF PagesInv
<1> QED BY <1>3, <1>6, <1>9

\* There is room for every record of the store in an event.
LEMMA StoreIsBounded ==
  ASSUME TypeOK, ReaderInv
  PROVE  Len(store) <= MaxRecords
<1>1. /\ Len(store) \in Nat /\ Len(pending) \in Nat /\ MaxRecords \in Nat
      /\ offset \in 0 .. 2 * MaxRecords
  BY LengthsAreTyped DEF TypeOK
<1>2. 2 * Len(store) + Len(pending) = offset \/ 2 * Len(store) = offset + 1
  BY DEF ReaderInv
<1> QED BY <1>1, <1>2

\* What a poll is answered are the events behind the index it asks for.
LEMMA EventsBehind ==
  ASSUME IInv, NEW c \in Nat
  PROVE  /\ After(c) \in Seq(Event)
         /\ After(c) # << >> => After(c)[1].index = c + 1
         /\ \A k \in DOMAIN After(c) :
               /\ After(c)[k].index = c + k /\ c + k \in DOMAIN store
               /\ After(c)[k].record = store[c + k]
<1> DEFINE n == Len(store) - c
           size == IF n > 0 THEN n ELSE 0
<1>1. /\ Len(store) \in Nat /\ DOMAIN store = 1 .. Len(store) /\ store \in Seq(Record)
      /\ Len(store) <= MaxRecords /\ MaxRecords \in Nat
  BY LengthsAreTyped, StoreIsBounded DEF IInv, TypeOK
<1>2. size \in Nat /\ 1 .. Len(store) - (c + 1) + 1 = 1 .. size
  <2>1. Len(store) - (c + 1) + 1 = n /\ n \in Int
    BY <1>1
  <2> HIDE DEF n
  <2>2. 1 .. n = 1 .. size
    <3>1. CASE n > 0
      BY <3>1
    <3>2. CASE ~ (n > 0)
      <4>1. 1 .. n = {} /\ 1 .. 0 = {}
        BY <2>1, <3>2
      <4> QED BY <3>2, <4>1
    <3> QED BY <3>1, <3>2
  <2> QED BY <2>1, <2>2
<1>3. \A k \in 1 .. size : c + 1 + k - 1 = c + k /\ c + k \in 1 .. Len(store)
  BY <1>1
<1> HIDE DEF size
<1>4. After(c) = [k \in 1 .. size |-> [index |-> c + k, record |-> store[c + k]]]
  BY <1>2, <1>3 DEF After, EventsFrom
<1>5. \A k \in 1 .. size : [index |-> c + k, record |-> store[c + k]] \in Event
  <2> TAKE k \in 1 .. size
  <2>1. c + k \in 1 .. MaxRecords
    BY <1>1, <1>3
  <2>2. store[c + k] \in Record
    <3> HIDE DEF Record
    <3> QED BY <1>1, <1>3
  <2> QED BY <2>1, <2>2 DEF Event
<1>6. After(c) \in Seq(Event)
  <2> HIDE DEF Event
  <2>1. After(c) \in [1 .. size -> Event]
    BY <1>4, <1>5
  <2> QED BY <1>2, <2>1
<1>7. DOMAIN After(c) = 1 .. size
  BY <1>4
<1>8. \A k \in DOMAIN After(c) : /\ After(c)[k].index = c + k /\ c + k \in DOMAIN store
                                 /\ After(c)[k].record = store[c + k]
  BY <1>1, <1>3, <1>4, <1>7
<1>9. After(c) # << >> => After(c)[1].index = c + 1
  <2>1. After(c) # << >> => 1 \in DOMAIN After(c)
    <3> HIDE DEF Event
    <3> QED BY <1>6
  <2> QED BY <2>1, <1>8
<1> QED BY <1>6, <1>8, <1>9

\* A poll is answered with what the store has behind what it asked for.
LEMMA AnswerKeepsIInv ==
  ASSUME IInv, NEW th \in Threads, Answer(th)
  PROVE  IInv'
<1> DEFINE t == th[1]
<1> USE DEF IInv
<1>1. /\ pc[th] = "answer" /\ Goto(th, "arrive") /\ reply' = [reply EXCEPT ![t] = After(asked[t])]
      /\ asked' = [asked EXCEPT ![t] = 0]
      /\ UNCHANGED <<processVars, liveVars, readerVars, store, accepted, tabVars,
                     starts, faults, overlap>>
  BY DEF Answer
<1>2. t \in Tabs /\ th = <<t, "poll">>
  BY <1>1, ThreadIsAPages DEF PagesInv
<1> HIDE DEF t
<1>3. /\ RunnersInv' /\ ReaderInv' /\ LogInv' /\ StateInv'
      /\ pc' \in [Threads -> Places] /\ pc'[th] = "arrive"
      /\ \A x \in Threads : x # th => pc'[x] = pc[x]
      /\ Cardinality({x \in Threads : pc'[x] = "exit"}) <= 1
  <2>1. "arrive" \in Places \ {"exit"}
    BY DEF Places
  <2> QED BY <1>1, <2>1, OutsideTheLock
<1>4. UNCHANGED <<file, runner, written, state, current, offset, pending, view, cursor>>
  BY <1>1 DEF processVars, liveVars, readerVars, tabVars
<1>5. asked[t] \in Nat /\ cursor[t] \in Nat /\ MaxRecords \in Nat
  BY <1>2, LiveAssumption DEF TypeOK
<1> DEFINE events == After(asked[t])
<1>6. /\ events \in Seq(Event)
      /\ events # << >> => events[1].index = asked[t] + 1
      /\ \A k \in DOMAIN events :
            /\ events[k].index = asked[t] + k /\ asked[t] + k \in DOMAIN store
            /\ events[k].record = store[asked[t] + k]
  BY <1>5, EventsBehind
<1> HIDE DEF events
<1>7. /\ asked' \in [Tabs -> 0 .. MaxRecords] /\ reply' \in [Tabs -> Seq(Event)]
      /\ \A u \in Tabs : /\ asked'[u] = IF u = t THEN 0 ELSE asked[u]
                         /\ reply'[u] = IF u = t THEN events ELSE reply[u]
  <2> HIDE DEF Event
  <2>1. 0 \in 0 .. MaxRecords
    BY <1>5
  <2> QED BY <1>1, <1>6, <2>1 DEF TypeOK, events
<1>8. TypeOK'
  BY <1>1, <1>3, <1>4, <1>7 DEF TypeOK
<1>9. ASSUME NEW u \in Tabs PROVE PageInv(u)'
  <2>1. CASE u = t
    <3>1. /\ ~Asking(u)' /\ Answered(u)' /\ Asking(u) /\ reply'[u] = events
          /\ PageInv(u)
      BY <2>1, <1>1, <1>2, <1>3, <1>7 DEF Asking, Answered, PagesInv
    <3>2. IndexInv(u)'
      <4>1. \A k \in DOMAIN events : k \in Nat /\ events # << >>
        <5> HIDE DEF Event
        <5> QED BY <1>6
      <4>2. \A k \in DOMAIN events : events[k].index = events[1].index + k - 1
        BY <4>1, <1>5, <1>6
      <4> QED BY <2>1, <3>1, <4>2, <1>4, <1>6 DEF PageInv, IndexInv
    <3>3. ASSUME ~overlap
          PROVE  /\ \A k \in DOMAIN events :
                       /\ events[k].record[2] = events[k].index
                       /\ events[k].record[1] = starts
                 /\ events # << >> => 1 \in DOMAIN events
      <4>1. \A n \in DOMAIN store : starts > 0 /\ store[n] = <<starts, n>>
        <5>1. starts = 0 => DOMAIN store = {}
          BY LengthsAreTyped DEF ReaderInv
        <5> QED BY <3>3, <5>1, LengthsAreTyped DEF LogInv
      <4>2. events # << >> => 1 \in DOMAIN events
        <5> HIDE DEF Event
        <5> QED BY <1>6
      <4> QED BY <4>1, <4>2, <1>6
    <3>4. RecordsInv(u)'
      <4> SUFFICES ASSUME ~overlap PROVE RecordsInv(u)'
        BY <1>1 DEF RecordsInv
      <4>1. /\ \A k \in DOMAIN view[u] :
                 /\ view[u][k].record[2] = view[u][k].index /\ view[u][k].record[1] <= starts
                 /\ k > 1 => view[u][k].record[1] >= view[u][k - 1].record[1]
            /\ view[u] # << >> => Len(view[u]) \in DOMAIN view[u]
        <5> HIDE DEF Event
        <5> QED BY <3>1 DEF PageInv, RecordsInv, TypeOK
      <4>2. starts \in Int /\ starts <= starts /\ (view[u] # << >> =>
                starts >= view[u][Len(view[u])].record[1])
        <5>1. view[u] # << >> => view[u][Len(view[u])].record[1] <= starts
          BY <4>1
        <5>2. starts \in Nat
          BY LengthsAreTyped
        <5> QED BY <5>1, <5>2
      <4> QED BY <3>1, <3>3, <4>1, <4>2, <1>1, <1>4 DEF RecordsInv
    <3>5. u \notin Starters => WatcherInv(u)'
      BY <2>1, <3>1, <1>4, <1>6 DEF PageInv, WatcherInv
    <3> QED BY <3>2, <3>4, <3>5 DEF PageInv
  <2>2. CASE u # t
    <3>1. pc'[<<u, "poll">>] = pc[<<u, "poll">>]
      BY <2>2, <1>2, <1>3, ThreadsDiffer
    <3> QED BY <2>2, <3>1, <1>1, <1>4, <1>7, OtherPages
  <2> QED BY <2>1, <2>2
<1>10. \A u \in Starters : pc'[<<u, "start">>] # "answer"
  BY <1>2, <1>3, ThreadsDiffer DEF PagesInv
<1>11. PagesInv'
  BY <1>9, <1>10 DEF PagesInv
<1> QED BY <1>3, <1>8, <1>11

\* The larger of two numbers.
LEMMA LargerOfTwo ==
  ASSUME NEW c \in Nat, NEW b \in Nat, c <= b
  PROVE  Max({c, b}) = b
<1> DEFINE high(x) == x \in {c, b} /\ \A y \in {c, b} : x >= y
<1>1. high(b) /\ \A x : high(x) => x = b
  BY SMT
<1> QED BY <1>1 DEF Max

\* A page that appends events to what it shows.
Behind(shown, events, both) ==
    /\ both \in Seq(Event) /\ Len(both) = Len(shown) + Len(events)
    /\ \A k \in 1 .. Len(shown) : both[k] = shown[k]
    /\ \A k \in 1 .. Len(events) : both[Len(shown) + k] = events[k]
    /\ \A k \in 1 .. Len(both) :
          \/ k \in 1 .. Len(shown)
          \/ \E n \in 1 .. Len(events) : k = Len(shown) + n

LEMMA EventsAreAppended ==
  ASSUME NEW shown \in Seq(Event), NEW events \in Seq(Event)
  PROVE  Behind(shown, events, shown \o events)
<1> HIDE DEF Event
<1> DEFINE both == shown \o events
<1>1. /\ both \in Seq(Event) /\ Len(both) = Len(shown) + Len(events)
      /\ \A i \in 1 .. Len(shown) + Len(events) :
            both[i] = IF i <= Len(shown) THEN shown[i] ELSE events[i - Len(shown)]
  BY ConcatProperties
<1>2. Len(shown) \in Nat /\ Len(events) \in Nat
  OBVIOUS
<1> HIDE DEF both
<1>3. \A k \in 1 .. Len(shown) : both[k] = shown[k]
  BY <1>1, <1>2
<1>4. \A k \in 1 .. Len(events) : both[Len(shown) + k] = events[k]
  <2> TAKE k \in 1 .. Len(events)
  <2>1. Len(shown) + k \in 1 .. Len(shown) + Len(events) /\ ~ (Len(shown) + k <= Len(shown))
        /\ Len(shown) + k - Len(shown) = k
    BY <1>2
  <2> QED BY <2>1, <1>1
<1>5. ASSUME NEW k \in 1 .. Len(both), ~ (k \in 1 .. Len(shown))
      PROVE  \E n \in 1 .. Len(events) : k = Len(shown) + n
  <2>1. k - Len(shown) \in 1 .. Len(events) /\ k = Len(shown) + (k - Len(shown))
    BY <1>1, <1>2, <1>5
  <2> QED BY <2>1
<1> QED BY <1>1, <1>3, <1>4, <1>5 DEF Behind, both

\* What one page does with an answer is no other's business.
LEMMA ArrivalIsLocal ==
  ASSUME IInv, NEW t \in Tabs, PageInv(t)', TypeOK', RunnersInv', ReaderInv', LogInv', StateInv',
         \A x \in Threads : x # <<t, "poll">> => pc'[x] = pc[x],
         \A u \in Tabs : u # t => /\ view'[u] = view[u] /\ reply'[u] = reply[u]
                                 /\ cursor'[u] = cursor[u],
         UNCHANGED <<asked, starts, overlap>>
  PROVE  IInv'
<1>1. ASSUME NEW u \in Tabs, u # t PROVE PageInv(u)'
  <2>1. pc'[<<u, "poll">>] = pc[<<u, "poll">>]
    BY <1>1, ThreadsDiffer
  <2> QED BY <1>1, <2>1, OtherPages
<1>2. \A u \in Starters : pc'[<<u, "start">>] # "answer"
  BY ThreadsDiffer DEF IInv, PagesInv
<1>3. PagesInv'
  BY <1>1, <1>2 DEF PagesInv
<1> QED BY <1>3 DEF IInv

\* The events of an answer go on where the page ends.
LEMMA EventsArriveKeepsIInv ==
  ASSUME IInv, NEW t \in Tabs, EventsArrive(t)
  PROVE  IInv'
<1> DEFINE th == <<t, "poll">>
           shown == view[t]
           events == reply[t]
           both == shown \o events
<1> USE DEF IInv
<1>1. /\ pc[th] = "arrive" /\ Goto(th, "idle") /\ reply' = [reply EXCEPT ![t] = << >>]
      /\ view' = [view EXCEPT ![t] = both]
      /\ cursor' = [cursor EXCEPT ![t] = IF events = << >> THEN cursor[t]
                                         ELSE Max({cursor[t], events[Len(events)].index})]
      /\ UNCHANGED <<processVars, liveVars, readerVars, store, asked, accepted,
                     starts, faults, overlap>>
  BY DEF EventsArrive
<1>2. th \in Threads
  BY ThreadsDiffer
<1>3. /\ RunnersInv' /\ ReaderInv' /\ LogInv' /\ StateInv'
      /\ pc' \in [Threads -> Places] /\ pc'[th] = "idle"
      /\ \A x \in Threads : x # th => pc'[x] = pc[x]
      /\ Cardinality({x \in Threads : pc'[x] = "exit"}) <= 1
  <2> HIDE DEF th
  <2>1. "idle" \in Places \ {"exit"}
    BY DEF Places
  <2> QED BY <1>1, <1>2, <2>1, OutsideTheLock
<1>4. UNCHANGED <<file, runner, written, state, current, offset, pending>>
  BY <1>1 DEF processVars, liveVars, readerVars
<1>5. /\ ~Asking(t)' /\ ~Answered(t)' /\ PageInv(t)
  BY <1>3 DEF Asking, Answered, PagesInv
<1>6. /\ shown \in Seq(Event) /\ events \in Seq(Event) /\ cursor[t] \in 0 .. MaxRecords
      /\ MaxRecords \in Nat
  BY LiveAssumption DEF TypeOK
<1> HIDE DEF th, shown, events
<1>7. Behind(shown, events, both)
  BY <1>6, EventsAreAppended
<1>8. both \in Seq(Event)
  BY <1>7 DEF Behind
<1> HIDE DEF both
<1>9. /\ view' \in [Tabs -> Seq(Event)] /\ reply' \in [Tabs -> Seq(Event)]
      /\ \A u \in Tabs : /\ view'[u] = IF u = t THEN both ELSE view[u]
                         /\ reply'[u] = IF u = t THEN << >> ELSE reply[u]
  <2> HIDE DEF Event
  <2> QED BY <1>1, <1>8 DEF TypeOK
<1>10. /\ Len(shown) \in Nat /\ Len(events) \in Nat
       /\ DOMAIN shown = 1 .. Len(shown) /\ DOMAIN events = 1 .. Len(events)
       /\ DOMAIN both = 1 .. Len(both) /\ Len(both) \in Nat
       /\ (shown = << >> <=> Len(shown) = 0) /\ (events = << >> <=> Len(events) = 0)
       /\ (both = << >> <=> Len(both) = 0) /\ cursor[t] \in Nat
  <2> HIDE DEF Event
  <2> QED BY <1>6, <1>8
<1>11. /\ Len(both) = Len(shown) + Len(events)
       /\ \A k \in 1 .. Len(shown) : both[k] = shown[k]
       /\ \A k \in 1 .. Len(events) : both[Len(shown) + k] = events[k]
       /\ \A k \in 1 .. Len(both) :
             \/ k \in 1 .. Len(shown)
             \/ \E n \in 1 .. Len(events) : k = Len(shown) + n
  BY <1>7 DEF Behind
\* The indices go on: an answer that has any begins behind the cursor.
<1>12. /\ shown = << >> => cursor[t] = 0
       /\ \A k \in 1 .. Len(shown) : shown[k].index = cursor[t] - Len(shown) + k
       /\ events # << >> => events[1].index = cursor[t] + 1 \/ shown = << >>
       /\ \A k \in 1 .. Len(events) : events[k].index = events[1].index + k - 1
  BY <1>5, <1>10 DEF PageInv, IndexInv, shown, events
<1>13. \A k \in 1 .. Len(events) : events[k].index \in 1 .. MaxRecords
  <2> TAKE k \in 1 .. Len(events)
  <2>1. events[k] \in Event
    <3> HIDE DEF Event
    <3> QED BY <1>6
  <2> QED BY <2>1 DEF Event
<1>14. CASE events = << >>
  <2>1. cursor' = cursor /\ both = shown
    <3>1. both = shown
      <4> HIDE DEF Event
      <4> QED BY <1>6, <1>14, ConcatEmptySeq DEF both
    <3>2. cursor' = cursor
      BY <1>1, <1>14 DEF TypeOK
    <3> QED BY <3>1, <3>2
  <2>2. TypeOK'
    BY <2>1, <1>1, <1>3, <1>4, <1>9 DEF TypeOK
  <2>3. PageInv(t)'
    <3>1. view'[t] = view[t] /\ reply'[t] = << >> /\ reply[t] = << >> /\ cursor'[t] = cursor[t]
      BY <2>1, <1>9, <1>14 DEF shown, events
    <3>2. IndexInv(t)'
      BY <3>1, <1>5 DEF PageInv, IndexInv
    <3>3. RecordsInv(t)'
      BY <3>1, <1>1, <1>5 DEF PageInv, RecordsInv
    <3>4. t \notin Starters => WatcherInv(t)'
      BY <3>1, <1>5 DEF PageInv, WatcherInv
    <3> QED BY <3>2, <3>3, <3>4 DEF PageInv
  <2> QED BY <2>1, <2>2, <2>3, <1>1, <1>3, <1>4, <1>9, ArrivalIsLocal DEF th
<1>15. CASE events # << >>
  <2> DEFINE last == events[Len(events)].index
  <2>1. /\ Len(events) \in 1 .. Len(events) /\ 1 \in 1 .. Len(events)
        /\ last \in 1 .. MaxRecords /\ events[1].index \in 1 .. MaxRecords
    BY <1>10, <1>13, <1>15
  <2>2. last = events[1].index + Len(events) - 1 /\ cursor[t] <= last
    BY <2>1, <1>10, <1>12, <1>15
  <2>3. Max({cursor[t], last}) = last
    BY <2>1, <2>2, <1>10, LargerOfTwo
  <2>4. cursor' = [cursor EXCEPT ![t] = last]
    BY <2>3, <1>1, <1>15
  <2>5. /\ cursor' \in [Tabs -> 0 .. MaxRecords]
        /\ \A u \in Tabs : cursor'[u] = IF u = t THEN last ELSE cursor[u]
    <3>1. cursor \in [Tabs -> 0 .. MaxRecords]
      BY DEF TypeOK
    <3>2. last \in 0 .. MaxRecords
      BY <2>1, <1>6
    <3> HIDE DEF last, IInv
    <3> QED BY <3>1, <3>2, <2>4
  <2>6. TypeOK'
    BY <2>5, <1>1, <1>3, <1>4, <1>9 DEF TypeOK
  <2> HIDE DEF last
  <2>7. IndexInv(t)'
    <3>1. ASSUME NEW k \in 1 .. Len(both) PROVE both[k].index = last - Len(both) + k
      <4>1. CASE k \in 1 .. Len(shown)
        <5>1. both[k].index = cursor[t] - Len(shown) + k /\ shown # << >>
          BY <4>1, <1>10, <1>11, <1>12
        <5>2. events[1].index = cursor[t] + 1
          BY <5>1, <1>12, <1>15
        <5>3. last = cursor[t] + Len(events)
          BY <5>2, <2>2, <1>10
        <5> QED BY <5>1, <5>3, <1>10, <1>11
      <4>2. CASE \E n \in 1 .. Len(events) : k = Len(shown) + n
        <5>1. PICK n \in 1 .. Len(events) : k = Len(shown) + n
          BY <4>2
        <5>2. both[k].index = events[1].index + n - 1
          BY <5>1, <1>11, <1>12
        <5>3. /\ events[1].index \in Nat /\ n \in Nat
              /\ Len(shown) \in Nat /\ Len(events) \in Nat
              /\ Len(both) = Len(shown) + Len(events)
          BY <2>1, <1>10, <1>11
        <5> HIDE DEF IInv
        <5> QED BY <5>1, <5>2, <5>3, <2>2
      <4> QED BY <4>1, <4>2, <1>11
    <3>2. both # << >>
      BY <1>10, <1>11, <1>15
    <3>3. view'[t] = both /\ reply'[t] = << >> /\ cursor'[t] = last /\ DOMAIN reply'[t] = {}
      BY <2>5, <1>9
    <3> QED BY <3>1, <3>2, <3>3, <1>5, <1>10 DEF IndexInv
  <2>8. RecordsInv(t)'
    <3> SUFFICES ASSUME ~overlap PROVE RecordsInv(t)'
      BY <1>1 DEF RecordsInv
    <3>1. /\ \A k \in 1 .. Len(shown) :
               /\ shown[k].record[2] = shown[k].index /\ shown[k].record[1] <= starts
               /\ k > 1 => shown[k].record[1] >= shown[k - 1].record[1]
          /\ \A k \in 1 .. Len(events) :
               /\ events[k].record[2] = events[k].index
               /\ events[k].record[1] = events[1].record[1]
               /\ events[k].record[1] <= starts
          /\ shown # << >> => events[1].record[1] >= shown[Len(shown)].record[1]
      BY <1>5, <1>10, <1>15 DEF PageInv, RecordsInv, shown, events
    <3>2. ASSUME NEW k \in 1 .. Len(both)
          PROVE  /\ both[k].record[2] = both[k].index /\ both[k].record[1] <= starts
                 /\ k > 1 => both[k].record[1] >= both[k - 1].record[1]
      <4>1. CASE k \in 1 .. Len(shown)
        <5>1. k > 1 => k - 1 \in 1 .. Len(shown)
          BY <4>1, <1>10
        <5> QED BY <4>1, <5>1, <3>1, <1>11
      <4>2. CASE \E n \in 1 .. Len(events) : k = Len(shown) + n
        <5>1. PICK n \in 1 .. Len(events) : k = Len(shown) + n
          BY <4>2
        <5>2. both[k] = events[n] /\ events[n].record[1] = events[1].record[1]
          BY <5>1, <3>1, <1>11
        <5>3. CASE n = 1
          <6>1. k > 1 => /\ shown # << >> /\ k - 1 = Len(shown)
                         /\ Len(shown) \in 1 .. Len(shown)
            BY <5>1, <5>3, <1>10
          <6>2. k > 1 => both[k - 1] = shown[Len(shown)]
            BY <6>1, <1>11
          <6> QED BY <5>1, <5>2, <6>1, <6>2, <3>1
        <5>4. CASE n # 1
          <6>1. n - 1 \in 1 .. Len(events) /\ k - 1 = Len(shown) + (n - 1)
            BY <5>1, <5>4, <1>10
          <6>2. both[k - 1] = events[n - 1] /\ events[n - 1].record[1] = events[1].record[1]
            BY <6>1, <3>1, <1>11
          <6>3. events[1].record[1] \in Int
            <7>1. events[1] \in Event
              <8> HIDE DEF Event
              <8> QED BY <2>1, <1>6
            <7> QED BY <7>1 DEF Event, Record, Runs
          <6> QED BY <5>1, <5>2, <6>2, <6>3, <3>1
        <5> QED BY <5>3, <5>4
      <4> QED BY <4>1, <4>2, <1>11
    <3>3. view'[t] = both /\ reply'[t] = << >> /\ DOMAIN reply'[t] = {}
      BY <1>9
    <3> QED BY <3>2, <3>3, <1>1, <1>10 DEF RecordsInv
  <2>9. ASSUME t \notin Starters PROVE WatcherInv(t)'
    <3>1. cursor[t] = Len(shown) /\ events[1].index = cursor[t] + 1
      BY <2>9, <1>5, <1>15 DEF PageInv, WatcherInv, shown, events
    <3>2. last = Len(both)
      BY <3>1, <2>2, <1>10, <1>11
    <3> QED BY <3>2, <2>5, <1>5, <1>9 DEF WatcherInv
  <2>10. PageInv(t)'
    BY <2>7, <2>8, <2>9 DEF PageInv
  <2> QED BY <2>5, <2>6, <2>10, <1>1, <1>3, <1>4, <1>9, ArrivalIsLocal DEF th
<1> QED BY <1>14, <1>15

\* The page that started a run is empty; any other shows what it did.
LEMMA StartArrivesKeepsIInv ==
  ASSUME IInv, NEW t \in Starters, StartArrives(t)
  PROVE  IInv'
<1> DEFINE th == <<t, "start">>
<1> USE DEF IInv
<1>1. /\ pc[th] = "arrive" /\ Goto(th, "idle") /\ accepted' = [accepted EXCEPT ![t] = FALSE]
      /\ UNCHANGED <<processVars, liveVars, readerVars, store, asked, reply,
                     starts, faults, overlap>>
  BY DEF StartArrives
<1>2. th \in Threads /\ t \in Tabs
  BY ThreadsDiffer
<1> HIDE DEF th
<1>3. /\ RunnersInv' /\ ReaderInv' /\ LogInv' /\ StateInv'
      /\ pc' \in [Threads -> Places] /\ pc'[th] = "idle"
      /\ \A x \in Threads : x # th => pc'[x] = pc[x]
      /\ Cardinality({x \in Threads : pc'[x] = "exit"}) <= 1
  <2>1. "idle" \in Places \ {"exit"}
    BY DEF Places
  <2> QED BY <1>1, <1>2, <2>1, OutsideTheLock
<1>4. UNCHANGED <<file, runner, written, state, current, offset, pending>>
  BY <1>1 DEF processVars, liveVars, readerVars
<1>5. \A u \in Tabs : pc'[<<u, "poll">>] = pc[<<u, "poll">>]
  BY <1>2, <1>3, ThreadsDiffer DEF th
<1>6. accepted' \in [Tabs -> BOOLEAN] /\ 0 \in 0 .. MaxRecords /\ 0 \in Nat
  <2>1. MaxRecords \in Nat
    BY LiveAssumption
  <2> DEFINE no == FALSE
  <2>2. accepted \in [Tabs -> BOOLEAN] /\ no \in BOOLEAN
        /\ accepted' = [accepted EXCEPT ![t] = no]
    BY <1>1 DEF TypeOK
  <2> HIDE DEF no
  <2>3. accepted' \in [Tabs -> BOOLEAN]
    BY <2>2
  <2> QED BY <2>1, <2>3
<1>7. \/ UNCHANGED <<view, cursor>>
      \/ view' = [view EXCEPT ![t] = << >>] /\ cursor' = [cursor EXCEPT ![t] = 0]
  BY DEF StartArrives, tabVars
<1>8. view' \in [Tabs -> Seq(Event)] /\ cursor' \in [Tabs -> 0 .. MaxRecords]
  <2>1. << >> \in Seq(Event)
    <3> HIDE DEF Event
    <3> QED OBVIOUS
  <2>2. view \in [Tabs -> Seq(Event)] /\ cursor \in [Tabs -> 0 .. MaxRecords]
    BY DEF TypeOK
  <2> QED BY <2>1, <2>2, <1>6, <1>7
<1>9. ASSUME NEW u \in Tabs
      PROVE  \/ view'[u] = view[u] /\ cursor'[u] = cursor[u]
             \/ u = t /\ view'[u] = << >> /\ cursor'[u] = 0
  BY <1>7 DEF TypeOK
<1>10. TypeOK'
  BY <1>1, <1>3, <1>4, <1>6, <1>8 DEF TypeOK
<1>11. ASSUME NEW u \in Tabs PROVE PageInv(u)'
  <2>1. CASE view'[u] = view[u] /\ cursor'[u] = cursor[u]
    BY <2>1, <1>1, <1>5, OtherPages
  <2>2. CASE u = t /\ view'[u] = << >> /\ cursor'[u] = 0
    <3>1. /\ Answered(u)' <=> Answered(u)
          /\ DOMAIN view'[u] = {} /\ PageInv(u) /\ u \in Starters
      BY <2>2, <1>5 DEF PagesInv, Answered
    <3>2. IndexInv(u)'
      BY <2>2, <3>1, <1>1 DEF PageInv, IndexInv
    <3>3. RecordsInv(u)'
      BY <2>2, <3>1, <1>1 DEF PageInv, RecordsInv
    <3> QED BY <3>1, <3>2, <3>3 DEF PageInv
  <2> QED BY <2>1, <2>2, <1>9
<1>12. \A u \in Starters : pc'[<<u, "start">>] # "answer"
  <2> TAKE u \in Starters
  <2>1. CASE u = t
    BY <2>1, <1>3 DEF th
  <2>2. CASE u # t
    BY <2>2, <1>2, <1>3, ThreadsDiffer DEF PagesInv, th
  <2> QED BY <2>1, <2>2
<1>13. PagesInv'
  BY <1>11, <1>12 DEF PagesInv
<1> QED BY <1>3, <1>10, <1>13

\* POST /api/live/start starts the run on an empty log, reader and store.
LEMMA StartRunKeepsIInv ==
  ASSUME IInv, NEW t \in Starters, Start(t), MayStart
  PROVE  IInv'
<1> DEFINE th == <<t, "start">>
           new == starts + 1
<1> USE DEF IInv
<1>1. PICK launched \in BOOLEAN :
        /\ runner' = [r \in Runs |-> IF r = new THEN IF launched THEN "starting" ELSE "crashed"
                                     ELSE IF Alive(r) THEN runner[r] ELSE "absent"]
        /\ state' = IF launched THEN "running" ELSE "failed"
        /\ current' = IF launched THEN new ELSE 0
  BY DEF Start
<1>2. /\ pc[th] = "idle" /\ Free /\ starts < MaxRuns /\ Goto(th, "refresh")
      /\ accepted' = [accepted EXCEPT ![t] = MayStart]
      /\ file' = << >> /\ store' = << >> /\ offset' = 0 /\ pending' = << >>
      /\ starts' = new /\ overlap' = (overlap \/ \E r \in Runs : Alive(r))
      /\ written' = [r \in Runs |-> IF Alive(r) THEN written[r] ELSE 0]
      /\ UNCHANGED <<asked, reply, view, cursor, faults>>
  BY DEF Start, NewReader, tabVars
<1>3. th \in Threads /\ t \in Tabs
  BY ThreadsDiffer
<1> HIDE DEF th, new
<1>4. /\ MaxRuns \in Nat /\ MaxRecords \in Nat /\ starts \in Nat /\ new \in Runs /\ new \in Nat
      /\ new = starts + 1 /\ new \in 0 .. MaxRuns
  BY <1>2, LiveAssumption DEF TypeOK, Runs, new
<1>5. "refresh" \in Places
  BY DEF Places
<1>6. /\ pc' \in [Threads -> Places] /\ pc'[th] = "refresh"
      /\ \A x \in Threads : x # th => pc'[x] = pc[x]
      /\ Cardinality({x \in Threads : pc'[x] = "exit"}) <= 1
  BY <1>2, <1>3, <1>5, HandlerSteps
<1>7. \A x \in Threads : pc'[x] # "exit"
  BY <1>2, <1>6 DEF Free
<1>8. ~Alive(new)
  BY <1>4 DEF RunnersInv, Alive
<1>9. \A r \in Runs :
        /\ runner'[r] = IF r = new THEN IF launched THEN "starting" ELSE "crashed"
                        ELSE IF Alive(r) THEN runner[r] ELSE "absent"
        /\ written'[r] = IF Alive(r) THEN written[r] ELSE 0
        /\ Alive(r)' => r = new \/ Alive(r)
        /\ (launched = FALSE) => (Alive(r)' => Alive(r))
  BY <1>1, <1>2, <1>8 DEF Alive
<1>10. TypeOK'
  <2>1. file' \in Seq(Cell) /\ pending' \in Seq(Cell) /\ store' \in Seq(Record)
    <3> HIDE DEF Cell, Record
    <3> QED BY <1>2
  <2>2. runner' \in [Runs -> RunnerStates]
    BY <1>1 DEF RunnerStates, TypeOK
  <2>3. 0 \in 0 .. 2 * MaxRecords /\ 0 \in 0 .. MaxRuns
    BY <1>4
  <2>4. written' \in [Runs -> 0 .. 2 * MaxRecords]
    BY <1>2, <2>3 DEF TypeOK
  <2>5. accepted' \in [Tabs -> BOOLEAN]
    <3> DEFINE may == MayStart
    <3>1. accepted' = [accepted EXCEPT ![t] = may] /\ accepted \in [Tabs -> BOOLEAN]
      BY <1>2 DEF TypeOK
    <3>2. may \in BOOLEAN
      BY DEF MayStart
    <3> HIDE DEF may
    <3> QED BY <3>1, <3>2
  <2>6. overlap' \in BOOLEAN
    BY <1>2
  <2>7. state' \in {"idle", "running", "completed", "failed"} /\ current' \in 0 .. MaxRuns
    BY <1>1, <1>4, <2>3
  <2>8. offset' \in 0 .. 2 * MaxRecords /\ starts' \in 0 .. MaxRuns
    BY <1>2, <1>4, <2>3
  <2> QED BY <1>2, <1>6, <2>1, <2>2, <2>4, <2>5, <2>6, <2>7, <2>8 DEF TypeOK
<1>11. RunnersInv'
  <2>1. ASSUME NEW r \in Runs
        PROVE  /\ r > starts' => runner'[r] = "absent"
               /\ (r > starts' \/ runner'[r] = "starting") => written'[r] = 0
               /\ runner'[r] = "succeeded" => written'[r] % 2 = 0
               /\ (r # starts' /\ ~overlap') => ~Alive(r)'
    <3>1. r \in Nat
      BY DEF Runs
    <3>2. r > starts' => r # new /\ ~Alive(r)
      BY <3>1, <1>2, <1>4 DEF RunnersInv, Alive
    <3>3. runner'[r] # "succeeded"
      BY <1>9 DEF Alive
    <3>4. (r > starts' \/ runner'[r] = "starting") => written'[r] = 0
      BY <3>2, <1>8, <1>9 DEF RunnersInv, Alive
    <3>5. (r # starts' /\ ~overlap') => ~Alive(r)'
      BY <1>2, <1>9
    <3> QED BY <3>2, <3>3, <3>4, <3>5, <1>9
  <2>2. runner'[new] # "absent"
    BY <1>4, <1>9
  <2> QED BY <2>1, <2>2, <1>2 DEF RunnersInv
<1>12. Len(file') = 0 /\ Len(pending') = 0 /\ Len(store') = 0 /\ DOMAIN file' = {}
       /\ DOMAIN pending' = {} /\ DOMAIN store' = {}
  BY <1>2
<1>13. ReaderInv'
  BY <1>2, <1>4, <1>12 DEF ReaderInv
<1>14. written'[new] = 0
  BY <1>4, <1>8, <1>9
<1>15. LogInv'
  BY <1>2, <1>12, <1>14 DEF LogInv
<1>16. StateInv'
  <2>1. current' \in {0, starts'} /\ (state' = "running" => current' = starts' /\ starts' > 0)
    BY <1>1, <1>2, <1>4
  <2>2. state' \notin {"completed", "idle"}
    BY <1>1
  <2>3. ASSUME faults' = 0
        PROVE  /\ ~overlap' /\ \A r \in Runs : Alive(r)' => r = current' /\ state' = "running"
               /\ state' = "failed" => runner'[starts'] = "crashed"
    <3>1. ~overlap /\ \A r \in Runs : ~Alive(r)
      BY <2>3, <1>2 DEF StateInv, MayStart
    <3>2. ~overlap'
      BY <3>1, <1>2
    <3>3. \A r \in Runs : Alive(r)' => r = current' /\ state' = "running"
      BY <3>1, <1>1, <1>9
    <3>4. state' = "failed" => runner'[starts'] = "crashed"
      BY <1>1, <1>2, <1>4, <1>9
    <3> QED BY <3>2, <3>3, <3>4
  <2>4. starts' > 0
    BY <1>2, <1>4
  <2> QED BY <2>1, <2>2, <2>3, <2>4, <1>7 DEF StateInv
<1>17. \A u \in Tabs : pc'[<<u, "poll">>] = pc[<<u, "poll">>]
  BY <1>3, <1>6, ThreadsDiffer DEF th
<1>18. ASSUME NEW u \in Tabs PROVE PageInv(u)'
  <2>1. /\ (Asking(u)' <=> Asking(u)) /\ (Answered(u)' <=> Answered(u)) /\ PageInv(u)
    BY <1>17 DEF Asking, Answered, PagesInv
  <2>2. IndexInv(u)'
    BY <2>1, <1>2 DEF PageInv, IndexInv
  <2>3. RecordsInv(u)'
    <3> SUFFICES ASSUME ~overlap' PROVE RecordsInv(u)'
      BY DEF RecordsInv
    <3>1. ~overlap
      BY <1>2
    <3>2. \A k \in DOMAIN view[u] : view[u][k] \in Event
      <4> HIDE DEF Event
      <4> QED BY DEF TypeOK
    <3>3. \A k \in DOMAIN reply[u] : reply[u][k] \in Event
      <4> HIDE DEF Event
      <4> QED BY DEF TypeOK
    <3>4. \A e \in Event : e.record[1] <= starts => e.record[1] <= new
      BY <1>4 DEF Event, Record, Runs
    <3> HIDE DEF Event
    <3>5. /\ \A k \in DOMAIN view[u] : view[u][k].record[1] <= new
          /\ \A k \in DOMAIN reply[u] : reply[u][k].record[1] <= new
      BY <2>1, <3>1, <3>2, <3>3, <3>4 DEF PageInv, RecordsInv
    <3> QED BY <2>1, <3>1, <3>5, <1>2 DEF PageInv, RecordsInv
  <2>4. u \notin Starters => WatcherInv(u)'
    BY <2>1, <1>2 DEF PageInv, WatcherInv
  <2> QED BY <2>2, <2>3, <2>4 DEF PageInv
<1>20. \A u \in Starters : pc'[<<u, "start">>] # "answer"
  <2> TAKE u \in Starters
  <2>1. CASE u = t
    BY <2>1, <1>6 DEF th
  <2>2. CASE u # t
    BY <2>2, <1>3, <1>6, ThreadsDiffer DEF PagesInv, th
  <2> QED BY <2>1, <2>2
<1>21. PagesInv'
  BY <1>18, <1>20 DEF PagesInv
<1> QED BY <1>10, <1>11, <1>13, <1>15, <1>16, <1>21

\* A run goes on: the request is refused and changes nothing.
LEMMA StartRefusedKeepsIInv ==
  ASSUME IInv, NEW t \in Starters, Start(t), ~MayStart
  PROVE  IInv'
<1> DEFINE th == <<t, "start">>
<1> USE DEF IInv
<1>1. /\ pc[th] = "idle" /\ Free /\ Goto(th, "refresh")
      /\ accepted' = [accepted EXCEPT ![t] = MayStart]
      /\ UNCHANGED <<processVars, liveVars, readerVars, store, starts, overlap>>
      /\ UNCHANGED <<asked, reply, tabVars, faults>>
  BY DEF Start
<1>2. th \in Threads /\ t \in Tabs
  BY ThreadsDiffer
<1> HIDE DEF th
<1>3. /\ RunnersInv' /\ ReaderInv' /\ LogInv' /\ StateInv'
      /\ pc' \in [Threads -> Places] /\ pc'[th] = "refresh"
      /\ \A x \in Threads : x # th => pc'[x] = pc[x]
      /\ Cardinality({x \in Threads : pc'[x] = "exit"}) <= 1
  <2>1. "refresh" \in Places \ {"exit"}
    BY DEF Places
  <2> QED BY <1>1, <1>2, <2>1, OutsideTheLock
<1>4. UNCHANGED <<file, runner, written, state, current, offset, pending, view, cursor>>
  BY <1>1 DEF processVars, liveVars, readerVars, tabVars
<1>5. accepted' \in [Tabs -> BOOLEAN]
  <2> DEFINE may == MayStart
  <2>1. accepted' = [accepted EXCEPT ![t] = may] /\ accepted \in [Tabs -> BOOLEAN]
    BY <1>1 DEF TypeOK
  <2>2. may \in BOOLEAN
    BY DEF MayStart
  <2> HIDE DEF may
  <2> QED BY <2>1, <2>2
<1>6. TypeOK'
  BY <1>1, <1>3, <1>4, <1>5 DEF TypeOK
<1>7. ASSUME NEW u \in Tabs PROVE PageInv(u)'
  <2>1. pc'[<<u, "poll">>] = pc[<<u, "poll">>]
    BY <1>2, <1>3, ThreadsDiffer DEF th
  <2> QED BY <2>1, <1>1, <1>4, OtherPages
<1>8. \A u \in Starters : pc'[<<u, "start">>] # "answer"
  <2> TAKE u \in Starters
  <2>1. CASE u = t
    BY <2>1, <1>3 DEF th
  <2>2. CASE u # t
    BY <2>2, <1>2, <1>3, ThreadsDiffer DEF PagesInv, th
  <2> QED BY <2>1, <2>2
<1>9. PagesInv'
  BY <1>7, <1>8 DEF PagesInv
<1> QED BY <1>3, <1>6, <1>9

LEMMA StutterKeepsIInv == IInv /\ UNCHANGED vars => IInv'
<1> SUFFICES ASSUME IInv, UNCHANGED vars PROVE IInv'
  OBVIOUS
<1> USE DEF IInv, vars, processVars, readerVars, liveVars, requestVars, tabVars
<1>1. TypeOK'
  BY DEF TypeOK
<1>2. RunnersInv' /\ ReaderInv' /\ LogInv' /\ StateInv'
  BY DEF RunnersInv, ReaderInv, LogInv, StateInv, Alive
<1>3. PagesInv'
  BY PagesUntouched
<1> QED BY <1>1, <1>2, <1>3

----------------------------------------------------------------------------
(* The theorems.                                                           *)

\* The invariant holds throughout, however the runners, the handler threads of the
\* server (visualizer/server.py) and the pages interleave.
THEOREM LiveInvariant == Spec => []IInv
<1>1. IInv /\ [Next]_vars => IInv'
  <2> SUFFICES ASSUME IInv, [Next]_vars PROVE IInv'
    OBVIOUS
  <2>1. ASSUME NEW r \in Runs, OpenLog(r) PROVE IInv'
    BY <2>1, OpenLogKeepsIInv
  <2>2. ASSUME NEW r \in Runs, WriteCell(r) PROVE IInv'
    BY <2>2, WriteCellKeepsIInv
  <2>3. ASSUME NEW r \in Runs, Exit(r) PROVE IInv'
    BY <2>3, ExitKeepsIInv
  <2>4. ASSUME NEW th \in Threads, Refresh(th) PROVE IInv'
    BY <2>4, RefreshKeepsIInv
  <2>5. ASSUME NEW th \in Threads, Finish(th) PROVE IInv'
    BY <2>5, FinishKeepsIInv
  <2>6. ASSUME NEW th \in Threads, Answer(th) PROVE IInv'
    BY <2>6, AnswerKeepsIInv
  <2>7. ASSUME NEW t \in Tabs, SendPoll(t) PROVE IInv'
    BY <2>7, SendPollKeepsIInv
  <2>8. ASSUME NEW t \in Tabs, EventsArrive(t) PROVE IInv'
    BY <2>8, EventsArriveKeepsIInv
  <2>9. ASSUME NEW t \in Starters, StartArrives(t) PROVE IInv'
    BY <2>9, StartArrivesKeepsIInv
  <2>10. ASSUME NEW t \in Starters, Start(t) PROVE IInv'
    BY <2>10, StartRunKeepsIInv, StartRefusedKeepsIInv
  <2>11. CASE UNCHANGED vars
    BY <2>11, StutterKeepsIInv
  <2> QED BY <2>1, <2>2, <2>3, <2>4, <2>5, <2>6, <2>7, <2>8, <2>9, <2>10, <2>11
          DEF Next, Handler, Tab
<1> QED BY <1>1, InitInv, PTL DEF Spec

\* However START RUN is pressed, and whatever the handlers see of the process before
\* it (LiveRunController.start(), refresh()): without a failed read the one process that
\* lives is the one the dashboard calls running.
THEOREM OneRunnerOnly == Spec => []RunningIsTheOneRunner
<1>1. IInv => RunningIsTheOneRunner
  BY DEF IInv, StateInv, RunningIsTheOneRunner
<1> QED BY <1>1, LiveInvariant, PTL

\* What the store has of the one log (JsonlLogReader.poll(), EventStore.append()) is its
\* records, each once and in order, all of them when the run is called completed; a run
\* is called failed only if its process failed or a read did.
THEOREM StoreHoldsTheLog == Spec => []StoreIsTheRunsLog
<1>1. IInv => StoreIsTheRunsLog
  <2> SUFFICES ASSUME IInv PROVE StoreIsTheRunsLog
    OBVIOUS
  <2> USE DEF IInv
  <2>1. /\ Len(file) \in Nat /\ Len(pending) \in Nat /\ Len(store) \in Nat /\ offset \in Nat
        /\ starts \in Nat /\ DOMAIN store = 1 .. Len(store)
        /\ \/ 2 * Len(store) + Len(pending) = offset
           \/ state # "running" /\ 2 * Len(store) = offset + 1
    BY LengthsAreTyped DEF ReaderInv
  <2>2. ASSUME ~overlap, starts = 0 PROVE DOMAIN store = {}
    BY <2>1, <2>2 DEF ReaderInv
  <2>3. ASSUME ~overlap, state = "completed" PROVE 2 * Len(store) = written[starts]
    <3>1. starts > 0 /\ offset = written[starts] /\ offset % 2 = 0
      BY <2>3 DEF StateInv
    <3>2. Len(pending) <= 1
      BY <2>3, <3>1 DEF LogInv
    <3>3. 2 * Len(store) = offset
      BY <3>1, <3>2, <2>1
    <3> QED BY <3>1, <3>3
  <2>4. ASSUME ~overlap, starts > 0
        PROVE  /\ \A n \in DOMAIN store : store[n] = <<starts, n>>
               /\ \/ 2 * Len(store) <= written[starts]
                  \/ state = "failed" /\ 2 * Len(store) = written[starts] + 1
    <3>1. Len(file) = written[starts] /\ offset <= Len(file)
          /\ \A n \in DOMAIN store : store[n] = <<starts, n>>
      BY <2>4 DEF LogInv
    <3>2. \/ 2 * Len(store) <= written[starts]
          \/ state # "running" /\ 2 * Len(store) = written[starts] + 1
      BY <3>1, <2>1
    <3>3. state \in {"idle", "running", "completed", "failed"} /\ state # "idle"
      BY <2>1, <2>4 DEF StateInv, TypeOK
    <3>4. state = "completed" => 2 * Len(store) <= written[starts]
      BY <2>3, <2>4, <2>1
    <3> QED BY <3>1, <3>2, <3>3, <3>4
  <2>5. (state = "failed" /\ faults = 0) => runner[starts] = "crashed"
    BY DEF StateInv
  <2>6. starts = 0 \/ starts > 0
    BY <2>1
  <2> QED BY <2>2, <2>3, <2>4, <2>5, <2>6 DEF StoreIsTheRunsLog
<1> QED BY <1>1, LiveInvariant, PTL

\* What a page shows (appendEvents() of the page, EventStore.after()) while one runner
\* writes the log: the n-th record of a run at index n, behind the one before it, of
\* that run or of an earlier one; on a page that starts no run the k-th event has the
\* index k, whatever it misses of the run that another page started.
THEOREM EveryViewFollowsTheLogs == Spec => []ViewFollowsTheLogs
<1>1. IInv => ViewFollowsTheLogs
  <2> SUFFICES ASSUME IInv, ~overlap, NEW t \in Tabs, NEW k \in DOMAIN view[t]
               PROVE  /\ view[t][k].record[2] = view[t][k].index
                      /\ view[t][k].record[1] <= starts
                      /\ k > 1 => /\ view[t][k].index = view[t][k - 1].index + 1
                                  /\ view[t][k].record[1] >= view[t][k - 1].record[1]
                      /\ t \notin Starters => view[t][k].index = k
    BY DEF ViewFollowsTheLogs
  <2>1. IndexInv(t) /\ RecordsInv(t) /\ (t \notin Starters => WatcherInv(t))
    BY DEF IInv, PagesInv, PageInv
  <2>2. /\ k \in Nat /\ Len(view[t]) \in Nat /\ cursor[t] \in Nat
        /\ k > 1 => k - 1 \in DOMAIN view[t]
    <3> HIDE DEF Event
    <3>1. view[t] \in Seq(Event) /\ cursor[t] \in 0 .. MaxRecords
      BY DEF IInv, TypeOK
    <3> QED BY <3>1
  <2>3. /\ view[t][k].index = cursor[t] - Len(view[t]) + k
        /\ k > 1 => view[t][k - 1].index = cursor[t] - Len(view[t]) + (k - 1)
    BY <2>1, <2>2 DEF IndexInv
  <2>4. k > 1 => view[t][k].index = view[t][k - 1].index + 1
    BY <2>2, <2>3
  <2>5. t \notin Starters => view[t][k].index = k
    BY <2>1, <2>2, <2>3 DEF WatcherInv
  <2> QED BY <2>1, <2>4, <2>5 DEF RecordsInv
<1> QED BY <1>1, LiveInvariant, PTL
=============================================================================
