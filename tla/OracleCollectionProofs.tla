------------------------ MODULE OracleCollectionProofs ------------------------
(***************************************************************************)
(* Why EpisodeIsAtomic and LoadedTrajectoryWasPlayed hold for any number   *)
(* of episodes, Decisions and decisions allowed.                           *)
(*                                                                         *)
(* What an episode has appended is known exactly at every moment: the      *)
(* pieces of its decision records, in order, and while it ends perhaps     *)
(* some pieces of one more record (FileInv).  A whole one is taken by the  *)
(* loader (WholeEpisodeLoads).  RecordsInv says that a record tells what   *)
(* RL played, and PlaceInv how far RL is when the process is where it is.  *)
(***************************************************************************)
EXTENDS OracleCollection, FiniteSetTheorems, SequenceTheorems, TLAPS

\* The records of an episode.
StepRecord(e, k) ==
    [type |-> "decision", ep |-> e, index |-> k, point |-> k + 1, next |-> k + 2,
     completed |-> FALSE]
EndRecord(e, n, ended) ==
    [type |-> "result", ep |-> e, index |-> n, point |-> 0, next |-> n + 1,
     completed |-> ended]

\* From behind s on, f has the pieces of n decision records of episode e.
Body(f, s, e, n) ==
    \A k \in 0..n - 1, p \in Parts :
        f[s + 3 * k + p] = [record |-> StepRecord(e, k), part |-> p]

\* From behind s on, f has n pieces of the record r, and nothing more.
Ending(f, s, n, r) ==
    Len(f) = s + n /\ \A p \in 1..n : f[s + p] = [record |-> r, part |-> p]

\* The process will not write any more.
Late == {"rollback", "close", "exit", "launch", "done"}

TypeInv == TypeOK /\ file \in Seq(Piece) /\ library \subseteq Seq(Piece)

\* How far RL is, and what of it the process knows.
PlaceInv ==
    /\ pc # "launch" => ep \in Episodes
    /\ pc = "start" => collected = 0
    /\ pc \in {"get", "look", "collect", "decide", "commit", "result"} =>
         root[ep] = collected + 1 /\ (root[ep] = MaxPoints => kind = "end")
    /\ pc \in {"start", "get", "look", "collect", "decide", "commit", "write"} =>
         collected < MaxDecisions
    /\ pc \in {"look", "collect", "decide", "commit", "result"} =>
         seen = [point |-> root[ep], kind |-> kind]
    /\ pc \in {"collect", "decide", "commit"} => kind # "end" /\ ~completed
    /\ pc = "write" => /\ seen.point = collected + 1 /\ root[ep] = collected + 2
                       /\ root[ep] = MaxPoints => kind = "end"
    /\ pc = "result" => completed = (kind = "end")

\* What the current episode has written, and what it leaves.
FileInv ==
    /\ start <= Len(file)
    /\ pc \notin Late => /\ Body(file, start, ep, collected)
                         /\ Len(file) = start + 3 * collected
    /\ pc \in Late /\ Len(file) # start =>
         /\ Body(file, start, ep, collected)
         /\ \E n \in 0..3, r \in {StepRecord(ep, collected), EndRecord(ep, collected, completed)} :
               Ending(file, start + 3 * collected, n, r)
    /\ pc \in {"close", "exit"} /\ ep \notin cut /\ Len(file) # start =>
         Ending(file, start + 3 * collected, 3, EndRecord(ep, collected, completed))
    /\ managed => start = 0

\* A record tells what RL played.
Played(r) ==
    /\ r.ep <= ep
    /\ r.type = "decision" => r.point = r.index + 1 /\ r.next = r.index + 2
    /\ r.type = "result" =>
         /\ root[r.ep] = r.index + 1
         /\ r.ep = ep => pc \in Late /\ r.completed = (kind = "end")

RecordsInv ==
    /\ \A i \in DOMAIN file : Played(file[i].record)
    /\ \A f \in library : \A i \in DOMAIN f : Played(f[i].record)

LibraryInv ==
    \A f \in library :
        /\ Loads(f)
        /\ Cardinality(EpisodesIn(f)) = 1
        /\ \A e \in EpisodesIn(f) : \A i \in Of(f, "result", e) : f[i].record.completed

IInv == TypeInv /\ PlaceInv /\ FileInv /\ RecordsInv /\ LibraryInv
-----------------------------------------------------------------------------
(* A whole episode is one the loader takes.                                *)

LEMMA Thirds ==
    \A i \in Nat \ {0} : \E k \in Nat, p \in Parts : i = 3 * k + p
  <1> SUFFICES ASSUME NEW i \in Nat \ {0}
               PROVE  \E k \in Nat, p \in Parts : i = 3 * k + p
    OBVIOUS
  <1>1. (i - 1) \div 3 \in Nat /\ ((i - 1) % 3) + 1 \in Parts
    BY DEF Parts
  <1>2. i = 3 * ((i - 1) \div 3) + (((i - 1) % 3) + 1)
    OBVIOUS
  <1> QED BY <1>1, <1>2

\* Every third position: there is one for each of m decision records.
LEMMA StepPositions ==
    ASSUME NEW m \in Nat
    PROVE  Cardinality({3 * k + 2 : k \in 0..m - 1}) = m
  <1> DEFINE S == 0..m - 1
             T == {3 * k + 2 : k \in S}
             g == [k \in S |-> 3 * k + 2]
  <1>1. IsFiniteSet(S) /\ Cardinality(S) = m
    BY FS_Interval
  <1>2. g \in Bijection(S, T)
    <2>1. g \in [S -> T]
      OBVIOUS
    <2>2. \A a, b \in S : g[a] = g[b] => a = b
      OBVIOUS
    <2>3. \A t \in T : \E k \in S : g[k] = t
      OBVIOUS
    <2> QED BY <2>1, <2>2, <2>3 DEF Bijection, Injection, Surjection, IsInjective
  <1>3. ExistsBijection(S, T)
    BY <1>2 DEF ExistsBijection
  <1> HIDE DEF S, T, g
  <1>4. Cardinality(T) = Cardinality(S)
    BY <1>1, <1>3, FS_Bijection
  <1> QED BY <1>1, <1>4 DEF T, S

\* The loader takes f, which holds the episode e and its result r.
Whole(f, e, r) ==
    /\ Loads(f)
    /\ EpisodesIn(f) = {e}
    /\ Of(f, "result", e) # {}
    /\ \A i \in Of(f, "result", e) : f[i].record = r

LEMMA WholeEpisodeLoads ==
    ASSUME NEW e, NEW m \in Nat, NEW n \in {2, 3}, NEW ended,
           NEW f \in Seq(Piece), Body(f, 0, e, m),
           Ending(f, 3 * m, n, EndRecord(e, m, ended))
    PROVE  Whole(f, e, EndRecord(e, m, ended))
  <1> DEFINE R(k) == IF k < m THEN StepRecord(e, k) ELSE EndRecord(e, m, ended)
  <1>1. DOMAIN f = 1..3 * m + n
    BY DEF Ending
  <1>2. ASSUME NEW k \in 0..m, NEW p \in Parts, 3 * k + p <= 3 * m + n
        PROVE  f[3 * k + p] = [record |-> R(k), part |-> p]
    <2>1. CASE k < m
      <3>1. k \in 0..m - 1
        BY <2>1
      <3>2. f[0 + 3 * k + p] = [record |-> StepRecord(e, k), part |-> p]
        BY <3>1 DEF Body
      <3> QED BY <2>1, <3>2 DEF Parts
    <2>2. CASE k = m
      <3>1. p \in 1..n
        BY <1>2, <2>2 DEF Parts
      <3> QED BY <2>2, <3>1 DEF Ending
    <2> QED BY <2>1, <2>2
  <1>3. \A k \in 0..m : R(k).ep = e /\ R(k).index = k
    BY DEF StepRecord, EndRecord
  <1>4. \A k \in 0..m : k < m => R(k).type = "decision" /\ R(k).next = k + 2
    BY DEF StepRecord
  <1>5. R(m) = EndRecord(e, m, ended) /\ R(m).type = "result" /\ R(m).next = m + 1
    BY DEF EndRecord
  <1>6. ASSUME NEW i \in DOMAIN f
        PROVE  \E k \in 0..m, p \in Parts :
                  i = 3 * k + p /\ 3 * k + p <= 3 * m + n
    <2>1. i \in Nat \ {0} /\ i <= 3 * m + n
      BY <1>1
    <2>2. PICK k \in Nat, p \in Parts : i = 3 * k + p
      BY <2>1, Thirds
    <2>3. k <= m
      BY <2>1, <2>2 DEF Parts
    <2> QED BY <2>1, <2>2, <2>3
  <1> HIDE DEF R
  <1>7. ASSUME NEW k \in 0..m
        PROVE  3 * k + 2 \in DOMAIN f /\ Readable(f, 3 * k + 2)
    <2>1. 3 * k + 1 <= 3 * m + n /\ 3 * k + 2 <= 3 * m + n
      OBVIOUS
    <2>2. 1 \in Parts /\ 2 \in Parts /\ 3 \in Parts
      BY DEF Parts
    <2>3. f[3 * k + 2] = [record |-> R(k), part |-> 2]
      BY <1>2, <2>1, <2>2
    <2>4. f[3 * k + 1] = [record |-> R(k), part |-> 1]
      BY <1>2, <2>1, <2>2
    <2>5. f[(3 * k + 2) - 1] = [f[3 * k + 2] EXCEPT !.part = 1]
      <3>1. (3 * k + 2) - 1 = 3 * k + 1
        OBVIOUS
      <3> QED BY <2>3, <2>4, <3>1
    <2>6. 3 * k + 2 > 2 => f[(3 * k + 2) - 2].part = 3
      <3> HAVE 3 * k + 2 > 2
      <3>1. k - 1 \in 0..m /\ 3 * (k - 1) + 3 <= 3 * m + n
        OBVIOUS
      <3>2. f[3 * (k - 1) + 3] = [record |-> R(k - 1), part |-> 3]
        BY <1>2, <2>2, <3>1
      <3>3. (3 * k + 2) - 2 = 3 * (k - 1) + 3
        OBVIOUS
      <3> QED BY <3>2, <3>3
    <2>7. 3 * k + 2 < Len(f) => f[(3 * k + 2) + 1].part = 3
      <3> HAVE 3 * k + 2 < Len(f)
      <3>1. 3 * k + 3 <= 3 * m + n
        BY DEF Ending
      <3>2. f[3 * k + 3] = [record |-> R(k), part |-> 3]
        BY <1>2, <2>2, <3>1
      <3>3. (3 * k + 2) + 1 = 3 * k + 3
        OBVIOUS
      <3> QED BY <3>2, <3>3
    <2>8. 3 * k + 2 \in DOMAIN f
      BY <1>1, <2>1
    <2> QED BY <2>3, <2>5, <2>6, <2>7, <2>8 DEF Readable
  <1>8. ASSUME NEW k \in 0..m, NEW p \in Parts, 3 * k + p <= 3 * m + n
        PROVE  f[3 * k + p].part = p /\ f[3 * k + p].record = R(k)
    <2>1. f[3 * k + p] = [record |-> R(k), part |-> p]
      BY <1>2, <1>8
    <2> QED BY <2>1
  <1>9. Texts(f) = {3 * k + 2 : k \in 0..m}
    <2>1. ASSUME NEW i \in DOMAIN f, Readable(f, i)
          PROVE  \E k \in 0..m : i = 3 * k + 2
      <3>1. PICK k \in 0..m, p \in Parts : i = 3 * k + p /\ 3 * k + p <= 3 * m + n
        BY <1>6
      <3>2. f[i].part = p
        BY <1>8, <3>1
      <3>3. p = 2
        BY <2>1, <3>2 DEF Readable
      <3> QED BY <3>1, <3>3
    <2> QED BY <1>7, <2>1 DEF Texts
  <1>10. ~ Torn(f)
    <2>1. ASSUME NEW i \in DOMAIN f
          PROVE  /\ f[i].part = 2 => Readable(f, i)
                 /\ f[i].part = 1 => i < Len(f) /\ Readable(f, i + 1)
      <3>1. PICK k \in 0..m, p \in Parts : i = 3 * k + p /\ 3 * k + p <= 3 * m + n
        BY <1>6
      <3>2. f[i].part = p
        BY <1>8, <3>1
      <3>3. p = 2 => Readable(f, i)
        BY <1>7, <3>1
      <3>4. p = 1 => i < Len(f) /\ Readable(f, i + 1)
        <4> HAVE p = 1
        <4>1. i < Len(f)
          BY <3>1 DEF Ending
        <4>2. i + 1 = 3 * k + 2
          BY <3>1
        <4> QED BY <1>7, <4>1, <4>2
      <3> QED BY <3>2, <3>3, <3>4
    <2> QED BY <2>1 DEF Torn
  <1>11. \A k \in 0..m : f[3 * k + 2].record = R(k)
    <2> TAKE k \in 0..m
    <2>1. 2 \in Parts /\ 3 * k + 2 <= 3 * m + n
      BY DEF Parts
    <2> QED BY <1>8, <2>1
  <1>12. EpisodesIn(f) = {e}
    <2>1. ASSUME NEW i \in Texts(f) PROVE f[i].record.ep = e
      <3>1. PICK k \in 0..m : i = 3 * k + 2
        BY <1>9
      <3>2. f[i].record = R(k)
        BY <1>11, <3>1
      <3> QED BY <1>3, <3>2
    <2>2. 3 * m + 2 \in Texts(f)
      BY <1>9
    <2> QED BY <2>1, <2>2 DEF EpisodesIn
  <1>13. \A k \in 0..m : R(k).type = "result" <=> k = m
    BY <1>4, <1>5
  <1>14. Of(f, "result", e) = {3 * m + 2}
    <2>1. ASSUME NEW i \in Of(f, "result", e) PROVE i = 3 * m + 2
      <3>1. PICK k \in 0..m : i = 3 * k + 2
        BY <1>9 DEF Of
      <3>2. R(k).type = "result"
        BY <1>11, <3>1 DEF Of
      <3> QED BY <1>13, <3>1, <3>2
    <2>2. 3 * m + 2 \in Of(f, "result", e)
      <3>1. m \in 0..m
        OBVIOUS
      <3>2. 3 * m + 2 \in Texts(f) /\ f[3 * m + 2].record = R(m)
        BY <1>9, <1>11, <3>1
      <3> QED BY <1>3, <1>5, <3>1, <3>2 DEF Of
    <2> QED BY <2>1, <2>2
  <1>15. Of(f, "decision", e) = {3 * k + 2 : k \in 0..m - 1}
    <2>1. ASSUME NEW i \in Of(f, "decision", e) PROVE \E k \in 0..m - 1 : i = 3 * k + 2
      <3>1. PICK k \in 0..m : i = 3 * k + 2
        BY <1>9 DEF Of
      <3>2. R(k).type = "decision"
        BY <1>11, <3>1 DEF Of
      <3>3. k # m
        BY <1>5, <3>2
      <3> QED BY <3>1, <3>3
    <2>2. ASSUME NEW k \in 0..m - 1 PROVE 3 * k + 2 \in Of(f, "decision", e)
      <3>1. k \in 0..m /\ k < m
        OBVIOUS
      <3>2. 3 * k + 2 \in Texts(f) /\ f[3 * k + 2].record = R(k)
        BY <1>9, <1>11, <3>1
      <3> QED BY <1>3, <1>4, <3>1, <3>2 DEF Of
    <2> QED BY <2>1, <2>2
  <1>16. Cardinality(Of(f, "decision", e)) = m
    BY <1>15, StepPositions
  <1>17. {f[j].record.index : j \in Of(f, "decision", e)} = 0..m - 1
    <2>1. ASSUME NEW j \in Of(f, "decision", e) PROVE f[j].record.index \in 0..m - 1
      <3>1. PICK k \in 0..m - 1 : j = 3 * k + 2
        BY <1>15
      <3>2. f[j].record = R(k) /\ k \in 0..m
        BY <1>11, <3>1
      <3> QED BY <1>3, <3>2
    <2>2. ASSUME NEW k \in 0..m - 1
          PROVE  \E j \in Of(f, "decision", e) : k = f[j].record.index
      <3>1. 3 * k + 2 \in Of(f, "decision", e) /\ k \in 0..m
        BY <1>15
      <3>2. f[3 * k + 2].record = R(k)
        BY <1>11, <3>1
      <3> QED BY <1>3, <3>1, <3>2
    <2> QED BY <2>1, <2>2
  <1>18. \A j \in Of(f, "decision", e) :
            f[j].record.index = m - 1 => f[j].record.next = m + 1
    <2> SUFFICES ASSUME NEW j \in Of(f, "decision", e), f[j].record.index = m - 1
                 PROVE  f[j].record.next = m + 1
      OBVIOUS
    <2>1. PICK k \in 0..m - 1 : j = 3 * k + 2
      BY <1>15
    <2>2. f[j].record = R(k) /\ k \in 0..m /\ k < m
      BY <1>11, <2>1
    <2> QED BY <1>3, <1>4, <2>2
  <1>19. Cardinality({3 * m + 2}) = 1
    BY FS_Singleton
  <1>20. f[3 * m + 2].record = EndRecord(e, m, ended)
    BY <1>5, <1>11
  <1>21. f[3 * m + 2].record.index = m /\ f[3 * m + 2].record.next = m + 1
    BY <1>20 DEF EndRecord
  <1>22. Loads(f)
    BY <1>10, <1>12, <1>14, <1>16, <1>17, <1>18, <1>19, <1>21 DEF Loads
  <1> QED BY <1>12, <1>14, <1>20, <1>22 DEF Whole

-----------------------------------------------------------------------------
(* Writing.                                                                *)

LEMMA Appending ==
    ASSUME file \in Seq(Piece), NEW r \in Record, NEW n \in 0..3
    PROVE  /\ Extended(r, n) \in Seq(Piece)
           /\ Len(Extended(r, n)) = Len(file) + n
           /\ \A i \in 1..Len(file) : Extended(r, n)[i] = file[i]
           /\ \A p \in 1..n :
                 Extended(r, n)[Len(file) + p] = [record |-> r, part |-> p]
  <1> DEFINE added == SubSeq(Pieces(r), 1, n)
  <1>1. \A p \in 1..3 : Pieces(r)[p] = [record |-> r, part |-> p]
    BY DEF Pieces, Parts
  <1>2. \A p \in 1..n : Pieces(r)[p] \in Piece
    BY <1>1 DEF Piece, Parts
  <1>3. added \in Seq(Piece) /\ Len(added) = n
    BY <1>2, SubSeqProperties
  <1>4. \A p \in 1..n : added[p] = [record |-> r, part |-> p]
    <2>1. \A p \in 1..n - 1 + 1 : added[p] = Pieces(r)[1 + p - 1]
      BY <1>2, SubSeqProperties
    <2> QED BY <1>1, <2>1
  <1> HIDE DEF added
  <1>5. Extended(r, n) = file \o added
    BY DEF Extended, added
  <1> QED BY <1>3, <1>4, <1>5

\* Whatever is appended, what stood before stays, and how it ends is known.
LEMMA Adds ==
    ASSUME file \in Seq(Piece), start \in Nat, NEW e, NEW c \in Nat,
           Body(file, start, e, c), Len(file) = start + 3 * c,
           NEW r \in Record, NEW n \in 0..3
    PROVE  /\ Body(Extended(r, n), start, e, c)
           /\ Ending(Extended(r, n), start + 3 * c, n, r)
  <1>1. ASSUME NEW k \in 0..c - 1, NEW p \in Parts
        PROVE  Extended(r, n)[start + 3 * k + p] = [record |-> StepRecord(e, k), part |-> p]
    <2>1. start + 3 * k + p \in 1..Len(file)
      BY DEF Parts
    <2>2. file[start + 3 * k + p] = [record |-> StepRecord(e, k), part |-> p]
      BY DEF Body
    <2> QED BY <2>1, <2>2, Appending
  <1>2. Ending(Extended(r, n), start + 3 * c, n, r)
    <2>1. Len(Extended(r, n)) = (start + 3 * c) + n
      BY Appending
    <2>2. \A p \in 1..n : Extended(r, n)[(start + 3 * c) + p] = [record |-> r, part |-> p]
      <3> TAKE p \in 1..n
      <3>1. Extended(r, n)[Len(file) + p] = [record |-> r, part |-> p]
        BY Appending
      <3> QED BY <3>1
    <2> QED BY <2>1, <2>2 DEF Ending
  <1> QED BY <1>1, <1>2 DEF Body

\* A whole decision record makes the trajectory longer.
LEMMA Grows ==
    ASSUME file \in Seq(Piece), start \in Nat, NEW e, NEW c \in Nat,
           Body(file, start, e, c), Len(file) = start + 3 * c,
           StepRecord(e, c) \in Record
    PROVE  /\ Body(Extended(StepRecord(e, c), 3), start, e, c + 1)
           /\ Len(Extended(StepRecord(e, c), 3)) = start + 3 * (c + 1)
  <1> DEFINE g == Extended(StepRecord(e, c), 3)
  <1>1. Body(g, start, e, c) /\ Ending(g, start + 3 * c, 3, StepRecord(e, c))
    BY Adds
  <1> HIDE DEF g
  <1>2. ASSUME NEW k \in 0..(c + 1) - 1, NEW p \in Parts
        PROVE  g[start + 3 * k + p] = [record |-> StepRecord(e, k), part |-> p]
    <2>1. CASE k = c
      BY <1>1, <2>1 DEF Ending, Parts
    <2>2. CASE k # c
      <3>1. k \in 0..c - 1
        BY <2>2
      <3> QED BY <1>1, <3>1 DEF Body
    <2> QED BY <2>1, <2>2
  <1>3. Len(g) = start + 3 * (c + 1)
    BY <1>1 DEF Ending
  <1> QED BY <1>2, <1>3 DEF Body, g

LEMMA Writing ==
    ASSUME IInv, pc = "write"
    PROVE  /\ DecisionRecord = StepRecord(ep, collected)
           /\ StepRecord(ep, collected) \in Record
           /\ ep \in Episodes /\ collected \in Nat /\ collected + 1 \in 0..MaxDecisions
  <1>1. ep \in Episodes /\ collected \in Nat /\ collected + 1 \in 0..MaxDecisions
    BY BoundsAssumption DEF IInv, TypeInv, TypeOK, PlaceInv
  <1>2. seen.point = collected + 1 /\ root[ep] = collected + 2 /\ root[ep] \in 0..MaxPoints
    BY <1>1 DEF IInv, PlaceInv, TypeInv, TypeOK
  <1>3. DecisionRecord = StepRecord(ep, collected)
    BY <1>2 DEF DecisionRecord, StepRecord
  <1>4. StepRecord(ep, collected) \in Record
    <2>1. collected \in 0..MaxDecisions /\ collected + 1 \in 0..MaxPoints /\ collected + 2 \in 1..MaxPoints
      BY <1>1, <1>2, BoundsAssumption
    <2> QED BY <1>1, <2>1 DEF StepRecord, Record
  <1> QED BY <1>1, <1>3, <1>4

LEMMA WritingResult ==
    ASSUME IInv, pc = "result"
    PROVE  /\ ResultRecord = EndRecord(ep, collected, completed)
           /\ EndRecord(ep, collected, completed) \in Record
           /\ ep \in Episodes /\ collected \in Nat
  <1>1. ep \in Episodes /\ collected \in 0..MaxDecisions
    BY DEF IInv, TypeInv, TypeOK, PlaceInv
  <1>2. root[ep] = collected + 1 /\ seen = [point |-> root[ep], kind |-> kind] /\ root[ep] \in 0..MaxPoints
    BY <1>1 DEF IInv, PlaceInv, TypeInv, TypeOK
  <1>3. ResultRecord = EndRecord(ep, collected, completed)
    BY <1>2 DEF ResultRecord, EndRecord
  <1>4. EndRecord(ep, collected, completed) \in Record
    <2>1. 0 \in 0..MaxPoints /\ collected + 1 \in 1..MaxPoints /\ completed \in BOOLEAN
      BY <1>1, <1>2, BoundsAssumption DEF IInv, TypeInv, TypeOK
    <2> QED BY <1>1, <2>1 DEF EndRecord, Record
  <1> QED BY <1>1, <1>3, <1>4, BoundsAssumption

-----------------------------------------------------------------------------
(* RL and the process.                                                     *)

LEMMA Executing ==
    ASSUME IInv, pc = "commit", Execute
    PROVE  /\ root' \in [Episodes -> 0..MaxPoints] /\ kind' \in Kinds
           /\ root'[ep] = root[ep] + 1
           /\ root'[ep] = MaxPoints => kind' = "end"
           /\ \A e \in Episodes \ {ep} : root'[e] = root[e]
  <1>1. ep \in Episodes /\ root \in [Episodes -> 0..MaxPoints]
    BY DEF IInv, PlaceInv, TypeInv, TypeOK
  <1>2. root[ep] # MaxPoints
    BY DEF IInv, PlaceInv
  <1>3. root' = [root EXCEPT ![ep] = root[ep] + 1]
    BY DEF Execute
  <1>4. root[ep] + 1 \in 0..MaxPoints
    BY <1>1, <1>2, BoundsAssumption
  <1>5. /\ root' \in [Episodes -> 0..MaxPoints] /\ root'[ep] = root[ep] + 1
        /\ \A e \in Episodes \ {ep} : root'[e] = root[e]
    BY <1>1, <1>3, <1>4
  <1>6. kind' \in Kinds /\ (root'[ep] = MaxPoints => kind' = "end")
    BY DEF Execute, Kinds
  <1> QED BY <1>5, <1>6

LEMMA Starting ==
    ASSUME IInv, pc = "start", root' = [root EXCEPT ![ep] = 1],
           kind' \in IF MaxPoints = 1 THEN {"end"} ELSE Kinds
    PROVE  /\ root' \in [Episodes -> 0..MaxPoints] /\ kind' \in Kinds
           /\ root'[ep] = 1
           /\ root'[ep] = MaxPoints => kind' = "end"
           /\ \A e \in Episodes \ {ep} : root'[e] = root[e]
  <1>1. ep \in Episodes /\ root \in [Episodes -> 0..MaxPoints] /\ 1 \in 0..MaxPoints
    BY BoundsAssumption DEF IInv, PlaceInv, TypeInv, TypeOK
  <1>2. kind' \in Kinds /\ (1 = MaxPoints => kind' = "end")
    BY DEF Kinds
  <1> QED BY <1>1, <1>2

\* Late, nothing is asked of the process but its episode.
LEMMA LatePlace ==
    ASSUME ep' \in Episodes, pc' \in Late PROVE PlaceInv'
  BY DEF Late, PlaceInv

LEMMA PlaceStep == ASSUME IInv, Next PROVE PlaceInv'
  <1> USE DEF IInv
  <1>0. /\ pc # "launch" => ep \in Episodes
        /\ collected \in Nat /\ ep \in Nat
        /\ root \in [Episodes -> 0..MaxPoints]
    BY BoundsAssumption DEF PlaceInv, TypeInv, TypeOK
  <1>1. CASE Launch
    <2>1. ep' \in Episodes
      BY <1>1, <1>0, BoundsAssumption DEF Launch, Episodes
    <2> QED BY <1>1, <2>1, BoundsAssumption DEF Launch, Goto, PlaceInv
  <1>2. CASE Start
    <2>1. ep' \in Episodes /\ collected' = 0 /\ 0 < MaxDecisions
      BY <1>0, <1>2, BoundsAssumption DEF Start, episodeVars, PlaceInv
    <2>2. CASE pc' = "exit"
      BY <2>1, <2>2, LatePlace DEF Late
    <2>3. CASE pc' # "exit"
      <3>1. /\ pc = "start" /\ pc' = "get" /\ ep' = ep
            /\ root' = [root EXCEPT ![ep] = 1]
            /\ kind' \in IF MaxPoints = 1 THEN {"end"} ELSE Kinds
        BY <1>2, <2>3 DEF Start, Goto
      <3>2. root'[ep] = 1 /\ (root'[ep] = MaxPoints => kind' = "end")
        BY <3>1, Starting
      <3> QED BY <2>1, <3>1, <3>2 DEF PlaceInv
    <2> QED BY <2>2, <2>3
  <1>3. CASE Get
    BY <1>0, <1>3 DEF Get, Goto, Fails, PlaceInv, rlVars
  <1>4. CASE Look
    <2>1. CASE Terminal
      BY <1>0, <1>4, <2>1 DEF Look, Terminal, Goto, PlaceInv, rlVars
    <2>2. CASE ~Terminal
      <3>1. /\ pc = "look" /\ ep' = ep /\ pc' \in {"rollback", "collect"}
            /\ completed' = FALSE /\ seen.kind # "end"
            /\ seen' = seen /\ collected' = collected /\ UNCHANGED rlVars
        BY <1>4, <2>2 DEF Look, Terminal, Goto, Fails
      <3>2. CASE pc' = "rollback"
        BY <1>0, <3>1, <3>2, LatePlace DEF Late
      <3>3. CASE pc' = "collect"
        BY <1>0, <3>1, <3>3 DEF PlaceInv, rlVars
      <3> QED BY <3>1, <3>2, <3>3
    <2> QED BY <2>1, <2>2
  <1>5. CASE Collect
    <2>1. /\ pc = "collect" /\ ep' = ep /\ pc' \in {"rollback", "decide", "result"}
          /\ UNCHANGED episodeVars /\ UNCHANGED rlVars
      BY <1>5 DEF Collect, Goto, Fails
    <2>2. CASE pc' = "rollback"
      BY <1>0, <2>1, <2>2, LatePlace DEF Late
    <2>3. CASE pc' # "rollback"
      <3>1. completed \in BOOLEAN /\ ~completed /\ kind # "end"
        BY <2>1 DEF PlaceInv, TypeInv, TypeOK
      <3>2. completed = (kind = "end")
        BY <3>1
      <3>3. /\ root[ep] = collected + 1 /\ (root[ep] = MaxPoints => kind = "end")
            /\ seen = [point |-> root[ep], kind |-> kind] /\ collected < MaxDecisions
        BY <2>1 DEF PlaceInv
      <3>4. pc' \in {"commit", "decide", "result"}
        BY <2>1, <2>3
      <3> QED BY <1>0, <2>1, <3>1, <3>2, <3>3, <3>4 DEF PlaceInv, episodeVars, rlVars
    <2> QED BY <2>2, <2>3
  <1>6. CASE Decide
    <2>1. /\ pc = "decide" /\ ep' = ep /\ pc' \in {"rollback", "commit", "result"}
          /\ UNCHANGED episodeVars /\ UNCHANGED rlVars
      BY <1>6 DEF Decide, Goto, Fails
    <2>2. CASE pc' = "rollback"
      BY <1>0, <2>1, <2>2, LatePlace DEF Late
    <2>3. CASE pc' # "rollback"
      <3>1. completed \in BOOLEAN /\ ~completed /\ kind # "end"
        BY <2>1 DEF PlaceInv, TypeInv, TypeOK
      <3>2. completed = (kind = "end")
        BY <3>1
      <3>3. /\ root[ep] = collected + 1 /\ (root[ep] = MaxPoints => kind = "end")
            /\ seen = [point |-> root[ep], kind |-> kind] /\ collected < MaxDecisions
        BY <2>1 DEF PlaceInv
      <3>4. pc' \in {"commit", "decide", "result"}
        BY <2>1, <2>3
      <3> QED BY <1>0, <2>1, <3>1, <3>2, <3>3, <3>4 DEF PlaceInv, episodeVars, rlVars
    <2> QED BY <2>2, <2>3
  <1>7. CASE Commit
    <2>1. pc = "commit" /\ ep' = ep /\ UNCHANGED episodeVars
      BY <1>7 DEF Commit
    <2>2. CASE pc' = "rollback"
      BY <1>0, <2>1, <2>2, LatePlace DEF Late
    <2>3. CASE pc' # "rollback"
      <3>1. Execute /\ pc' = "write"
        BY <1>7, <2>3 DEF Commit, Goto, Fails
      <3>2. root'[ep] = root[ep] + 1 /\ (root'[ep] = MaxPoints => kind' = "end")
        BY <2>1, <3>1, Executing
      <3>3. /\ root[ep] = collected + 1 /\ seen.point = root[ep]
            /\ collected < MaxDecisions
        BY <2>1 DEF PlaceInv
      <3>4. root'[ep] = collected + 2
        BY <1>0, <3>2, <3>3
      <3> QED BY <1>0, <2>1, <3>1, <3>2, <3>3, <3>4 DEF PlaceInv, episodeVars
    <2> QED BY <2>2, <2>3
  <1>8. CASE Write
    <2>1. pc = "write" /\ ep' = ep /\ UNCHANGED rlVars /\ collected + 1 \in 0..MaxDecisions
      BY <1>8, Writing DEF Write
    <2>2. CASE pc' = "rollback"
      BY <1>0, <2>1, <2>2, LatePlace DEF Late
    <2>3. CASE pc' # "rollback"
      <3>1. /\ collected' = collected + 1 /\ completed' = (kind = "end")
            /\ seen' = [point |-> root[ep], kind |-> kind]
            /\ pc' = IF kind = "end" \/ collected' >= MaxDecisions THEN "result" ELSE "look"
        BY <1>8, <2>3 DEF Write, Goto, Fails, Ended, LimitReached
      <3>2. root[ep] = collected + 2 /\ (root[ep] = MaxPoints => kind = "end")
        BY <2>1 DEF PlaceInv
      <3>3. root'[ep'] = collected' + 1
        BY <1>0, <2>1, <3>1, <3>2 DEF rlVars
      <3>4. pc' = "look" => collected' < MaxDecisions
        BY <1>0, <3>1, BoundsAssumption
      <3>5. pc' \in {"look", "result"}
        BY <3>1
      <3> QED BY <1>0, <2>1, <3>1, <3>2, <3>3, <3>4, <3>5 DEF PlaceInv, rlVars
    <2> QED BY <2>2, <2>3
  <1>9. CASE WriteResult
    BY <1>0, <1>9, LatePlace DEF WriteResult, Goto, Fails, Late
  <1>10. CASE Rollback
    BY <1>0, <1>10, LatePlace DEF Rollback, Late
  <1>11. CASE Close
    BY <1>0, <1>11, LatePlace DEF Close, Goto, Late
  <1>12. CASE Cancel
    <2>1. ep' = ep /\ pc' \in Late
      BY <1>12 DEF Cancel, Late
    <2>2. pc # "launch"
      BY <1>12 DEF Cancel
    <2> QED BY <1>0, <2>1, <2>2, LatePlace
  <1>13. CASE Kill
    <2>1. ep' = ep /\ pc' \in Late /\ pc # "launch"
      BY <1>13 DEF Kill, Late
    <2> QED BY <1>0, <2>1, LatePlace
  <1>14. CASE File
    BY <1>0, <1>14, LatePlace DEF File, Goto, Late
  <1>15. CASE Done
    BY <1>15 DEF Done, vars, episodeVars, rlVars, PlaceInv
  <1> QED BY <1>1, <1>2, <1>3, <1>4, <1>5, <1>6, <1>7, <1>8, <1>9, <1>10,
             <1>11, <1>12, <1>13, <1>14, <1>15 DEF Next

-----------------------------------------------------------------------------
(* Types.                                                                  *)

LEMMA Truncating ==
    ASSUME IInv
    PROVE  /\ Truncated \in Seq(Piece) /\ Len(Truncated) = start
           /\ \A i \in 1..start : Truncated[i] = file[i]
  <1>1. file \in Seq(Piece) /\ start \in Nat /\ start <= Len(file)
    BY DEF IInv, TypeInv, TypeOK, FileInv
  <1>2. \A i \in 1..start : file[i] \in Piece
    BY <1>1
  <1>3. Truncated \in Seq(Piece)
    BY <1>1, <1>2, SubSeqProperties DEF Truncated
  <1>4. Len(Truncated) = start
    <2>1. Len(Truncated) = IF 1 <= start THEN start - 1 + 1 ELSE 0
      BY <1>1, <1>2, SubSeqProperties DEF Truncated
    <2> QED BY <1>1, <2>1
  <1>5. \A i \in 1..start : Truncated[i] = file[i]
    <2>1. \A i \in 1..start - 1 + 1 : Truncated[i] = file[1 + i - 1]
      BY <1>1, <1>2, SubSeqProperties DEF Truncated
    <2> QED BY <1>1, <2>1
  <1> QED BY <1>3, <1>4, <1>5

\* What a step may do to the file.
LEMMA FileChange ==
    ASSUME IInv, Next
    PROVE  \/ file' = file
           \/ pc = "launch" /\ file' = <<>>
           \/ pc = "rollback" /\ file' = Truncated
           \/ /\ pc = "write"
              /\ \E n \in 0..3 : file' = Extended(StepRecord(ep, collected), n)
           \/ /\ pc = "result"
              /\ \E n \in 0..3 : file' = Extended(EndRecord(ep, collected, completed), n)
  <1>1. CASE Write
    <2>1. pc = "write" /\ DecisionRecord = StepRecord(ep, collected)
      BY <1>1, Writing DEF Write
    <2>2. \E n \in 0..3 : file' = Extended(DecisionRecord, n)
      BY <1>1 DEF Write
    <2> QED BY <2>1, <2>2
  <1>2. CASE WriteResult
    <2>1. pc = "result" /\ ResultRecord = EndRecord(ep, collected, completed)
      BY <1>2, WritingResult DEF WriteResult
    <2>2. \E n \in 0..3 : file' = Extended(ResultRecord, n)
      BY <1>2 DEF WriteResult
    <2> QED BY <2>1, <2>2
  <1>3. CASE Kill
    <2>1. CASE pc = "write"
      <3>1. \E n \in 0..3 : file' = Extended(DecisionRecord, n)
        BY <1>3, <2>1 DEF Kill
      <3> QED BY <2>1, <3>1, Writing
    <2>2. CASE pc = "result"
      <3>1. \E n \in 0..3 : file' = Extended(ResultRecord, n)
        BY <1>3, <2>2 DEF Kill
      <3> QED BY <2>2, <3>1, WritingResult
    <2>3. CASE pc \notin {"write", "result"}
      BY <1>3, <2>3 DEF Kill
    <2> QED BY <2>1, <2>2, <2>3
  <1>4. CASE Launch
    BY <1>4 DEF Launch
  <1>5. CASE Rollback
    BY <1>5 DEF Rollback
  <1>6. CASE Start \/ Get \/ Look \/ Collect \/ Decide \/ Commit \/ Close \/ Cancel \/ File \/ Done
    BY <1>6 DEF Start, Get, Look, Collect, Decide, Commit, Close, Cancel, File, Done, vars
  <1> QED BY <1>1, <1>2, <1>3, <1>4, <1>5, <1>6 DEF Next

LEMMA FileType == ASSUME IInv, Next PROVE file' \in Seq(Piece) /\ library' \subseteq Seq(Piece)
  <1>1. file \in Seq(Piece) /\ library \subseteq Seq(Piece)
    BY DEF IInv, TypeInv
  <1>2. file' \in Seq(Piece)
    <2>1. CASE file' = file
      BY <1>1, <2>1
    <2>2. CASE pc = "launch" /\ file' = <<>>
      BY <2>2
    <2>3. CASE pc = "rollback" /\ file' = Truncated
      BY <2>3, Truncating
    <2>4. CASE /\ pc = "write"
               /\ \E n \in 0..3 : file' = Extended(StepRecord(ep, collected), n)
      BY <1>1, <2>4, Writing, Appending
    <2>5. CASE /\ pc = "result"
               /\ \E n \in 0..3 : file' = Extended(EndRecord(ep, collected, completed), n)
      BY <1>1, <2>5, WritingResult, Appending
    <2> QED BY <2>1, <2>2, <2>3, <2>4, <2>5, FileChange
  <1>3. library' = library \/ library' = library \cup {file}
    BY DEF Next, Launch, Start, Get, Look, Collect, Decide, Commit, Write, WriteResult,
           Rollback, Close, Cancel, Kill, File, Done, vars
  <1> QED BY <1>1, <1>2, <1>3

LEMMA TypeStep == ASSUME IInv, Next PROVE TypeInv'
  <1>1. TypeOK /\ PlaceInv /\ file \in Seq(Piece)
    BY DEF IInv, TypeInv
  <1>2. file' \in Seq(Piece) /\ library' \subseteq Seq(Piece)
    BY FileType
  <1>3. /\ \A i \in DOMAIN file' : file'[i] \in Piece
        /\ \A f \in library' : \A i \in DOMAIN f : f[i] \in Piece
    BY <1>2
  <1>4. pc # "launch" => ep \in Episodes
    BY <1>1 DEF PlaceInv
  <1>5. managed' \in BOOLEAN /\ pc' \in Places
    BY <1>1 DEF TypeOK, Next, Launch, Start, Get, Look, Collect, Decide, Commit, Write,
                WriteResult, Rollback, Close, Cancel, Kill, File, Done, vars, Places, Goto, Fails
  <1>6. ep' \in 0..MaxEpisodes
    <2>1. CASE Launch
      BY <1>1, <2>1, BoundsAssumption DEF TypeOK, Launch
    <2>2. CASE ~Launch
      BY <1>1, <2>2 DEF TypeOK, Next, Start, Get, Look, Collect, Decide, Commit, Write,
                WriteResult, Rollback, Close, Cancel, Kill, File, Done, vars
    <2> QED BY <2>1, <2>2
  <1>7. start' \in Nat
    <2>1. CASE Launch
      BY <1>2, <2>1 DEF Launch
    <2>2. CASE ~Launch
      BY <1>1, <2>2 DEF TypeOK, Next, Start, Get, Look, Collect, Decide, Commit, Write,
                WriteResult, Rollback, Close, Cancel, Kill, File, Done, vars
    <2> QED BY <2>1, <2>2
  <1>8. /\ seen' \in Decision \cup {NoDecision}
        /\ collected' \in 0..MaxDecisions /\ completed' \in BOOLEAN
    <2>1. CASE Launch
      <3>1. seen' = NoDecision /\ collected' = 0 /\ completed' = FALSE
        BY <2>1 DEF Launch
      <3>2. 0 \in 0..MaxDecisions
        BY BoundsAssumption
      <3> QED BY <3>1, <3>2
    <2>2. CASE Get
      <3>1. root[ep] \in 1..MaxPoints /\ kind \in Kinds
        BY <1>1, <1>4, <2>2, BoundsAssumption DEF Get, TypeOK, PlaceInv
      <3>2. [point |-> root[ep], kind |-> kind] \in Decision
        BY <3>1 DEF Decision
      <3> QED BY <1>1, <2>2, <3>2 DEF Get, TypeOK
    <2>3. CASE Look
      BY <1>1, <2>3 DEF Look, TypeOK, Terminal
    <2>4. CASE Write
      <3>1. root[ep] \in 1..MaxPoints /\ kind \in Kinds /\ collected + 1 \in 0..MaxDecisions
        BY <1>1, <1>4, <2>4, Writing, BoundsAssumption DEF Write, TypeOK, PlaceInv
      <3>2. [point |-> root[ep], kind |-> kind] \in Decision
        BY <3>1 DEF Decision
      <3> QED BY <1>1, <2>4, <3>1, <3>2 DEF Write, TypeOK, Ended, episodeVars
    <2>5. CASE UNCHANGED episodeVars
      BY <1>1, <2>5 DEF TypeOK, episodeVars
    <2> QED BY <2>1, <2>2, <2>3, <2>4, <2>5
              DEF Next, Start, Collect, Decide, Commit, WriteResult, Rollback, Close, Cancel,
                  Kill, File, Done, vars
  <1>9. root' \in [Episodes -> 0..MaxPoints] /\ kind' \in Kinds
    <2>1. CASE UNCHANGED rlVars
      BY <1>1, <2>1 DEF TypeOK, rlVars
    <2>2. CASE Start
      BY <1>1, <2>1, <2>2, Starting DEF Start
    <2>3. CASE Commit \/ Cancel \/ Kill
      BY <2>1, <2>3, Executing DEF Commit, Cancel, Kill
    <2> QED BY <2>1, <2>2, <2>3
              DEF Next, Launch, Get, Look, Collect, Decide, Write, WriteResult, Rollback,
                  Close, File, Done, vars
  <1>10. cut' \subseteq trouble' /\ trouble' \subseteq Episodes
    BY <1>1, <1>4
       DEF TypeOK, Next, Launch, Start, Get, Look, Collect, Decide, Commit, Write, WriteResult,
           Rollback, Close, Cancel, Kill, File, Done, vars, Goto, Fails, Cut
  <1> QED BY <1>2, <1>3, <1>5, <1>6, <1>7, <1>8, <1>9, <1>10 DEF TypeInv, TypeOK

-----------------------------------------------------------------------------
(* What the file holds of the current episode.                             *)

Same == UNCHANGED <<managed, ep, start, collected>>

\* The process goes on without writing.
LEMMA GoesOn ==
    ASSUME IInv, Same, file' = file, pc \notin Late, pc' \notin Late
    PROVE  FileInv'
  <1>1. pc' \notin {"close", "exit"}
    BY DEF Late
  <1> QED BY <1>1 DEF IInv, FileInv, Same

\* It will not write any more: nothing stands behind its decision records.
LEMMA Stops ==
    ASSUME IInv, Same, file' = file, pc \notin Late, pc' \in Late,
           pc' \in {"close", "exit"} => ep \in cut' \/ collected = 0
    PROVE  FileInv'
  <1>1. /\ start \in Nat /\ collected \in Nat /\ Len(file) = start + 3 * collected
        /\ Body(file, start, ep, collected) /\ (managed => start = 0)
    BY BoundsAssumption DEF IInv, FileInv, TypeInv, TypeOK
  <1>2. Ending(file, start + 3 * collected, 0, EndRecord(ep, collected, completed'))
    BY <1>1 DEF Ending
  <1>3. \E n \in 0..3, r \in {StepRecord(ep, collected), EndRecord(ep, collected, completed')} :
           Ending(file, start + 3 * collected, n, r)
    BY <1>2
  <1>4. pc' \in {"close", "exit"} /\ ep \notin cut' => Len(file) = start
    BY <1>1
  <1>5. start <= Len(file)
    BY <1>1
  <1>6. (\E n \in 0..3, r \in {StepRecord(ep, collected), EndRecord(ep, collected, completed)} :
           Ending(file, start + 3 * collected, n, r))'
    BY <1>3, Zenon DEF Same
  <1>7. /\ Body(file, start, ep, collected)'
        /\ managed' = managed /\ start' = start /\ ep' = ep
    BY <1>1, Zenon DEF Same
  <1> QED BY <1>1, <1>4, <1>5, <1>6, <1>7, Zenon DEF FileInv

\* Afterwards the file stays as it is.
LEMMA Stays ==
    ASSUME IInv, Same, file' = file, completed' = completed, pc \in Late, pc' \in Late,
           pc' \in {"close", "exit"} /\ ep \notin cut' => pc \in {"close", "exit"} /\ ep \notin cut
    PROVE  FileInv'
  BY DEF IInv, FileInv, Same

\* The process writes some pieces of its last record.
LEMMA Ends ==
    ASSUME IInv, Same, completed' = completed, pc \notin Late, pc' \in Late,
           NEW r \in {StepRecord(ep, collected), EndRecord(ep, collected, completed)},
           r \in Record, NEW n \in 0..3, file' = Extended(r, n),
           pc' \in {"close", "exit"} /\ ep \notin cut'
               => n = 3 /\ r = EndRecord(ep, collected, completed)
    PROVE  FileInv'
  <1>1. /\ file \in Seq(Piece) /\ start \in Nat /\ collected \in Nat
        /\ Len(file) = start + 3 * collected
        /\ Body(file, start, ep, collected) /\ (managed => start = 0)
    BY BoundsAssumption DEF IInv, FileInv, TypeInv, TypeOK
  <1>2. Body(file', start, ep, collected) /\ Ending(file', start + 3 * collected, n, r)
    <2>1. /\ Body(Extended(r, n), start, ep, collected)
          /\ Ending(Extended(r, n), start + 3 * collected, n, r)
      BY <1>1, Adds, Zenon
    <2> QED BY <2>1, Zenon
  <1>3. start <= Len(file')
    <2>1. Len(file') = (start + 3 * collected) + n
      BY <1>2 DEF Ending
    <2> QED BY <1>1, <2>1
  <1>4. \E k \in 0..3, q \in {StepRecord(ep, collected), EndRecord(ep, collected, completed)} :
           Ending(file', start + 3 * collected, k, q)
    BY <1>2
  <1>5. (\E k \in 0..3, q \in {StepRecord(ep, collected), EndRecord(ep, collected, completed)} :
           Ending(file, start + 3 * collected, k, q))'
    BY <1>4, Zenon DEF Same
  <1>6. Body(file, start, ep, collected)' /\ managed' = managed /\ start' = start
    BY <1>2, Zenon DEF Same
  <1>7. pc' \in {"close", "exit"} /\ ep' \notin cut'
           => Ending(file, start + 3 * collected, 3, EndRecord(ep, collected, completed))'
    BY <1>2, Zenon DEF Same
  <1> QED BY <1>1, <1>3, <1>5, <1>6, <1>7, Zenon DEF FileInv

LEMMA FileStep == ASSUME IInv, Next PROVE FileInv'
  <1>1. CASE Launch
    <2>1. /\ pc' = "start" /\ collected' = 0 /\ start' = Len(file')
          /\ managed' = managed /\ (managed => file' = <<>>)
      BY <1>1 DEF Launch, Goto
    <2>2. Len(file') \in Nat
      BY FileType
    <2>3. Body(file', start', ep', 0)
      BY DEF Body
    <2>4. pc' \notin Late /\ Len(file') = start' + 3 * 0
      BY <2>1, <2>2 DEF Late
    <2>5. managed' => start' = 0
      BY <2>1
    <2> QED BY <2>1, <2>2, <2>3, <2>4, <2>5 DEF FileInv, Late
  <1>2. CASE Start
    <2>1. Same /\ file' = file /\ pc = "start" /\ pc' \in {"get", "exit"} /\ collected = 0
      BY <1>2 DEF Start, Same, episodeVars, Goto, IInv, PlaceInv
    <2> QED BY <2>1, GoesOn, Stops DEF Late
  <1>3. CASE Get \/ Look \/ Collect \/ Decide \/ Commit
    <2>1. /\ Same /\ file' = file /\ pc \notin Late
          /\ pc' \notin Late \/ pc' = "rollback"
      BY <1>3 DEF Get, Look, Collect, Decide, Commit, Same, episodeVars, Goto, Fails, Late
    <2>2. CASE pc' = "rollback"
      BY <2>1, <2>2, Stops DEF Late
    <2> QED BY <2>1, <2>2, GoesOn
  <1>4. CASE Write
    <2>1. /\ pc = "write" /\ pc \notin Late /\ UNCHANGED <<managed, ep, start>>
          /\ DecisionRecord = StepRecord(ep, collected) /\ StepRecord(ep, collected) \in Record
      BY <1>4, Writing DEF Write, Late
    <2>2. CASE pc' = "rollback"
      <3>1. Same /\ completed' = completed /\ \E n \in 0..3 : file' = Extended(DecisionRecord, n)
        BY <1>4, <2>2 DEF Write, Goto, Same, episodeVars
      <3>2. PICK n \in 0..3 : file' = Extended(StepRecord(ep, collected), n)
        BY <2>1, <3>1
      <3> QED BY <2>1, <2>2, <3>1, <3>2, Ends DEF Late
    <2>3. CASE pc' # "rollback"
      <3>1. /\ file' = Extended(StepRecord(ep, collected), 3) /\ collected' = collected + 1
            /\ pc' \in {"look", "result"}
        BY <1>4, <2>1, <2>3 DEF Write, Goto, Fails
      <3>2. /\ file \in Seq(Piece) /\ start \in Nat /\ collected \in Nat
            /\ Len(file) = start + 3 * collected
            /\ Body(file, start, ep, collected) /\ (managed => start = 0)
        BY <2>1, BoundsAssumption DEF IInv, FileInv, TypeInv, TypeOK
      <3>3. /\ Body(file', start, ep, collected + 1)
            /\ Len(file') = start + 3 * (collected + 1)
        <4>1. /\ Body(Extended(StepRecord(ep, collected), 3), start, ep, collected + 1)
              /\ Len(Extended(StepRecord(ep, collected), 3)) = start + 3 * (collected + 1)
          BY <2>1, <3>2, Grows, Zenon
        <4> QED BY <3>1, <4>1, Zenon
      <3>4. start <= Len(file') /\ pc' \notin Late
        BY <3>1, <3>2, <3>3 DEF Late
      <3>5. start' = start /\ ep' = ep /\ managed' = managed
        BY <2>1
      <3>6. Body(file, start, ep, collected)' /\ Len(file') = start' + 3 * collected'
        BY <3>1, <3>3, <3>5, Zenon
      <3>7. pc' \notin {"close", "exit"}
        BY <3>1
      <3> QED BY <3>2, <3>4, <3>5, <3>6, <3>7, Zenon DEF FileInv
    <2> QED BY <2>2, <2>3
  <1>5. CASE WriteResult
    <2>1. /\ pc = "result" /\ pc \notin Late /\ Same /\ completed' = completed
          /\ ResultRecord = EndRecord(ep, collected, completed)
          /\ EndRecord(ep, collected, completed) \in Record
          /\ pc' \in {"rollback", "close"} /\ pc' \in Late
      BY <1>5, WritingResult DEF WriteResult, Late, Same, episodeVars, Goto, Fails
    <2>2. PICK n \in 0..3 : /\ file' = Extended(EndRecord(ep, collected, completed), n)
                            /\ pc' = "close" => n = 3
      BY <1>5, <2>1 DEF WriteResult, Goto, Fails
    <2> QED BY <2>1, <2>2, Ends
  <1>6. CASE Rollback
    <2>1. /\ pc = "rollback" /\ pc' = "close" /\ Same /\ completed' = completed
          /\ pc \in Late /\ pc' \in Late
      BY <1>6 DEF Rollback, Same, episodeVars, Late
    <2>2. CASE file' = Truncated
      <3>1. Len(file') = start /\ start \in Nat /\ (managed => start = 0)
        BY <2>2, Truncating DEF IInv, TypeInv, TypeOK, FileInv
      <3> QED BY <2>1, <3>1 DEF FileInv, Same
    <2>3. CASE file' # Truncated
      <3>1. file' = file /\ ep \in cut'
        BY <1>6, <2>3 DEF Rollback
      <3> QED BY <2>1, <3>1, Stays
    <2> QED BY <2>2, <2>3
  <1>7. CASE Close
    <2>1. /\ pc = "close" /\ pc' = "exit" /\ Same /\ completed' = completed /\ file' = file
          /\ cut' = cut /\ pc \in Late /\ pc' \in Late
      BY <1>7 DEF Close, Goto, Same, episodeVars, Late
    <2> QED BY <2>1, Stays
  <1>8. CASE Cancel
    <2>1. /\ Same /\ completed' = completed /\ file' = file /\ ep \in cut' /\ pc' \in Late
      BY <1>8 DEF Cancel, Cut, Same, episodeVars, Late
    <2> QED BY <2>1, Stays, Stops
  <1>9. CASE Kill
    <2>1. /\ Same /\ completed' = completed /\ ep \in cut' /\ pc' \in Late
      BY <1>9 DEF Kill, Cut, Same, episodeVars, Late
    <2>2. CASE pc = "write"
      <3>1. PICK n \in 0..3 : file' = Extended(DecisionRecord, n)
        BY <1>9, <2>2 DEF Kill
      <3>2. pc \notin Late
        BY <2>2 DEF Late
      <3> QED BY <2>1, <2>2, <3>1, <3>2, Writing, Ends
    <2>3. CASE pc = "result"
      <3>1. PICK n \in 0..3 : file' = Extended(ResultRecord, n)
        BY <1>9, <2>3 DEF Kill
      <3>2. pc \notin Late
        BY <2>3 DEF Late
      <3> QED BY <2>1, <2>3, <3>1, <3>2, WritingResult, Ends
    <2>4. CASE pc \notin {"write", "result"}
      <3>1. file' = file
        BY <1>9, <2>4 DEF Kill
      <3> QED BY <2>1, <3>1, Stays, Stops
    <2> QED BY <2>2, <2>3, <2>4
  <1>10. CASE File
    <2>1. /\ pc = "exit" /\ pc' \in {"done", "launch"} /\ Same /\ completed' = completed
          /\ file' = file /\ pc \in Late /\ pc' \in Late
      BY <1>10 DEF File, Goto, Same, episodeVars, Late
    <2> QED BY <2>1, Stays
  <1>11. CASE Done
    BY <1>11 DEF Done, vars, episodeVars, IInv, FileInv
  <1> QED BY <1>1, <1>2, <1>3, <1>4, <1>5, <1>6, <1>7, <1>8, <1>9, <1>10, <1>11 DEF Next

-----------------------------------------------------------------------------
(* A record goes on telling the truth.                                     *)

\* A record already written stays true: RL moves only in the current episode, and
\* only before the result of that episode is written.
LEMMA PlayedKept ==
    ASSUME IInv, Next, NEW r \in Record, Played(r) PROVE Played(r)'
  <1>0. r.ep \in Episodes /\ r.ep \in Nat /\ ep \in Nat /\ r.ep <= ep
    BY DEF Record, Episodes, Played, IInv, TypeInv, TypeOK
  <1>1. CASE UNCHANGED <<ep, rlVars>> /\ (pc \in Late => pc' \in Late)
    BY <1>1 DEF Played, rlVars
  <1>2. CASE Launch
    <2>1. ep' = ep + 1 /\ UNCHANGED rlVars
      BY <1>2 DEF Launch
    <2> QED BY <1>0, <2>1 DEF Played, rlVars
  <1>3. CASE Start \/ Commit \/ Cancel \/ Kill
    <2>1. ep' = ep /\ (pc \in Late => pc' \in Late)
      BY <1>3 DEF Start, Commit, Cancel, Kill, Late
    <2>2. CASE UNCHANGED rlVars
      BY <1>1, <2>1, <2>2
    <2>3. CASE ~ UNCHANGED rlVars
      <3>1. pc \in {"start", "commit"} /\ \A e \in Episodes \ {ep} : root'[e] = root[e]
        BY <1>3, <2>3, Starting, Executing DEF Start, Commit, Cancel, Kill
      <3>2. r.type = "result" => r.ep # ep
        BY <3>1 DEF Played, Late
      <3>3. r.type = "result" => root'[r.ep] = root[r.ep]
        BY <1>0, <3>1, <3>2
      <3> QED BY <2>1, <3>2, <3>3 DEF Played
    <2> QED BY <2>2, <2>3
  <1>4. CASE Get \/ Look \/ Collect \/ Decide \/ Write \/ WriteResult \/ Rollback \/ Close
             \/ File \/ Done
    <2>1. UNCHANGED <<ep, rlVars>>
      BY <1>4 DEF Get, Look, Collect, Decide, Write, WriteResult, Rollback, Close, File, Done,
                  vars
    <2>2. pc \in Late => pc' \in Late
      BY <1>4 DEF Get, Look, Collect, Decide, Write, WriteResult, Rollback, Close, File, Done,
                  vars, Goto, Late
    <2> QED BY <1>1, <2>1, <2>2
  <1> QED BY <1>2, <1>3, <1>4 DEF Next

LEMMA StepWasPlayed ==
    ASSUME IInv, Next, pc = "write", NEW r, r = StepRecord(ep, collected)
    PROVE  Played(r)'
  <1>1. ep' = ep /\ ep \in Nat
    <2>1. ep' = ep
      BY DEF Next, Launch, Start, Get, Look, Collect, Decide, Commit, Write, WriteResult,
             Rollback, Close, Cancel, Kill, File, Done
    <2> QED BY <2>1 DEF IInv, TypeInv, TypeOK
  <1>2. r.ep = ep /\ r.type = "decision" /\ r.point = r.index + 1 /\ r.next = r.index + 2
    <2>1. /\ r.ep = ep /\ r.type = "decision" /\ r.index = collected
          /\ r.point = collected + 1 /\ r.next = collected + 2
      BY DEF StepRecord
    <2> QED BY <2>1
  <1>3. r.ep <= ep' /\ r.type # "result"
    BY <1>1, <1>2
  <1> QED BY <1>2, <1>3 DEF Played

LEMMA ResultWasPlayed ==
    ASSUME IInv, Next, pc = "result", NEW r, r = EndRecord(ep, collected, completed)
    PROVE  Played(r)'
  <1>1. WriteResult \/ Kill
    BY DEF Next, Launch, Start, Get, Look, Collect, Decide, Commit, Write,
           Rollback, Close, Cancel, File, Done
  <1>2. ep' = ep /\ UNCHANGED rlVars /\ pc' \in Late
    BY <1>1 DEF WriteResult, Kill, Goto, Fails, Late
  <1>3. root[ep] = collected + 1 /\ completed = (kind = "end") /\ ep \in Nat
    BY DEF IInv, PlaceInv, TypeInv, TypeOK
  <1>4. r.ep = ep /\ r.type = "result" /\ r.index = collected /\ r.completed = completed
    BY DEF EndRecord
  <1>5. r.ep <= ep' /\ r.type # "decision"
    BY <1>2, <1>3, <1>4
  <1>6. root'[r.ep] = r.index + 1 /\ r.completed = (kind' = "end")
    BY <1>2, <1>3, <1>4 DEF rlVars
  <1> QED BY <1>2, <1>5, <1>6 DEF Played

LEMMA AppendedRecords ==
    ASSUME file \in Seq(Piece), NEW r \in Record, NEW n \in 0..3,
           NEW i \in DOMAIN Extended(r, n)
    PROVE  \/ i \in DOMAIN file /\ Extended(r, n)[i] = file[i]
           \/ Extended(r, n)[i].record = r
  <1>1. Len(file) \in Nat /\ DOMAIN file = 1..Len(file)
    OBVIOUS
  <1>2. DOMAIN Extended(r, n) = 1..Len(file) + n
    <2>1. Extended(r, n) \in Seq(Piece) /\ Len(Extended(r, n)) = Len(file) + n
      BY Appending
    <2> QED BY <2>1
  <1>3. CASE i <= Len(file)
    <2>1. i \in 1..Len(file)
      BY <1>1, <1>2, <1>3
    <2> QED BY <1>1, <2>1, Appending
  <1>4. CASE i > Len(file)
    <2>1. i - Len(file) \in 1..n
      BY <1>1, <1>2, <1>4
    <2>2. Extended(r, n)[Len(file) + (i - Len(file))] = [record |-> r, part |-> i - Len(file)]
      BY <2>1, Appending
    <2>3. Len(file) + (i - Len(file)) = i
      BY <1>1, <1>2
    <2> QED BY <2>2, <2>3
  <1> QED BY <1>1, <1>2, <1>3, <1>4

LEMMA RecordsStep == ASSUME IInv, Next PROVE RecordsInv'
  <1>1. /\ file \in Seq(Piece) /\ \A f \in library : f \in Seq(Piece)
        /\ \A i \in DOMAIN file : Played(file[i].record)
        /\ \A f \in library : \A i \in DOMAIN f : Played(f[i].record)
    BY DEF IInv, TypeInv, RecordsInv
  <1>2. \A f \in Seq(Piece) : \A i \in DOMAIN f : f[i].record \in Record
    <2>1. \A f \in Seq(Piece) : \A i \in DOMAIN f : f[i] \in Piece
      OBVIOUS
    <2> QED BY <2>1 DEF Piece
  <1>3. ASSUME NEW i \in DOMAIN file'
        PROVE  \E r \in Record : file'[i].record = r /\ Played(r)'
    <2>1. CASE i \in DOMAIN file /\ file'[i] = file[i]
      <3>1. file[i].record \in Record /\ Played(file[i].record)
        BY <1>1, <1>2, <2>1
      <3>2. PICK r \in Record : r = file[i].record /\ Played(r)
        BY <3>1
      <3>3. Played(r)'
        BY <3>2, PlayedKept
      <3> QED BY <2>1, <3>2, <3>3
    <2>2. CASE pc = "launch" /\ file' = <<>>
      BY <1>3, <2>2
    <2>3. CASE pc = "rollback" /\ file' = Truncated
      <3>1. i \in 1..start /\ file'[i] = file[i]
        BY <1>3, <2>3, Truncating
      <3>2. i \in DOMAIN file
        BY <1>1, <3>1 DEF IInv, FileInv, TypeInv, TypeOK
      <3> QED BY <2>1, <3>1, <3>2
    <2>4. CASE /\ pc = "write"
               /\ \E n \in 0..3 : file' = Extended(StepRecord(ep, collected), n)
      <3>1. PICK r \in Record : r = StepRecord(ep, collected)
        BY <2>4, Writing
      <3>2. PICK n \in 0..3 : file' = Extended(r, n)
        BY <2>4, <3>1
      <3>3. (i \in DOMAIN file /\ file'[i] = file[i]) \/ file'[i].record = r
        BY <1>1, <1>3, <3>2, AppendedRecords
      <3>4. Played(r)'
        BY <2>4, <3>1, StepWasPlayed
      <3> QED BY <2>1, <3>3, <3>4
    <2>5. CASE /\ pc = "result"
               /\ \E n \in 0..3 : file' = Extended(EndRecord(ep, collected, completed), n)
      <3>1. PICK r \in Record : r = EndRecord(ep, collected, completed)
        BY <2>5, WritingResult
      <3>2. PICK n \in 0..3 : file' = Extended(r, n)
        BY <2>5, <3>1
      <3>3. (i \in DOMAIN file /\ file'[i] = file[i]) \/ file'[i].record = r
        BY <1>1, <1>3, <3>2, AppendedRecords
      <3>4. Played(r)'
        BY <2>5, <3>1, ResultWasPlayed
      <3> QED BY <2>1, <3>3, <3>4
    <2>6. CASE file' = file
      BY <1>3, <2>1, <2>6
    <2> QED BY <2>2, <2>3, <2>4, <2>5, <2>6, FileChange
  <1>4. library' \subseteq library \cup {file}
    BY DEF Next, Launch, Start, Get, Look, Collect, Decide, Commit, Write, WriteResult,
           Rollback, Close, Cancel, Kill, File, Done, vars
  <1>5. ASSUME NEW f \in library', NEW i \in DOMAIN f
        PROVE  \E r \in Record : f[i].record = r /\ Played(r)'
    <2>1. f[i].record \in Record /\ Played(f[i].record)
      BY <1>1, <1>2, <1>4
    <2>2. PICK r \in Record : r = f[i].record /\ Played(r)
      BY <2>1
    <2>3. Played(r)'
      BY <2>2, PlayedKept
    <2> QED BY <2>2, <2>3
  <1>6. \A i \in DOMAIN file' : Played(file[i].record)'
    BY <1>3 DEF Played
  <1>7. \A f \in library' : \A i \in DOMAIN f : Played(f[i].record)'
    BY <1>5 DEF Played
  <1> QED BY <1>6, <1>7 DEF RecordsInv

-----------------------------------------------------------------------------
(* What reaches data/oracle.                                               *)

\* A last line that is a result of an ended episode is one its collector completed.
LEMMA SuccessIsWhole ==
    ASSUME IInv, pc = "exit", managed, Success(file)
    PROVE  /\ Loads(file) /\ EpisodesIn(file) = {ep}
           /\ \A j \in Of(file, "result", ep) : file[j].record.completed
  <1>1. /\ file \in Seq(Piece) /\ collected \in Nat /\ start = 0
        /\ Len(file) \in Nat /\ DOMAIN file = 1..Len(file)
    BY BoundsAssumption DEF IInv, TypeInv, TypeOK, FileInv
  <1>2. PICK i \in Texts(file) :
           /\ i >= Len(file) - 1
           /\ file[i].record.type = "result" /\ file[i].record.completed
    BY DEF Success
  <1>3. /\ i \in 1..Len(file) /\ i > 1 /\ file[i].part = 2
        /\ file[i-1] = [file[i] EXCEPT !.part = 1]
    BY <1>1, <1>2 DEF Texts, Readable
  <1>4. Len(file) # start /\ pc \in Late
    BY <1>1, <1>3 DEF Late
  <1>5. Body(file, 0, ep, collected)
    BY <1>1, <1>4 DEF IInv, FileInv
  <1>6. PICK n \in 0..3, r \in {StepRecord(ep, collected), EndRecord(ep, collected, completed)} :
           Ending(file, start + 3 * collected, n, r)
    BY <1>4 DEF IInv, FileInv
  <1>7. /\ Ending(file, 3 * collected, n, r) /\ Len(file) = 3 * collected + n
        /\ \A p \in 1..n : file[3 * collected + p] = [record |-> r, part |-> p]
    <2>1. start + 3 * collected = 3 * collected
      BY <1>1
    <2> QED BY <1>6, <2>1 DEF Ending
  <1>8. i > 3 * collected
    <2> SUFFICES ASSUME i <= 3 * collected PROVE FALSE
      BY <1>1, <1>3
    <2>1. PICK k \in Nat, p \in Parts : i = 3 * k + p
      BY <1>1, <1>3, Thirds
    <2>2. k \in 0..collected - 1
      BY <1>1, <2>1 DEF Parts
    <2>3. file[0 + 3 * k + p] = [record |-> StepRecord(ep, k), part |-> p]
      BY <1>5, <2>2 DEF Body
    <2>4. file[i].record = StepRecord(ep, k)
      BY <2>1, <2>3 DEF Parts
    <2> QED BY <1>2, <2>4 DEF StepRecord
  <1>9. n \in {2, 3} /\ i = 3 * collected + 2 /\ file[i].record = r
    <2>1. i - 3 * collected \in 1..n
      BY <1>1, <1>3, <1>7, <1>8
    <2>2. file[3 * collected + (i - 3 * collected)] = [record |-> r, part |-> i - 3 * collected]
      BY <1>7, <2>1
    <2>3. 3 * collected + (i - 3 * collected) = i
      BY <1>1, <1>3
    <2>4. file[i].part = i - 3 * collected /\ file[i].record = r
      BY <2>2, <2>3
    <2>5. i - 3 * collected = 2
      BY <1>3, <2>4
    <2> QED BY <1>1, <1>3, <2>1, <2>4, <2>5
  <1>10. r = EndRecord(ep, collected, completed)
    BY <1>2, <1>6, <1>9 DEF StepRecord
  <1>11. Ending(file, 3 * collected, n, EndRecord(ep, collected, completed))
    BY <1>7, <1>10
  <1>12. n \in {2, 3}
    BY <1>9
  <1>13. file \in Seq(Piece) /\ collected \in Nat
    BY <1>1
  <1>14. Whole(file, ep, EndRecord(ep, collected, completed))
    BY <1>5, <1>11, <1>12, <1>13, WholeEpisodeLoads
  <1>15. completed
    BY <1>2, <1>9, <1>10 DEF EndRecord
  <1> QED BY <1>14, <1>15 DEF EndRecord, Whole

LEMMA LibraryStep == ASSUME IInv, Next PROVE LibraryInv'
  <1>1. CASE library' = library
    BY <1>1 DEF IInv, LibraryInv
  <1>2. CASE library' # library
    <2>1. pc = "exit" /\ managed /\ Success(file) /\ library' = library \cup {file}
      BY <1>2 DEF Next, Launch, Start, Get, Look, Collect, Decide, Commit, Write, WriteResult,
           Rollback, Close, Cancel, Kill, File, Done, vars
    <2>2. /\ Loads(file) /\ Cardinality(EpisodesIn(file)) = 1
          /\ \A e \in EpisodesIn(file) :
                \A i \in Of(file, "result", e) : file[i].record.completed
      <3>1. /\ Loads(file) /\ EpisodesIn(file) = {ep}
            /\ \A j \in Of(file, "result", ep) : file[j].record.completed
        BY <2>1, SuccessIsWhole
      <3>2. Cardinality({ep}) = 1
        BY FS_Singleton
      <3> QED BY <3>1, <3>2
    <2> QED BY <2>1, <2>2 DEF IInv, LibraryInv
  <1> QED BY <1>1, <1>2

-----------------------------------------------------------------------------
(* The theorems.                                                           *)

LEMMA InitIInv == Init => IInv
  <1> SUFFICES ASSUME Init PROVE IInv
    OBVIOUS
  <1>1. TypeInv
    <2>1. /\ managed \in BOOLEAN /\ pc \in Places /\ seen \in Decision \cup {NoDecision}
          /\ completed \in BOOLEAN /\ kind \in Kinds
          /\ cut \subseteq trouble /\ trouble \subseteq Episodes
      BY DEF Init, Places, Kinds
    <2>2. ep \in 0..MaxEpisodes /\ collected \in 0..MaxDecisions /\ start \in Nat
      BY BoundsAssumption DEF Init
    <2>3. root \in [Episodes -> 0..MaxPoints]
      BY BoundsAssumption DEF Init
    <2>4. file \in Seq(Piece) /\ library \subseteq Seq(Piece)
      BY DEF Init
    <2>5. /\ \A i \in DOMAIN file : file[i] \in Piece
          /\ \A f \in library : \A i \in DOMAIN f : f[i] \in Piece
      BY <2>4
    <2> QED BY <2>1, <2>2, <2>3, <2>4, <2>5 DEF TypeInv, TypeOK
  <1>2. PlaceInv
    BY DEF Init, PlaceInv
  <1>3. FileInv
    BY DEF Init, FileInv, Late
  <1>4. RecordsInv /\ LibraryInv
    BY DEF Init, RecordsInv, LibraryInv
  <1> QED BY <1>1, <1>2, <1>3, <1>4 DEF IInv

(***************************************************************************)
(* Where the process and RL stand, what the file holds of each episode and *)
(* what data/oracle has received, for any numbers of episodes, Decisions   *)
(* and decisions allowed, whatever fails.                                  *)
(***************************************************************************)
THEOREM CollectionInvariant == Spec => []IInv
  <1>1. IInv /\ [Next]_vars => IInv'
    <2> SUFFICES ASSUME IInv, [Next]_vars PROVE IInv'
      OBVIOUS
    <2>1. CASE Next
      BY <2>1, TypeStep, PlaceStep, FileStep, RecordsStep, LibraryStep DEF IInv
    <2>2. CASE UNCHANGED vars
      BY <2>2 DEF vars, episodeVars, rlVars, IInv, TypeInv, TypeOK, PlaceInv, FileInv,
                  RecordsInv, Played, LibraryInv
    <2> QED BY <2>1, <2>2
  <1> QED BY <1>1, InitIInv, PTL DEF Spec

LEMMA OwnPieces ==
    ASSUME IInv, NEW e, NEW c \in Nat, NEW n \in Nat, NEW r,
           Body(file, start, e, c), Ending(file, start + 3 * c, n, r)
    PROVE  Own \in Seq(Piece) /\ Body(Own, 0, e, c) /\ Ending(Own, 3 * c, n, r)
  <1>1. /\ file \in Seq(Piece) /\ start \in Nat
        /\ Len(file) = (start + 3 * c) + n
        /\ \A p \in 1..n : file[(start + 3 * c) + p] = [record |-> r, part |-> p]
    BY DEF IInv, TypeInv, TypeOK, Ending
  <1>2. \A i \in start + 1..Len(file) : file[i] \in Piece
    BY <1>1
  <1>3. Own \in Seq(Piece)
    BY <1>1, <1>2, SubSeqProperties DEF Own
  <1>4. Len(Own) = 3 * c + n
    <2>1. Len(Own) = IF start + 1 <= Len(file) THEN Len(file) - (start + 1) + 1 ELSE 0
      BY <1>1, <1>2, SubSeqProperties DEF Own
    <2> QED BY <1>1, <2>1
  <1>5. \A i \in 1..3 * c + n : Own[i] = file[start + i]
    <2>1. \A i \in 1..Len(file) - (start + 1) + 1 : Own[i] = file[(start + 1) + i - 1]
      BY <1>1, <1>2, SubSeqProperties DEF Own
    <2> TAKE i \in 1..3 * c + n
    <2>2. i \in 1..Len(file) - (start + 1) + 1 /\ (start + 1) + i - 1 = start + i
      BY <1>1
    <2> QED BY <2>1, <2>2
  <1>6. ASSUME NEW k \in 0..c - 1, NEW p \in Parts
        PROVE  Own[0 + 3 * k + p] = [record |-> StepRecord(e, k), part |-> p]
    <2>1. 3 * k + p \in 1..3 * c + n /\ 0 + 3 * k + p = 3 * k + p
      BY DEF Parts
    <2>2. file[start + 3 * k + p] = [record |-> StepRecord(e, k), part |-> p]
      BY DEF Body
    <2>3. start + 3 * k + p = start + (3 * k + p)
      BY <1>1 DEF Parts
    <2> QED BY <1>5, <2>1, <2>2, <2>3
  <1>7. ASSUME NEW p \in 1..n PROVE Own[3 * c + p] = [record |-> r, part |-> p]
    <2>1. 3 * c + p \in 1..3 * c + n /\ start + (3 * c + p) = (start + 3 * c) + p
      BY <1>1
    <2> QED BY <1>1, <1>5, <2>1
  <1> QED BY <1>3, <1>4, <1>6, <1>7 DEF Body, Ending

(***************************************************************************)
(* An episode that is not killed, not cancelled and whose rollback works   *)
(* leaves what was in the file, and of its own nothing or a trajectory the *)
(* loader takes, whichever request or write fails.                         *)
(***************************************************************************)
THEOREM EpisodesAreAtomic == Spec => []EpisodeIsAtomic
  <1>1. IInv => EpisodeIsAtomic
    <2> SUFFICES ASSUME IInv PROVE EpisodeIsAtomic
      OBVIOUS
    <2>1. TypeOK /\ file \in Seq(Piece) /\ start \in Nat /\ start <= Len(file)
      BY DEF IInv, TypeInv, TypeOK, FileInv
    <2>2. CASE pc = "exit" /\ ep \notin cut
      <3>1. Len(file) >= start
        BY <2>1
      <3>2. CASE Len(file) = start
        <4>1. Own = <<>>
          BY <2>1, <3>2, SubSeqEmpty DEF Own
        <4> QED BY <2>1, <3>1, <4>1 DEF EpisodeIsAtomic
      <3>3. CASE Len(file) # start
        <4>1. /\ Body(file, start, ep, collected)
              /\ Ending(file, start + 3 * collected, 3, EndRecord(ep, collected, completed))
          BY <2>2, <3>3 DEF IInv, FileInv, Late
        <4>2. collected \in Nat
          BY BoundsAssumption DEF IInv, TypeInv, TypeOK
        <4>3. /\ Own \in Seq(Piece) /\ Body(Own, 0, ep, collected)
              /\ Ending(Own, 3 * collected, 3, EndRecord(ep, collected, completed))
          BY <4>1, <4>2, OwnPieces
        <4>4. Loads(Own) /\ Of(Own, "result", ep) # {}
          BY <4>2, <4>3, WholeEpisodeLoads DEF Whole
        <4> QED BY <2>1, <3>1, <4>4 DEF EpisodeIsAtomic
      <3> QED BY <3>2, <3>3
    <2> QED BY <2>1, <2>2 DEF EpisodeIsAtomic
  <1> QED BY <1>1, CollectionInvariant, PTL

(***************************************************************************)
(* Whatever happens to the processes that write a file: if the loader      *)
(* takes it, each of its episodes is the game RL played; and data/oracle   *)
(* holds files the loader takes, of one episode each, that ended.          *)
(***************************************************************************)
THEOREM LoadedWasPlayed == Spec => []LoadedTrajectoryWasPlayed
  <1>1. IInv => LoadedTrajectoryWasPlayed
    <2> SUFFICES ASSUME IInv PROVE LoadedTrajectoryWasPlayed
      OBVIOUS
    <2> DEFINE files == library \cup (IF pc \in {"exit", "launch", "done"} THEN {file} ELSE {})
    <2>1. ASSUME NEW f \in files, Loads(f), NEW e \in EpisodesIn(f)
          PROVE  /\ Cardinality(Of(f, "decision", e)) = root[e] - 1
                 /\ \A i \in Of(f, "decision", e) :
                       /\ f[i].record.point = f[i].record.index + 1
                       /\ f[i].record.next = f[i].record.index + 2
                 /\ e = ep => \A i \in Of(f, "result", e) :
                                 f[i].record.completed = (kind = "end")
      <3>1. f \in Seq(Piece) /\ \A i \in DOMAIN f : Played(f[i].record)
        BY DEF IInv, TypeInv, RecordsInv
      <3>2. \A i \in DOMAIN f : f[i].record \in Record
        <4>1. \A i \in DOMAIN f : f[i] \in Piece
          BY <3>1
        <4> QED BY <4>1 DEF Piece
      <3>3. /\ Cardinality(Of(f, "result", e)) = 1
            /\ \A i \in Of(f, "result", e) :
                  f[i].record.index = Cardinality(Of(f, "decision", e))
        BY <2>1 DEF Loads
      <3>4. Of(f, "result", e) # {}
        <4>1. Cardinality({}) = 0
          BY FS_EmptySet
        <4> QED BY <3>3, <4>1
      <3>5. PICK i \in Of(f, "result", e) : TRUE
        BY <3>4
      <3>6. /\ i \in DOMAIN f /\ f[i].record.type = "result" /\ f[i].record.ep = e
            /\ f[i].record.index \in Nat
        BY <3>2, <3>5, BoundsAssumption DEF Of, Texts, Record
      <3>7. root[e] = f[i].record.index + 1
        BY <3>1, <3>6 DEF Played
      <3>8. Cardinality(Of(f, "decision", e)) = root[e] - 1
        BY <3>3, <3>5, <3>6, <3>7
      <3> QED BY <3>1, <3>8 DEF Of, Texts, Played
    <2> HIDE DEF files
    <2>2. LibraryInv
      BY DEF IInv
    <2> QED BY <2>1, <2>2 DEF LoadedTrajectoryWasPlayed, LibraryInv, files
  <1> QED BY <1>1, CollectionInvariant, PTL
===============================================================================
