-------------------------- MODULE ChatServiceProofs --------------------------
(***************************************************************************)
(* Theorems about ChatService, for any keys, fibers and limits: types and  *)
(* the sizes of threads, which copies of a thread are complete, and which  *)
(* messages a client that polls one thread misses.                         *)
(***************************************************************************)
EXTENDS ChatService, TLAPS, FiniteSetTheorems, SequenceTheorems

(***************************************************************************)
(* Threads of messages.                                                    *)
(***************************************************************************)
LEMMA RowFact ==
  /\ None \in Rows
  /\ \A row \in Rows : row # None => row \in ChatThread
  /\ \A thread \in ChatThread :
       /\ thread \in Rows /\ thread # None
       /\ thread.messages \in Seq(Message) /\ thread.update_time \in Nat
       /\ Len(thread.messages) \in Nat
       /\ DOMAIN thread.messages = 1..Len(thread.messages)
BY NoneAssumption, LenProperties DEF Rows, ChatThread

(* The newest messages are a suffix, and all of them unless there are more *)
(* than that.                                                              *)
LEMMA NewestFact ==
  ASSUME NEW s \in Seq(Message), NEW n \in Nat
  PROVE  /\ Newest(s, n) \in Seq(Message)
         /\ Len(Newest(s, n)) \in Nat /\ Len(Newest(s, n)) <= n
         /\ \E d \in Nat :
              /\ Len(s) = Len(Newest(s, n)) + d
              /\ d > 0 => Len(Newest(s, n)) = n
              /\ \A i \in 1..Len(Newest(s, n)) : Newest(s, n)[i] = s[i + d]
<1>1. Len(s) \in Nat /\ DOMAIN s = 1..Len(s)
      /\ \A i \in 1..Len(s) : s[i] \in Message
  BY LenProperties, ElementOfSeq
<1>2. CASE Len(s) <= n
  <2>1. Newest(s, n) = s
    BY <1>2 DEF Newest
  <2>2. /\ 0 \in Nat /\ Len(s) = Len(s) + 0 /\ ~(0 > 0)
        /\ \A i \in 1..Len(s) : s[i] = s[i + 0]
    BY <1>1
  <2>3. \E d \in Nat : /\ Len(s) = Len(s) + d
                       /\ d > 0 => Len(s) = n
                       /\ \A i \in 1..Len(s) : s[i] = s[i + d]
    BY <2>2, Zenon
  <2> QED
    BY <1>1, <1>2, <2>1, <2>3
<1>3. CASE Len(s) > n
  <2> DEFINE d == Len(s) - n
  <2>1. d \in Nat /\ d > 0 /\ d + 1 \in Int /\ d = Len(s) - n
    BY <1>1, <1>3
  <2>2. Newest(s, n) = SubSeq(s, d + 1, Len(s))
    BY <1>1, <1>3 DEF Newest
  <2> HIDE DEF d
  <2>3. \A i \in d + 1..Len(s) : s[i] \in Message
    BY <1>1, <2>1
  <2>4. /\ Newest(s, n) \in Seq(Message)
        /\ Len(Newest(s, n)) =
             IF d + 1 <= Len(s) THEN Len(s) - (d + 1) + 1 ELSE 0
        /\ \A i \in 1..Len(s) - (d + 1) + 1 :
             Newest(s, n)[i] = s[d + 1 + i - 1]
    BY <1>1, <2>1, <2>2, <2>3, SubSeqProperties
  <2>5. Len(Newest(s, n)) = n
    BY <1>1, <2>1, <2>4
  <2>6. \A i \in 1..n : Newest(s, n)[i] = s[i + d]
    BY <1>1, <2>1, <2>4
  <2>7. Len(s) = n + d /\ (d > 0 => n = n) /\ n \in Nat /\ n <= n
    BY <1>1, <2>1
  <2>8. \E e \in Nat : /\ Len(s) = n + e
                       /\ e > 0 => n = n
                       /\ \A i \in 1..n : Newest(s, n)[i] = s[i + e]
    BY <2>1, <2>6, <2>7, Zenon
  <2> QED
    BY <2>4, <2>5, <2>7, <2>8
<1>4. Len(s) <= n \/ Len(s) > n
  BY <1>1
<1> QED
  BY <1>2, <1>3, <1>4, Zenon

(* A message leaves a full thread when Max later ones have been received:  *)
(* each of these is in the thread, and there under an id of its own.       *)
LEMMA DroppedIsOld ==
  ASSUME NEW A \in SUBSET Message, IsFiniteSet(A), NEW c \in Nat,
         NEW thread \in ChatThread, InOrder(A, c, thread),
         NEW m \in A, m \in Elems(thread.messages),
         m \notin Elems(Newest(thread.messages, Max))
  PROVE  IsOld(A, m)
<1> DEFINE s == thread.messages
           t == Newest(s, Max)
           later == {n \in A : n.id > m.id}
<1>1. /\ s \in Seq(Message) /\ Len(s) \in Nat /\ DOMAIN s = 1..Len(s)
      /\ thread # None /\ Max \in Nat
  BY RowFact, ChatAssumption
<1>2. /\ t \in Seq(Message) /\ Len(t) \in Nat
      /\ DOMAIN t = 1..Len(t)
  BY <1>1, NewestFact, LenProperties
<1>3. PICK d \in Nat :
        /\ Len(s) = Len(t) + d
        /\ d > 0 => Len(t) = Max
        /\ \A i \in 1..Len(t) : t[i] = s[i + d]
  BY <1>1, NewestFact
<1>4. PICK i \in 1..Len(s) : m = s[i]
  BY <1>1 DEF Elems
<1>5. \A j, l \in 1..Len(s) :
        j < l => s[j].id < s[l].id /\ (s[j] \in A => s[l] \in A)
  BY <1>1 DEF InOrder
<1>6. \A x \in Message : x.id \in Nat
  BY DEF Message
<1>7. \A j \in 1..Len(s) : s[j] \in Message
  BY <1>1, ElementOfSeq
<1>8. \A j \in 1..Len(t) : t[j] # m
  BY <1>2 DEF Elems
<1> HIDE DEF s, t
<1>9. i <= d
  <2> SUFFICES ASSUME i > d PROVE FALSE
    BY <1>3, <1>4
  <2> DEFINE j == i - d
  <2>1. /\ i \in Int /\ i > d /\ d \in Nat /\ Len(t) \in Nat
        /\ i <= Len(t) + d
    <3>1. i \in Int /\ i <= Len(s)
      BY <1>1, <1>4
    <3>2. Len(s) = Len(t) + d /\ Len(t) \in Nat
      BY <1>2, <1>3
    <3> QED
      BY <3>1, <3>2
  <2>2. j \in 1..Len(t) /\ j + d = i
    BY <2>1
  <2> HIDE DEF j
  <2>3. t[j] = m
    BY <1>3, <1>4, <2>2
  <2> QED
    BY <1>8, <2>2, <2>3
<1>10. d > 0 /\ Len(t) = Max /\ Len(s) = Max + d
  <2>1. i > 0 /\ i \in Nat
    BY <1>1, <1>4
  <2>2. d > 0
    BY <1>3, <1>9, <2>1
  <2> QED
    BY <1>3, <2>2
<1>11. \A j \in 1..Max : /\ j + d \in 1..Len(s) /\ i < j + d
                         /\ s[j + d] \in later
  <2> TAKE j \in 1..Max
  <2>1. j + d \in 1..Len(s) /\ i < j + d
    BY <1>1, <1>3, <1>4, <1>9, <1>10
  <2>2. s[j + d] \in A /\ s[j + d].id > m.id
    BY <1>4, <1>5, <1>6, <1>7, <2>1
  <2> QED
    BY <2>1, <2>2
<1>12. \A j, l \in 1..Max : j < l => s[j + d] # s[l + d]
  <2> TAKE j, l \in 1..Max
  <2> HAVE j < l
  <2>1. j + d < l + d /\ j + d \in 1..Len(s) /\ l + d \in 1..Len(s)
    BY <1>1, <1>3, <1>11
  <2>2. s[j + d].id < s[l + d].id /\ s[j + d].id \in Nat
    BY <1>5, <1>6, <1>7, <2>1
  <2> QED
    BY <2>2
<1> DEFINE f == [j \in 1..Max |-> s[j + d]]
<1>13. f \in Injection(1..Max, later)
  <2>1. f \in [1..Max -> later]
    BY <1>11
  <2>2. \A j, l \in 1..Max : f[j] = f[l] => j = l
    BY <1>1, <1>12
  <2> QED
    BY <2>1, <2>2 DEF Injection, IsInjective
<1>14. IsFiniteSet(later)
  BY FS_Subset
<1>15. Cardinality(1..Max) = Max
  BY <1>1, ChatAssumption, FS_Interval
<1>16. Cardinality(1..Max) <= Cardinality(later)
  BY <1>13, <1>14, FS_Injection
<1>17. Cardinality(later) \in Nat
  BY <1>14, FS_CardinalityType
<1> QED
  BY <1>1, <1>15, <1>16, <1>17 DEF IsOld

(* An old message stays old, as more are received.                         *)
LEMMA OldStays ==
  ASSUME NEW A \in SUBSET Message, NEW B \in SUBSET Message, IsFiniteSet(B),
         A \subseteq B, NEW m, IsOld(A, m)
  PROVE  IsOld(B, m)
<1> DEFINE a == {n \in A : n.id > m.id}
           b == {n \in B : n.id > m.id}
<1>1. IsFiniteSet(b)
  BY FS_Subset
<1>2. IsFiniteSet(a) /\ Cardinality(a) <= Cardinality(b)
  BY <1>1, FS_Subset
<1>3. Cardinality(a) \in Nat /\ Cardinality(b) \in Nat
  BY <1>1, <1>2, FS_CardinalityType
<1>4. Cardinality(a) >= Max /\ Max \in Nat
  BY ChatAssumption DEF IsOld
<1> QED
  BY <1>2, <1>3, <1>4 DEF IsOld

(* What is kept of a thread is in order, and complete if the thread is.    *)
LEMMA NewestIsComplete ==
  ASSUME NEW A \in SUBSET Message, IsFiniteSet(A), NEW c \in Nat,
         NEW thread \in ChatThread, InOrder(A, c, thread),
         NEW row, row = [thread EXCEPT !.messages =
                           Newest(thread.messages, Max)]
  PROVE  /\ row \in ChatThread /\ row # None
         /\ Len(row.messages) <= Max
         /\ InOrder(A, c, row)
         /\ Complete(A, thread) => Complete(A, row)
<1> DEFINE s == thread.messages
           t == Newest(s, Max)
<1>1. /\ s \in Seq(Message) /\ Len(s) \in Nat /\ Max \in Nat
      /\ thread.update_time \in Nat /\ thread # None
  BY RowFact, ChatAssumption
<1>2. t \in Seq(Message) /\ Len(t) \in Nat /\ Len(t) <= Max
  BY <1>1, NewestFact
<1>3. row = [update_time |-> thread.update_time, messages |-> t]
  BY DEF ChatThread
<1>4. row.messages = t /\ row \in ChatThread
  BY <1>1, <1>2, <1>3 DEF ChatThread
<1>5. row # None
  BY <1>4, RowFact
<1>6. PICK d \in Nat :
        /\ Len(s) = Len(t) + d
        /\ \A i \in 1..Len(t) : t[i] = s[i + d]
  BY <1>1, NewestFact
<1>7. InOrder(A, c, row)
  <2> SUFFICES ASSUME NEW i \in 1..Len(t), NEW j \in 1..Len(t)
               PROVE  /\ t[i].id <= c
                      /\ i < j => /\ t[i].id < t[j].id
                                  /\ t[i] \in A => t[j] \in A
    BY <1>4 DEF InOrder
  <2>1. i + d \in 1..Len(s) /\ j + d \in 1..Len(s)
    BY <1>1, <1>2, <1>6
  <2>2. i < j => i + d < j + d
    OBVIOUS
  <2>3. t[i] = s[i + d] /\ t[j] = s[j + d]
    BY <1>6
  <2> HIDE DEF s, t
  <2>4. \A x, y \in 1..Len(s) :
          /\ s[x].id <= c
          /\ x < y => s[x].id < s[y].id /\ (s[x] \in A => s[y] \in A)
    BY <1>1 DEF InOrder, s
  <2> QED
    BY <2>1, <2>2, <2>3, <2>4
<1>8. ASSUME Complete(A, thread), NEW m \in A
      PROVE  m \in Elems(t) \/ IsOld(A, m)
  BY <1>8, DroppedIsOld DEF Complete
<1>9. Complete(A, thread) => Complete(A, row)
  BY <1>4, <1>5, <1>8 DEF Complete
<1> QED
  BY <1>2, <1>4, <1>5, <1>7, <1>9

(* A new message comes after all that have an id already: whatever was in  *)
(* order is so still.                                                      *)
LEMMA OrderStays ==
  ASSUME NEW A \in SUBSET Message, NEW c \in Nat, NEW row \in Rows,
         InOrder(A, c, row), NEW m \in Message, m.id = c + 1
  PROVE  InOrder(A \cup {m}, c + 1, row)
<1> SUFFICES ASSUME row # None,
                    NEW i \in 1..Len(row.messages),
                    NEW j \in 1..Len(row.messages)
             PROVE  LET s == row.messages IN
                    /\ s[i].id <= c + 1
                    /\ i < j => /\ s[i].id < s[j].id
                                /\ s[i] \in A \cup {m} => s[j] \in A \cup {m}
  BY DEF InOrder
<1>1. row.messages[i] \in Message
  BY RowFact, ElementOfSeq
<1>2. row.messages[i].id \in Nat /\ row.messages[i].id <= c
  BY <1>1 DEF InOrder, Message
<1>3. row.messages[i] # m
  BY <1>2
<1> QED
  BY <1>2, <1>3 DEF InOrder

(* Appending to a complete thread gives one that has the new message too.  *)
LEMMA AppendIsComplete ==
  ASSUME NEW A \in SUBSET Message, IsFiniteSet(A), NEW c \in Nat,
         NEW old \in ChatThread, InOrder(A, c, old), Complete(A, old),
         NEW m \in Message, m.id = c + 1,
         NEW new \in ChatThread, new.messages = Append(old.messages, m)
  PROVE  /\ InOrder(A \cup {m}, c + 1, new)
         /\ Complete(A \cup {m}, new)
<1> DEFINE B == A \cup {m}
           s == new.messages
           kept == old.messages
<1>1. /\ kept \in Seq(Message) /\ Len(kept) \in Nat
      /\ DOMAIN kept = 1..Len(kept)
      /\ old # None /\ old \in Rows /\ new # None
  BY RowFact
<1>2. /\ s \in Seq(Message) /\ Len(s) = Len(kept) + 1
      /\ DOMAIN s = 1..Len(s)
      /\ \A i \in 1..Len(kept) : s[i] = kept[i]
      /\ s[Len(kept) + 1] = m
  BY <1>1, AppendProperties, LenProperties
<1>3. InOrder(B, c + 1, old)
  BY <1>1, OrderStays
<1>4. \A i, j \in 1..Len(kept) :
        /\ kept[i].id <= c + 1
        /\ i < j => /\ kept[i].id < kept[j].id
                    /\ kept[i] \in B => kept[j] \in B
  BY <1>1, <1>3, Zenon DEF InOrder
<1>5. \A i \in 1..Len(kept) : kept[i].id \in Nat /\ kept[i].id <= c
  <2>1. \A i \in 1..Len(kept) : kept[i] \in Message
    BY <1>1, ElementOfSeq
  <2>2. \A i \in 1..Len(kept) : kept[i].id <= c
    BY <1>1, Zenon DEF InOrder
  <2> QED
    BY <2>1, <2>2 DEF Message
<1>6. m \in B /\ IsFiniteSet(B) /\ B \in SUBSET Message /\ A \subseteq B
  BY FS_AddElement
<1>7. \A n \in A : n \in Elems(kept) \/ IsOld(A, n)
  BY <1>1, Zenon DEF Complete
<1> HIDE DEF s, kept
<1>8. \A i \in 1..Len(s) : i \in 1..Len(kept) \/ i = Len(kept) + 1
  BY <1>1, <1>2
<1>9. ASSUME NEW i \in 1..Len(s), NEW j \in 1..Len(s)
      PROVE  /\ s[i].id <= c + 1
             /\ i < j => s[i].id < s[j].id /\ (s[i] \in B => s[j] \in B)
  <2>1. CASE i \in 1..Len(kept) /\ j \in 1..Len(kept)
    <3>1. s[i] = kept[i] /\ s[j] = kept[j]
      BY <1>2, <2>1
    <3> QED
      BY <1>4, <2>1, <3>1
  <2>2. CASE i \in 1..Len(kept) /\ j = Len(kept) + 1
    <3>1. s[j] = m /\ s[i] = kept[i]
      BY <1>2, <2>2
    <3> QED
      BY <1>5, <1>6, <2>2, <3>1
  <2>3. CASE i = Len(kept) + 1
    <3>1. s[i] = m /\ ~(i < j)
      BY <1>1, <1>2, <2>3
    <3> QED
      BY <3>1
  <2>4. /\ i \in 1..Len(kept) \/ i = Len(kept) + 1
        /\ j \in 1..Len(kept) \/ j = Len(kept) + 1
    BY <1>8
  <2> QED
    BY <2>1, <2>2, <2>3, <2>4, Zenon
<1>10. InOrder(B, c + 1, new)
  BY <1>9, Zenon DEF InOrder, s
<1>11. \A i \in 1..Len(kept) : i \in DOMAIN s
  BY <1>1, <1>2
<1>12. Len(kept) + 1 \in DOMAIN s
  BY <1>1, <1>2
<1>13. m \in Elems(s) /\ \A n \in Elems(kept) : n \in Elems(s)
  BY <1>1, <1>2, <1>11, <1>12, Zenon DEF Elems
<1>14. \A n \in A : IsOld(A, n) => IsOld(B, n)
  BY <1>6, OldStays
<1>15. Complete(B, new)
  <2> SUFFICES ASSUME NEW n \in B PROVE n \in Elems(s) \/ IsOld(B, n)
    BY <1>1, Zenon DEF Complete, s
  <2> QED
    BY <1>7, <1>13, <1>14
<1> QED
  BY <1>10, <1>15

(* What an append makes of a thread, whether it was full or not.           *)
Kept(thread) == IF IsFull(thread.messages) THEN Newest(thread.messages, Max)
                                           ELSE thread.messages

Grown(thread, t, m) ==
  [update_time |-> t, messages |-> Append(Kept(thread), m)]

LEMMA AppendFact ==
  ASSUME NEW A \in SUBSET Message, IsFiniteSet(A), NEW c \in Nat,
         NEW thread \in ChatThread, InOrder(A, c, thread),
         Complete(A, thread), NEW t \in Nat, NEW m \in Message, m.id = c + 1
  PROVE  /\ Grown(thread, t, m) \in ChatThread
         /\ Grown(thread, t, m) # None
         /\ Grown(thread, t, m).update_time = t
         /\ Len(Grown(thread, t, m).messages) <= Max + Slack + 1
         /\ InOrder(A \cup {m}, c + 1, Grown(thread, t, m))
         /\ Complete(A \cup {m}, Grown(thread, t, m))
<1> DEFINE kept == Kept(thread)
           new == Grown(thread, t, m)
<1>1. Max \in Nat /\ Slack \in Nat
  BY ChatAssumption
<1>2. /\ thread.messages \in Seq(Message) /\ thread.update_time \in Nat
      /\ Len(thread.messages) \in Nat
  BY RowFact
<1>3. PICK old \in ChatThread :
        /\ old.messages = kept /\ Len(old.messages) <= Max + Slack
        /\ InOrder(A, c, old) /\ Complete(A, old)
  <2>1. CASE IsFull(thread.messages)
    <3> DEFINE old == [thread EXCEPT !.messages = Newest(thread.messages, Max)]
    <3>1. old.messages = kept
      BY <2>1 DEF ChatThread, Kept
    <3>2. old \in ChatThread /\ Len(old.messages) <= Max
          /\ InOrder(A, c, old) /\ Complete(A, old)
      BY NewestIsComplete
    <3> HIDE DEF old
    <3>3. Len(old.messages) \in Nat
      BY <3>2, RowFact
    <3>4. Len(old.messages) <= Max + Slack
      BY <1>1, <3>2, <3>3
    <3> QED
      BY <3>1, <3>2, <3>4, Zenon
  <2>2. CASE ~IsFull(thread.messages)
    <3>1. Len(thread.messages) <= Max + Slack /\ thread.messages = kept
      BY <1>1, <1>2, <2>2 DEF IsFull, Kept
    <3> QED
      BY <3>1, Zenon
  <2> QED
    BY <2>1, <2>2
<1>4. /\ kept \in Seq(Message) /\ Len(kept) \in Nat
      /\ Len(kept) <= Max + Slack
  BY <1>3, RowFact
<1> DEFINE s == Append(kept, m)
<1>5. s \in Seq(Message) /\ Len(s) = Len(kept) + 1
  BY <1>4, AppendProperties
<1>6. [update_time |-> t, messages |-> s] = new
  BY DEF Grown
<1> HIDE DEF s, kept, new
<1>7. [update_time |-> t, messages |-> s] \in ChatThread
  BY <1>5 DEF ChatThread
<1>8. new \in ChatThread
  BY <1>6, <1>7, Zenon
<1>9. new # None
  BY <1>8, RowFact
<1>10. new.update_time = t /\ new.messages = s
  BY <1>6
<1>11. Len(new.messages) <= Max + Slack + 1
  BY <1>1, <1>4, <1>5, <1>10
<1>12. new.messages = Append(old.messages, m)
  BY <1>3, <1>10 DEF s
<1> QED
  BY <1>3, <1>8, <1>9, <1>10, <1>11, <1>12, AppendIsComplete DEF new

(* After a crash, what is left of a thread is what its row has.            *)
LEMMA CrashKeepsOrder ==
  ASSUME NEW A \in SUBSET Message, IsFiniteSet(A), NEW c \in Nat,
         NEW row \in Rows, InOrder(A, c, row),
         NEW B, B = {m \in A : /\ row # None /\ m \in Elems(row.messages)
                               /\ ~IsOld(A, m)}
  PROVE  InOrder(B, c, row) /\ Complete(B, row)
<1>1. Complete(B, row)
  BY DEF Complete
<1>2. ASSUME row # None,
             NEW i \in 1..Len(row.messages), NEW j \in 1..Len(row.messages),
             i < j, row.messages[i] \in B
      PROVE  row.messages[j] \in B
  <2> DEFINE m == row.messages[i]
             n == row.messages[j]
             a == {x \in A : x.id > m.id}
             b == {x \in A : x.id > n.id}
  <2>1. m \in A /\ ~IsOld(A, m) /\ m.id < n.id /\ n \in A
    BY <1>2 DEF InOrder
  <2>2. n \in Elems(row.messages)
    BY <1>2, RowFact DEF Elems
  <2>3. b \subseteq a
    <3>1. \A x \in A : x.id \in Nat
      BY DEF Message
    <3> HIDE DEF m, n
    <3> QED
      BY <2>1, <3>1
  <2>4. IsFiniteSet(a) /\ IsFiniteSet(b) /\ Cardinality(b) <= Cardinality(a)
    <3>1. IsFiniteSet(a)
      BY FS_Subset
    <3> QED
      BY <2>3, <3>1, FS_Subset
  <2>5. Cardinality(a) \in Nat /\ Cardinality(b) \in Nat /\ Max \in Nat
    BY <2>4, FS_CardinalityType, ChatAssumption
  <2>6. ~(Cardinality(a) >= Max)
    BY <2>1 DEF IsOld
  <2>7. ~(Cardinality(b) >= Max)
    BY <2>4, <2>5, <2>6
  <2>8. ~IsOld(A, n)
    BY <2>7 DEF IsOld
  <2> QED
    BY <1>2, <2>1, <2>2, <2>8
<1>3. InOrder(B, c, row)
  BY <1>2 DEF InOrder
<1> QED
  BY <1>1, <1>3

(***************************************************************************)
(* What a state that satisfies the invariant gives.                        *)
(***************************************************************************)
LEMMA ConstFact ==
  /\ Max \in Nat \ {0} /\ Slack \in Nat /\ Ttl \in Nat /\ MaxTime \in Nat
  /\ Timer \in Process /\ Poller \in Process /\ Poller # Timer
  /\ \A f \in Fiber : f \in Process /\ f # Timer /\ f # Poller
  /\ \A i \in DOMAIN List : List[i] \in Key
  /\ DOMAIN List = 1..Len(List) /\ Len(List) \in Nat
BY ChatAssumption, LenProperties, ElementOfSeq DEF Process

LEMMA TypeFact ==
  ASSUME TypeOK
  PROVE  /\ now \in Nat /\ last \in Nat /\ count \in Nat /\ faults \in Nat
         /\ now \in 0..MaxTime /\ last \in 0..MaxTime
         /\ \A k \in Key :
              /\ chat_threads[k] \in Rows /\ mysql[k] \in Rows
              /\ appended[k] \in SUBSET Message
              /\ Cached(k) => /\ chat_threads[k] \in ChatThread
                              /\ chat_threads[k].update_time \in Nat
         /\ \A f \in Process :
              /\ fib[f] \in FiberState
              /\ fib[f].key \in Key /\ fib[f].row \in Rows
              /\ fib[f].pos \in Nat /\ fib[f].since \in Nat
              /\ fib[f].done \in BOOLEAN /\ fib[f].pc \in Pcs
BY RowFact, ChatAssumption DEF TypeOK, FiberState, Cached

(* The millisecond of a tick begins no later than the tick, and with no    *)
(* later one than that of a later tick.                                    *)
LEMMA MsFact ==
  ASSUME NEW t \in 0..MaxTime
  PROVE  /\ Ms[t] \in Nat /\ Ms[t] \in 0..MaxTime /\ Ms[t] <= t
         /\ \A u \in 0..MaxTime : t <= u => Ms[t] <= Ms[u]
         /\ \A u \in 0..MaxTime : Ms[t] <= u => Ms[t] <= Ms[u]
<1>1. \A u, v \in 0..MaxTime : u <= v => Ms[u] <= Ms[v]
  BY ChatAssumption
<1>2. Ms[t] \in 0..MaxTime /\ Ms[t] <= t /\ Ms[Ms[t]] = Ms[t]
  BY ChatAssumption
<1> QED
  BY <1>1, <1>2

LEMMA IdleFact ==
  /\ Idle \in FiberState
  /\ Idle.pc = "idle" /\ Idle.row = None /\ Idle.since = 0
  /\ ~Idle.done /\ Idle.key \in Key
<1>1. (CHOOSE k \in Key : TRUE) \in Key
  BY ChatAssumption
<1> QED
  BY <1>1, RowFact DEF Idle, FiberState, Pcs

(* A thread that is not cached is in MySQL, or will be when the write that *)
(* is under way is executed.                                               *)
LEMMA StoredFact ==
  ASSUME Inv, NEW k \in Key, ~Cached(k)
  PROVE  /\ Complete(appended[k], mysql[k])
         /\ Writing(k) => Complete(appended[k], fib[Timer].row)
<1>1. Complete(appended[k], mysql[k])
  BY DEF Inv, CacheInv
<1>2. Writing(k) => ~AppendedSince(Timer)
  BY DEF Writing, AppendedSince
<1> QED
  BY <1>1, <1>2 DEF Inv, WriteInv

(* A thread that comes into the cache, or stays as it is.                  *)
NewOrSame(k, row) ==
  \/ row = chat_threads[k]
  \/ /\ ~Cached(k) /\ row # None
     /\ Len(row.messages) <= Max + Slack + 1
     /\ InOrder(appended[k], count, row)
     /\ Complete(appended[k], row)

(* What the invariant asks of the state c of the fiber f.                  *)
StateOf(f, c) ==
  /\ c \in FiberState
  /\ c.pc \in IF f = Timer
              THEN {"idle", "table", "round", "next", "replace"}
              ELSE {"idle", "select"}
  /\ c.row # None => Len(c.row.messages) <= Max
  /\ InOrder(appended[c.key], count, c.row)
  /\ c.since <= now
  /\ c.pc \in {"select", "replace"} => now <= c.since + Ttl
  /\ f = Poller /\ c.pc = "select" => c.pos \in DOMAIN List
                                      /\ c.key = List[c.pos]
  /\ c.pc = "select" =>
       \/ /\ Cached(c.key)
          /\ chat_threads[c.key].update_time >= c.since
       \/ c.done /\ Complete(appended[c.key], c.row)
       \/ /\ ~c.done /\ Complete(appended[c.key], mysql[c.key])
          /\ Writing(c.key) => Complete(appended[c.key], fib[Timer].row)

LEMMA IdleState ==
  ASSUME TypeOK, NEW f \in Process PROVE StateOf(f, Idle)
<1>1. now \in Nat
  BY TypeFact
<1> QED
  BY <1>1, IdleFact DEF StateOf, InOrder

(* A fiber goes on: it neither writes nor starts to write, and a thread is *)
(* cached only if it is complete.                                          *)
LEMMA FiberStep ==
  ASSUME Inv, NEW f \in Process, NEW c, StateOf(f, c),
         c.pc = "replace" => c.done,
         fib' = [fib EXCEPT ![f] = c],
         chat_threads' \in [Key -> Rows],
         \A k \in Key : NewOrSame(k, chat_threads'[k]),
         db_ready' \in BOOLEAN, save_buckets' \subseteq Key,
         bucket' \subseteq Key, faults' \in Nat,
         last' \in 0..MaxTime, last' <= now, seen' \subseteq Message,
         UNCHANGED <<mysql, now, history>>
  PROVE  Inv'
<1>1. TypeOK /\ FiberInv /\ HistoryInv /\ CacheInv /\ WriteInv /\ SelectInv
  BY DEF Inv
<1>2. /\ mysql' = mysql /\ now' = now /\ count' = count
      /\ appended' = appended /\ overtaken' = overtaken
  BY DEF history
<1>3. c \in FiberState
  BY DEF StateOf
<1>4. /\ fib \in [Process -> FiberState] /\ fib' \in [Process -> FiberState]
      /\ fib'[f] = c /\ \A g \in Process : g # f => fib'[g] = fib[g]
  BY <1>1, <1>3 DEF TypeOK
<1>5. TypeOK'
  <2>1. ASSUME NEW k \in Key, chat_threads'[k] # None
        PROVE  Len(chat_threads'[k].messages) <= Max + Slack + 1
    BY <1>1, <2>1 DEF NewOrSame, TypeOK
  <2> QED
    BY <1>1, <1>2, <1>4, <2>1 DEF TypeOK
<1>6. FiberInv'
  <2>1. ASSUME NEW g \in Process
        PROVE
          /\ fib'[g].pc \in IF g = Timer
                            THEN {"idle", "table", "round", "next", "replace"}
                            ELSE {"idle", "select"}
          /\ fib'[g].row # None => Len(fib'[g].row.messages) <= Max
          /\ InOrder(appended[fib'[g].key], count, fib'[g].row)
          /\ fib'[g].since <= now
          /\ fib'[g].pc \in {"select", "replace"} =>
               now <= fib'[g].since + Ttl
    <3>1. CASE g = f
      BY <1>4, <3>1 DEF StateOf
    <3>2. CASE g # f
      BY <1>1, <1>4, <3>2 DEF FiberInv
    <3> QED
      BY <3>1, <3>2
  <2>2. fib'[Poller].pc = "select" =>
          /\ fib'[Poller].pos \in DOMAIN List
          /\ fib'[Poller].key = List[fib'[Poller].pos]
    BY <1>1, <1>4, ConstFact DEF FiberInv, StateOf
  <2> QED
    BY <1>2, <2>1, <2>2 DEF FiberInv
<1>7. HistoryInv'
  BY <1>1, <1>2 DEF HistoryInv
<1>8. CacheInv'
  <2> SUFFICES ASSUME NEW k \in Key
               PROVE  /\ InOrder(appended[k], count, chat_threads'[k])
                      /\ InOrder(appended[k], count, mysql[k])
                      /\ chat_threads'[k] # None =>
                           Complete(appended[k], chat_threads'[k])
                      /\ \/ Complete(appended[k], mysql[k])
                         \/ /\ chat_threads'[k] # None
                            /\ now <= chat_threads'[k].update_time + Ttl
    BY <1>2 DEF CacheInv, Cached
  <2> QED
    BY <1>1 DEF CacheInv, NewOrSame, Cached
<1>9. \A k \in Key : Cached(k) => chat_threads'[k] = chat_threads[k]
  BY DEF NewOrSame
<1>10. \A k \in Key : Writing(k)' => Writing(k) /\ fib'[Timer] = fib[Timer]
                                     /\ f # Timer
  BY <1>4, ConstFact DEF Writing
<1>11. WriteInv'
  <2> SUFFICES ASSUME NEW k \in Key, Writing(k)'
               PROVE  \/ Complete(appended[k], fib'[Timer].row)
                      \/ AppendedSince(Timer)'
    BY <1>2 DEF WriteInv
  <2>1. Writing(k) /\ fib'[Timer] = fib[Timer] /\ fib[Timer].key = k
    BY <1>10 DEF Writing
  <2>2. Complete(appended[k], fib[Timer].row) \/ AppendedSince(Timer)
    BY <1>1, <2>1 DEF WriteInv
  <2>3. AppendedSince(Timer) => AppendedSince(Timer)'
    BY <1>9, <2>1 DEF AppendedSince, Cached
  <2> QED
    BY <2>1, <2>2, <2>3
<1>12. SelectInv'
  <2> SUFFICES ASSUME NEW g \in Process \ {Timer}, fib'[g].pc = "select",
                      NEW k \in Key, k = fib'[g].key
               PROVE  \/ AppendedSince(g)'
                      \/ fib'[g].done /\ Complete(appended[k], fib'[g].row)
                      \/ /\ ~fib'[g].done /\ Complete(appended[k], mysql[k])
                         /\ Writing(k)' =>
                              Complete(appended[k], fib'[Timer].row)
    <3>1. \A g \in Process : fib'[g].key \in Key
      BY <1>4 DEF FiberState
    <3> QED
      BY <1>2, <3>1 DEF SelectInv, Writing
  <2>1. CASE g = f
    <3>1. fib'[g] = c
      BY <1>4, <2>1
    <3>2. CASE Cached(k) /\ chat_threads[k].update_time >= c.since
      <4>1. chat_threads'[k] = chat_threads[k]
        BY <1>9, <3>2
      <4>2. AppendedSince(g)'
        BY <3>1, <3>2, <4>1 DEF AppendedSince, Cached
      <4> QED
        BY <4>2
    <3>3. CASE c.done /\ Complete(appended[k], c.row)
      BY <3>1, <3>3
    <3>4. CASE /\ ~c.done /\ Complete(appended[k], mysql[k])
               /\ Writing(k) => Complete(appended[k], fib[Timer].row)
      BY <1>10, <3>1, <3>4
    <3> QED
      BY <3>1, <3>2, <3>3, <3>4 DEF StateOf
  <2>2. CASE g # f
    <3>1. fib'[g] = fib[g] /\ fib[g].pc = "select"
      BY <1>4, <2>2
    <3>2. CASE AppendedSince(g)
      <4>1. Cached(k) /\ fib[g].key = k
        BY <3>1, <3>2 DEF AppendedSince
      <4>2. chat_threads'[k] = chat_threads[k]
        BY <1>9, <4>1
      <4>3. AppendedSince(g)'
        BY <3>1, <3>2, <4>1, <4>2 DEF AppendedSince, Cached
      <4> QED
        BY <4>3
    <3>3. CASE fib[g].done /\ Complete(appended[k], fib[g].row)
      BY <3>1, <3>3
    <3>4. CASE /\ ~fib[g].done /\ Complete(appended[k], mysql[k])
               /\ Writing(k) => Complete(appended[k], fib[Timer].row)
      BY <1>10, <3>1, <3>4
    <3> QED
      BY <1>1, <3>1, <3>2, <3>3, <3>4 DEF SelectInv
  <2> QED
    BY <2>1, <2>2
<1> QED
  BY <1>5, <1>6, <1>7, <1>8, <1>11, <1>12 DEF Inv

(***************************************************************************)
(* Every step preserves the invariant.                                     *)
(***************************************************************************)
LEMMA SameThreads ==
  ASSUME Inv, UNCHANGED chat_threads
  PROVE  /\ chat_threads' \in [Key -> Rows]
         /\ \A k \in Key : NewOrSame(k, chat_threads'[k])
BY DEF Inv, TypeOK, NewOrSame

LEMMA SelectState ==
  ASSUME Inv, NEW f \in Process, f # Timer, NEW k \in Key, ~Cached(k),
         NEW pos \in Nat, f = Poller => pos \in DOMAIN List /\ k = List[pos],
         NEW c, c = [pc |-> "select", key |-> k, pos |-> pos, row |-> None,
                     since |-> now, done |-> FALSE]
  PROVE  StateOf(f, c)
<1>1. now \in Nat /\ Ttl \in Nat /\ None \in Rows
  BY TypeFact, ConstFact, RowFact DEF Inv
<1>2. c \in FiberState
  BY <1>1 DEF FiberState, Pcs
<1>3. /\ c.pc = "select" /\ c.key = k /\ c.pos = pos /\ c.row = None
      /\ c.since = now /\ ~c.done
  OBVIOUS
<1>4. /\ Complete(appended[k], mysql[k])
      /\ Writing(k) => Complete(appended[k], fib[Timer].row)
  BY StoredFact
<1>5. now <= now /\ now <= now + Ttl
  BY <1>1
<1>6. InOrder(appended[k], count, None)
  BY DEF InOrder
<1> QED
  BY <1>2, <1>3, <1>4, <1>5, <1>6 DEF StateOf

LEMMA TimerState ==
  ASSUME Inv, NEW pc \in {"table", "round", "next"},
         NEW c, c = [fib[Timer] EXCEPT !.pc = pc]
  PROVE  StateOf(Timer, c)
<1>1. fib[Timer] \in FiberState
  BY TypeFact, ConstFact DEF Inv
<1>2. /\ c \in FiberState /\ c.pc = pc /\ c.key = fib[Timer].key
      /\ c.row = fib[Timer].row /\ c.since = fib[Timer].since
  BY <1>1 DEF FiberState, Pcs
<1> QED
  BY <1>2, ConstFact DEF StateOf, Inv, FiberInv

(* check_multi: either the client is answered, or the fiber asks for the   *)
(* first thread that is missing.                                           *)
LEMMA CheckFromStep ==
  ASSUME Inv, NEW from \in Nat, from > 0, NEW cache \in [Key -> Rows],
         \A k \in Key : NewOrSame(k, cache[k]), CheckFrom(from, cache),
         UNCHANGED <<db_ready, save_buckets, bucket, mysql, now, history,
                     faults>>
  PROVE  Inv'
<1>1. TypeOK /\ now \in Nat /\ last <= now
  BY TypeFact DEF Inv, HistoryInv
<1>2. chat_threads' = cache
  BY DEF CheckFrom
<1>3. /\ db_ready' \in BOOLEAN /\ save_buckets' \subseteq Key
      /\ bucket' \subseteq Key /\ faults' \in Nat
      /\ UNCHANGED <<mysql, now, history>>
  BY <1>1 DEF TypeOK
<1>4. ASSUME NEW k \in Key PROVE \A m \in Elems(cache[k].messages) :
                                   cache[k] # None => m \in Message
  BY RowFact, ElementOfSeq DEF Elems
<1>5. Unread(cache) \subseteq Message
  <2>1. \A k \in Elems(List) : k \in Key
    BY ConstFact DEF Elems
  <2> QED
    BY <1>4, <2>1 DEF Unread
<1> DEFINE missing == {i \in from..Len(List) : cache[List[i]] = None}
<1>6. CASE missing = {}
  <2>1. End(Poller) /\ seen' = seen \cup Unread(cache) /\ last' = now
    BY <1>6 DEF CheckFrom
  <2>2. last' \in 0..MaxTime /\ last' <= now /\ seen' \subseteq Message
    BY <1>1, <1>5, <2>1 DEF TypeOK
  <2>3. StateOf(Poller, Idle) /\ Idle.pc # "replace"
    BY <1>1, IdleState, IdleFact, ConstFact
  <2>4. fib' = [fib EXCEPT ![Poller] = Idle]
    BY <2>1 DEF End
  <2> QED
    BY <1>2, <1>3, <2>2, <2>3, <2>4, FiberStep, ConstFact
<1>7. CASE missing # {}
  <2>1. PICK i \in missing : Query(Poller, "select", List[i], i, None)
    BY <1>7 DEF CheckFrom
  <2>2. UNCHANGED client
    BY <1>7 DEF CheckFrom
  <2>3. i \in DOMAIN List /\ i \in Nat /\ cache[List[i]] = None
    BY ConstFact
  <2>4. List[i] \in Key
    BY <2>3, ConstFact
  <2>5. ~Cached(List[i])
    BY <2>3, <2>4 DEF NewOrSame, Cached
  <2> DEFINE c == [pc |-> "select", key |-> List[i], pos |-> i, row |-> None,
                   since |-> now, done |-> FALSE]
  <2>6. StateOf(Poller, c)
    BY <2>3, <2>4, <2>5, SelectState, ConstFact
  <2>7. fib' = [fib EXCEPT ![Poller] = c] /\ c.pc # "replace"
    BY <2>1 DEF Query
  <2>8. last' \in 0..MaxTime /\ last' <= now /\ seen' \subseteq Message
    BY <1>1, <2>2 DEF client, TypeOK
  <2> HIDE DEF c
  <2> QED
    BY <1>2, <1>3, <2>6, <2>7, <2>8, FiberStep, ConstFact
<1> QED
  BY <1>6, <1>7

LEMMA CheckStep == ASSUME Inv, Check PROVE Inv'
<1>1. CheckFrom(1, chat_threads)
  BY DEF Check
<1>2. /\ chat_threads \in [Key -> Rows]
      /\ \A k \in Key : NewOrSame(k, chat_threads[k])
  BY DEF Inv, TypeOK, NewOrSame
<1> QED
  BY <1>1, <1>2, CheckFromStep DEF Check

(* A row is cached only if the thread is not, and then it is complete.     *)
LEMMA EmplaceFact ==
  ASSUME Inv, Resumed(Poller, "select"),
         NEW cache, cache = Emplace(fib[Poller].key, fib[Poller].row)
  PROVE  /\ cache \in [Key -> Rows]
         /\ \A k \in Key : NewOrSame(k, cache[k])
<1> DEFINE key == fib[Poller].key
           row == fib[Poller].row
<1>1. /\ chat_threads \in [Key -> Rows] /\ key \in Key /\ row \in Rows
      /\ fib[Poller].pc = "select" /\ fib[Poller].done
  BY TypeFact, ConstFact DEF Inv, TypeOK, Resumed
<1>2. CASE row = None \/ Cached(key)
  BY <1>1, <1>2 DEF Emplace, NewOrSame
<1>3. CASE row # None /\ ~Cached(key)
  <2>1. cache = [chat_threads EXCEPT ![key] = row]
    BY <1>3 DEF Emplace
  <2>2. InOrder(appended[key], count, row) /\ Len(row.messages) <= Max
    BY <1>1, <1>3, ConstFact DEF Inv, FiberInv
  <2>3. Complete(appended[key], row)
    <3>1. ~AppendedSince(Poller)
      BY <1>3 DEF AppendedSince
    <3> QED
      BY <1>1, <3>1, ConstFact DEF Inv, SelectInv
  <2>4. Len(row.messages) <= Max + Slack + 1
    <3>1. Len(row.messages) \in Nat
      BY <1>1, <1>3, RowFact
    <3> QED
      BY <2>2, <3>1, ConstFact
  <2>5. NewOrSame(key, row)
    BY <1>3, <2>2, <2>3, <2>4 DEF NewOrSame
  <2>6. \A k \in Key : NewOrSame(k, chat_threads[k])
    BY DEF NewOrSame
  <2> HIDE DEF key, row
  <2> QED
    BY <1>1, <2>1, <2>5, <2>6
<1> QED
  BY <1>2, <1>3

LEMMA CheckLoadedStep == ASSUME Inv, CheckLoaded PROVE Inv'
<1> DEFINE cache == Emplace(fib[Poller].key, fib[Poller].row)
<1>1. Resumed(Poller, "select") /\ CheckFrom(fib[Poller].pos + 1, cache)
  BY DEF CheckLoaded
<1>2. cache \in [Key -> Rows] /\ \A k \in Key : NewOrSame(k, cache[k])
  BY <1>1, EmplaceFact
<1>3. fib[Poller].pos + 1 \in Nat /\ fib[Poller].pos + 1 > 0
  BY TypeFact, ConstFact DEF Inv
<1> HIDE DEF cache
<1> QED
  BY <1>1, <1>2, <1>3, CheckFromStep DEF CheckLoaded

LEMMA AppendLoadStep ==
  ASSUME Inv, NEW f \in Fiber, NEW k \in Key, AppendLoad(f, k) PROVE Inv'
<1> DEFINE c == [pc |-> "select", key |-> k, pos |-> 0, row |-> None,
                 since |-> now, done |-> FALSE]
<1>1. /\ fib' = [fib EXCEPT ![f] = c] /\ ~Cached(k) /\ c.pc # "replace"
      /\ UNCHANGED <<db_ready, chat_threads, save_buckets, bucket, mysql,
                     now, last, seen, history, faults>>
  BY DEF AppendLoad, Query, client
<1>2. StateOf(f, c)
  BY <1>1, SelectState, ConstFact
<1>3. last <= now /\ TypeOK
  BY DEF Inv, HistoryInv
<1> HIDE DEF c
<1> QED
  BY <1>1, <1>2, <1>3, FiberStep, SameThreads, ConstFact DEF TypeOK

(* The steps of the timer that neither drop a thread nor write one.        *)
LEMMA TimerStartStep == ASSUME Inv, TimerStart PROVE Inv'
<1>1. PICK pc \in {"table", "round"} : fib' = [fib EXCEPT ![Timer].pc = pc]
  BY DEF TimerStart
<1> DEFINE c == [fib[Timer] EXCEPT !.pc = pc]
<1>2. fib' = [fib EXCEPT ![Timer] = c]
  BY <1>1
<1>3. StateOf(Timer, c)
  BY TimerState
<1>4. c.pc # "replace"
  BY TypeFact, ConstFact DEF Inv, FiberState
<1>5. UNCHANGED <<db_ready, chat_threads, save_buckets, bucket, mysql, now,
                  last, seen, history, faults>>
  BY DEF TimerStart, client
<1>6. last <= now /\ TypeOK
  BY DEF Inv, HistoryInv
<1> HIDE DEF c
<1> QED
  BY <1>2, <1>3, <1>4, <1>5, <1>6, FiberStep, SameThreads, ConstFact
  DEF TypeOK

LEMMA TableCheckedStep == ASSUME Inv, TableChecked PROVE Inv'
<1> DEFINE c == [fib[Timer] EXCEPT !.pc = "round"]
<1>1. fib' = [fib EXCEPT ![Timer] = c]
  BY DEF TableChecked
<1>2. StateOf(Timer, c)
  BY TimerState
<1>3. c.pc # "replace"
  BY TypeFact, ConstFact DEF Inv, FiberState
<1>4. /\ db_ready' = TRUE
      /\ UNCHANGED <<chat_threads, save_buckets, bucket, mysql, now, last,
                     seen, history, faults>>
  BY DEF TableChecked, client
<1>5. last <= now /\ TypeOK
  BY DEF Inv, HistoryInv
<1> HIDE DEF c
<1> QED
  BY <1>1, <1>2, <1>3, <1>4, <1>5, FiberStep, SameThreads, ConstFact
  DEF TypeOK

LEMMA PopBucketStep == ASSUME Inv, PopBucket PROVE Inv'
<1> DEFINE c == [fib[Timer] EXCEPT !.pc = "next"]
<1>1. fib' = [fib EXCEPT ![Timer] = c]
  BY DEF PopBucket
<1>2. StateOf(Timer, c)
  BY TimerState
<1>3. c.pc # "replace"
  BY TypeFact, ConstFact DEF Inv, FiberState
<1>4. last <= now /\ TypeOK
  BY DEF Inv, HistoryInv
<1>5. /\ bucket' \subseteq Key /\ save_buckets' \subseteq Key
      /\ UNCHANGED <<db_ready, chat_threads, mysql, now, last, seen, history,
                     faults>>
  BY <1>4 DEF PopBucket, Round, TypeOK, client
<1> HIDE DEF c
<1> QED
  BY <1>1, <1>2, <1>3, <1>4, <1>5, FiberStep, SameThreads, ConstFact
  DEF TypeOK

LEMMA ThreadSavedStep == ASSUME Inv, ThreadSaved PROVE Inv'
<1> DEFINE c == [Idle EXCEPT !.pc = "next"]
<1>1. fib' = [fib EXCEPT ![Timer] = c]
  BY DEF ThreadSaved
<1>2. last <= now /\ TypeOK /\ now \in Nat
  BY TypeFact DEF Inv, HistoryInv
<1>3. /\ c \in FiberState /\ c.pc = "next" /\ c.row = None /\ c.since = 0
  BY IdleFact DEF FiberState, Pcs
<1>4. StateOf(Timer, c)
  BY <1>2, <1>3, ConstFact DEF StateOf, InOrder
<1>5. UNCHANGED <<db_ready, chat_threads, save_buckets, bucket, mysql, now,
                  last, seen, history, faults>>
  BY DEF ThreadSaved, client
<1> HIDE DEF c
<1> QED
  BY <1>1, <1>2, <1>3, <1>4, <1>5, FiberStep, SameThreads, ConstFact
  DEF TypeOK

(* A handler or a round of the timer ends, in an error or not.             *)
LEMMA EndStep ==
  ASSUME Inv, NEW f \in Process, End(f),
         bucket' \subseteq Key, faults' \in Nat,
         UNCHANGED <<db_ready, chat_threads, save_buckets, mysql, now, client,
                     history>>
  PROVE  Inv'
<1>1. last <= now /\ TypeOK
  BY DEF Inv, HistoryInv
<1>2. StateOf(f, Idle) /\ Idle.pc # "replace"
  BY <1>1, IdleState, IdleFact
<1>3. fib' = [fib EXCEPT ![f] = Idle]
  BY DEF End
<1>4. UNCHANGED <<db_ready, chat_threads, save_buckets, mysql, now, last,
                  seen, history>>
  BY DEF client
<1> QED
  BY <1>1, <1>2, <1>3, <1>4, FiberStep, SameThreads DEF TypeOK

LEMMA SaveEndStep == ASSUME Inv, SaveEnd PROVE Inv'
BY EndStep, ConstFact DEF SaveEnd, Inv, TypeOK

LEMMA DbErrorStep == ASSUME Inv, NEW f \in Process, DbError(f) PROVE Inv'
<1>1. bucket' \subseteq Key /\ faults' \in Nat
  BY DEF DbError, Inv, TypeOK
<1> QED
  BY <1>1, EndStep DEF DbError

(* A fiber reads a row as it is now.                                       *)
LEMMA SelectStep ==
  ASSUME Inv, NEW f \in Process, MySQLExec(f), fib[f].pc = "select"
  PROVE  Inv'
<1> DEFINE k == fib[f].key
           c == [fib[f] EXCEPT !.done = TRUE, !.row = mysql[k]]
<1>1. /\ fib[f] \in FiberState /\ k \in Key /\ mysql[k] \in Rows
      /\ last <= now /\ TypeOK
  BY TypeFact DEF Inv, HistoryInv
<1>2. /\ ~fib[f].done /\ fib' = [fib EXCEPT ![f] = c]
      /\ UNCHANGED <<db_ready, chat_threads, save_buckets, bucket, mysql, now,
                     last, seen, history, faults>>
  BY DEF MySQLExec, client
<1>3. f # Timer
  BY DEF Inv, FiberInv
<1>4. /\ c \in FiberState /\ c.pc = "select" /\ c.key = k /\ c.done
      /\ c.row = mysql[k] /\ c.since = fib[f].since /\ c.pos = fib[f].pos
  BY <1>1 DEF FiberState
<1>5. \/ AppendedSince(f)
      \/ Complete(appended[k], mysql[k])
  BY <1>2, <1>3 DEF Inv, SelectInv
<1>6. /\ mysql[k] # None => Len(mysql[k].messages) <= Max
      /\ InOrder(appended[k], count, mysql[k])
  BY <1>1 DEF Inv, CacheInv, TypeOK
<1>7. /\ fib[f].since <= now /\ now <= fib[f].since + Ttl
      /\ f = Poller => /\ fib[f].pos \in DOMAIN List
                       /\ k = List[fib[f].pos]
  BY DEF Inv, FiberInv
<1>8. StateOf(f, c)
  <2> HIDE DEF c
  <2> QED
    BY <1>3, <1>4, <1>5, <1>6, <1>7 DEF StateOf, AppendedSince
<1> HIDE DEF c
<1> QED
  BY <1>1, <1>2, <1>4, <1>8, FiberStep, SameThreads DEF TypeOK

(* A row is replaced: by a complete one, or else the thread is cached, and *)
(* has changed since this statement was sent.                              *)
LEMMA ReplaceStep ==
  ASSUME Inv, NEW f \in Process, MySQLExec(f), fib[f].pc = "replace"
  PROVE  Inv'
<1> DEFINE k == fib[f].key
           row == fib[f].row
<1>1. TypeOK /\ FiberInv /\ HistoryInv /\ CacheInv /\ WriteInv /\ SelectInv
  BY DEF Inv
<1>2. f = Timer
  BY <1>1 DEF FiberInv
<1>3. /\ fib[f] \in FiberState /\ k \in Key /\ row \in Rows
      /\ fib[f].since \in Nat /\ now \in Nat /\ Ttl \in Nat
  BY <1>1, TypeFact, ConstFact
<1>4. /\ ~fib[f].done
      /\ mysql' = [mysql EXCEPT ![k] = row]
      /\ fib' = [fib EXCEPT ![f] = [@ EXCEPT !.done = TRUE]]
      /\ UNCHANGED <<db_ready, chat_threads, save_buckets, bucket, now, last,
                     seen, appended, overtaken, count, faults>>
  BY DEF MySQLExec, client, history
<1>5. /\ [fib[f] EXCEPT !.done = TRUE] \in FiberState
      /\ \A g \in Process :
           /\ fib'[g].pc = fib[g].pc /\ fib'[g].key = fib[g].key
           /\ fib'[g].row = fib[g].row /\ fib'[g].since = fib[g].since
           /\ fib'[g].pos = fib[g].pos
           /\ fib'[g].done = IF g = f THEN TRUE ELSE fib[g].done
  BY <1>1, <1>3, <1>4 DEF FiberState, TypeOK
<1>6. /\ mysql' \in [Key -> Rows] /\ mysql'[k] = row
      /\ \A j \in Key : j # k => mysql'[j] = mysql[j]
  BY <1>1, <1>3, <1>4 DEF TypeOK
<1>7. /\ row # None => Len(row.messages) <= Max
      /\ InOrder(appended[k], count, row)
      /\ now <= fib[f].since + Ttl
  BY <1>1 DEF FiberInv
<1>8. TypeOK'
  <2>1. fib' \in [Process -> FiberState]
    BY <1>1, <1>4, <1>5 DEF TypeOK
  <2>2. \A j \in Key : mysql'[j] # None => Len(mysql'[j].messages) <= Max
    BY <1>1, <1>6, <1>7 DEF TypeOK
  <2> QED
    BY <1>1, <1>4, <1>6, <2>1, <2>2 DEF TypeOK
<1>9. FiberInv'
  BY <1>1, <1>4, <1>5, ConstFact DEF FiberInv
<1>10. HistoryInv'
  BY <1>1, <1>4 DEF HistoryInv
<1>11. Writing(k)
  BY <1>2, <1>4 DEF Writing
<1>12. CacheInv'
  <2> SUFFICES ASSUME NEW j \in Key
               PROVE  /\ InOrder(appended[j], count, chat_threads[j])
                      /\ InOrder(appended[j], count, mysql'[j])
                      /\ Cached(j) => Complete(appended[j], chat_threads[j])
                      /\ \/ Complete(appended[j], mysql'[j])
                         \/ /\ Cached(j)
                            /\ now <= chat_threads[j].update_time + Ttl
    BY <1>4 DEF CacheInv, Cached
  <2>1. CASE j # k
    BY <1>1, <1>6, <2>1 DEF CacheInv
  <2>2. CASE j = k
    <3>1. CASE Complete(appended[k], row)
      BY <1>1, <1>6, <1>7, <2>2, <3>1 DEF CacheInv
    <3>2. CASE AppendedSince(Timer)
      <4>1. Cached(k) /\ chat_threads[k].update_time >= fib[f].since
        BY <1>2, <3>2 DEF AppendedSince
      <4>2. now <= chat_threads[k].update_time + Ttl
        BY <1>1, <1>3, <1>7, <4>1, TypeFact
      <4> QED
        BY <1>1, <1>6, <1>7, <2>2, <4>1, <4>2 DEF CacheInv
    <3> QED
      BY <1>1, <1>2, <1>3, <1>11, <3>1, <3>2 DEF WriteInv
  <2> QED
    BY <2>1, <2>2
<1>13. \A j \in Key : ~Writing(j)'
  BY <1>2, <1>5, ConstFact DEF Writing
<1>14. WriteInv'
  BY <1>13 DEF WriteInv
<1>15. SelectInv'
  <2> SUFFICES ASSUME NEW g \in Process \ {Timer}, fib[g].pc = "select",
                      NEW j \in Key, j = fib[g].key
               PROVE  \/ AppendedSince(g)'
                      \/ fib[g].done /\ Complete(appended[j], fib[g].row)
                      \/ /\ ~fib[g].done /\ Complete(appended[j], mysql'[j])
                         /\ ~Writing(j)'
    <3>1. \A g \in Process : fib[g].key \in Key
      BY <1>1, TypeFact
    <3> QED
      BY <1>2, <1>4, <1>5, <3>1 DEF SelectInv, Writing
  <2>1. AppendedSince(g) => AppendedSince(g)'
    BY <1>4, <1>5 DEF AppendedSince, Cached
  <2>2. \/ AppendedSince(g)
        \/ fib[g].done /\ Complete(appended[j], fib[g].row)
        \/ /\ ~fib[g].done /\ Complete(appended[j], mysql[j])
           /\ Writing(j) => Complete(appended[j], fib[Timer].row)
    BY <1>1 DEF SelectInv
  <2> QED
    BY <1>2, <1>6, <1>11, <1>13, <2>1, <2>2
<1> QED
  BY <1>8, <1>9, <1>10, <1>12, <1>14, <1>15 DEF Inv

LEMMA MySQLExecStep == ASSUME Inv, NEW f \in Process, MySQLExec(f) PROVE Inv'
BY SelectStep, ReplaceStep DEF MySQLExec

(* A message is appended to a complete thread, which is then cached; a     *)
(* fiber may have ended.                                                   *)
LEMMA AppendStep ==
  ASSUME Inv, NEW k \in Key, NEW thread \in ChatThread,
         InOrder(appended[k], count, thread), Complete(appended[k], thread),
         AppendTo(k, thread),
         fib' \in [Process -> FiberState],
         \A g \in Process : fib'[g] = fib[g] \/ fib'[g] = Idle,
         UNCHANGED <<db_ready, save_buckets, bucket, mysql, now, client,
                     faults>>
  PROVE  Inv'
<1> DEFINE m == [time |-> Ms[now], id |-> count + 1]
           new == Grown(thread, now, m)
<1>1. /\ TypeOK /\ FiberInv /\ HistoryInv /\ CacheInv /\ WriteInv /\ SelectInv
      /\ now \in Nat /\ count \in Nat /\ Ttl \in Nat
      /\ appended \in [Key -> SUBSET Message]
  BY TypeFact, ConstFact DEF Inv, TypeOK
<1>2. /\ chat_threads' = [chat_threads EXCEPT ![k] = new]
      /\ count' = count + 1
      /\ appended' = [appended EXCEPT ![k] = @ \cup {m}]
      /\ overtaken' = IF IsOvertaken THEN overtaken \cup {m} ELSE overtaken
      /\ UNCHANGED <<db_ready, save_buckets, bucket, mysql, now, last, seen,
                     faults>>
  BY DEF AppendTo, client, Grown, Kept
<1>3. m \in Message /\ m.id = count + 1
  BY <1>1, TypeFact, MsFact DEF Message
<1>4. /\ IsFiniteSet(appended[k]) /\ appended[k] \in SUBSET Message
      /\ \A j \in Key : \A n \in appended[j] : n.id <= count /\ n.id \in Nat
  <2>1. \A j \in Key : \A n \in appended[j] : n.id \in Nat
    BY <1>1 DEF Message
  <2> QED
    BY <1>1, <2>1 DEF HistoryInv
<1> DEFINE A == appended[k] \cup {m}
<1>5. /\ new \in ChatThread /\ new # None /\ new.update_time = now
      /\ Len(new.messages) <= Max + Slack + 1
      /\ InOrder(A, count + 1, new)
      /\ Complete(A, new)
  <2> HIDE DEF m
  <2> QED
    BY <1>1, <1>3, <1>4, AppendFact
<1> HIDE DEF new
<1>6. /\ chat_threads'[k] = new /\ appended'[k] = A
      /\ chat_threads' \in [Key -> Rows]
      /\ \A j \in Key : j # k => /\ chat_threads'[j] = chat_threads[j]
                                 /\ appended'[j] = appended[j]
  <2>1. new \in Rows
    BY <1>5, RowFact
  <2> QED
    BY <1>1, <1>2, <2>1 DEF TypeOK
<1> HIDE DEF m
<1>7. IsFiniteSet(A) /\ A \in SUBSET Message
  BY <1>3, <1>4, FS_AddElement
<1>8. appended' \in [Key -> SUBSET Message]
  BY <1>1, <1>2, <1>7
<1>9. ASSUME NEW j \in Key, NEW row \in Rows, InOrder(appended[j], count, row)
      PROVE  InOrder(appended'[j], count', row)
  <2>1. CASE j = k
    BY <1>1, <1>2, <1>3, <1>4, <1>6, <1>9, <2>1, OrderStays
  <2>2. CASE j # k
    <3>1. row # None =>
            \A i \in 1..Len(row.messages) : row.messages[i].id \in Nat
      <4>1. row # None =>
              \A i \in 1..Len(row.messages) : row.messages[i] \in Message
        BY RowFact, ElementOfSeq
      <4> QED
        BY <4>1 DEF Message
    <3>2. InOrder(appended[j], count + 1, row)
      BY <1>1, <1>9, <3>1 DEF InOrder
    <3> QED
      BY <1>2, <1>6, <2>2, <3>2
  <2> QED
    BY <2>1, <2>2
<1>10. TypeOK'
  <2>1. \A j \in Key : chat_threads'[j] # None =>
          Len(chat_threads'[j].messages) <= Max + Slack + 1
    BY <1>1, <1>5, <1>6 DEF TypeOK
  <2>2. count' \in Nat
    BY <1>1, <1>2
  <2>3. overtaken' \subseteq Message
    BY <1>1, <1>2, <1>3 DEF TypeOK
  <2> QED
    BY <1>1, <1>2, <1>6, <1>8, <2>1, <2>2, <2>3 DEF TypeOK
<1>11. FiberInv'
  <2>1. ASSUME NEW g \in Process
        PROVE
          /\ fib'[g].pc \in IF g = Timer
                            THEN {"idle", "table", "round", "next", "replace"}
                            ELSE {"idle", "select"}
          /\ fib'[g].row # None => Len(fib'[g].row.messages) <= Max
          /\ InOrder(appended'[fib'[g].key], count', fib'[g].row)
          /\ fib'[g].since <= now
          /\ fib'[g].pc \in {"select", "replace"} =>
               now <= fib'[g].since + Ttl
    <3>1. CASE fib'[g] = Idle
      BY <1>1, <3>1, IdleFact DEF InOrder
    <3>2. CASE fib'[g] = fib[g]
      <4>1. fib[g].key \in Key /\ fib[g].row \in Rows
        BY <1>1, TypeFact
      <4>2. InOrder(appended'[fib[g].key], count', fib[g].row)
        BY <1>1, <1>9, <4>1 DEF FiberInv
      <4> QED
        BY <1>1, <3>2, <4>2 DEF FiberInv
    <3> QED
      BY <3>1, <3>2
  <2>2. fib'[Poller].pc = "select" =>
          /\ fib'[Poller].pos \in DOMAIN List
          /\ fib'[Poller].key = List[fib'[Poller].pos]
    <3>1. fib'[Poller] = fib[Poller] \/ fib'[Poller].pc = "idle"
      BY ConstFact, IdleFact
    <3> QED
      BY <1>1, <3>1 DEF FiberInv
  <2> QED
    BY <1>2, <2>1, <2>2 DEF FiberInv
<1>12. HistoryInv'
  <2>1. ASSUME NEW j \in Key
        PROVE  /\ IsFiniteSet(appended'[j])
               /\ \A n \in appended'[j] : n.id <= count'
    <3>1. \A n \in appended'[j] : n = m \/ n \in appended[j]
      BY <1>6
    <3>2. IsFiniteSet(appended'[j])
      BY <1>1, <1>6, <1>7 DEF HistoryInv
    <3> QED
      BY <1>1, <1>2, <1>3, <1>4, <3>1, <3>2
  <2> QED
    BY <1>1, <1>2, <2>1 DEF HistoryInv
<1>13. CacheInv'
  <2> SUFFICES ASSUME NEW j \in Key
               PROVE  /\ InOrder(appended'[j], count', chat_threads'[j])
                      /\ InOrder(appended'[j], count', mysql[j])
                      /\ chat_threads'[j] # None =>
                           Complete(appended'[j], chat_threads'[j])
                      /\ \/ Complete(appended'[j], mysql[j])
                         \/ /\ chat_threads'[j] # None
                            /\ now <= chat_threads'[j].update_time + Ttl
    BY <1>2 DEF CacheInv, Cached
  <2>1. InOrder(appended'[j], count', mysql[j])
    BY <1>1, <1>9, TypeFact DEF CacheInv
  <2>2. CASE j = k
    <3>1. now <= new.update_time + Ttl
      BY <1>1, <1>5
    <3> QED
      BY <1>2, <1>5, <1>6, <2>1, <2>2, <3>1
  <2>3. CASE j # k
    <3>1. InOrder(appended'[j], count', chat_threads[j])
      BY <1>1, <1>9, TypeFact DEF CacheInv
    <3> QED
      BY <1>1, <1>6, <2>1, <2>3, <3>1 DEF CacheInv, Cached
  <2> QED
    BY <2>2, <2>3
<1>14. ASSUME NEW g \in Process, fib'[g] = fib[g], fib[g].key = k
       PROVE  AppendedSince(g)'
  <2>1. fib[g].since <= now /\ fib[g].since \in Nat
    BY <1>1, TypeFact DEF FiberInv
  <2>2. chat_threads'[fib'[g].key] = new /\ fib'[g].since = fib[g].since
    BY <1>6, <1>14
  <2>3. new.update_time >= fib[g].since
    BY <1>1, <1>5, <2>1
  <2> QED
    BY <1>5, <2>2, <2>3 DEF AppendedSince, Cached
<1>15. ASSUME NEW g \in Process, fib'[g] = fib[g], fib[g].key # k,
              AppendedSince(g)
       PROVE  AppendedSince(g)'
  <2>1. chat_threads'[fib'[g].key] = chat_threads[fib[g].key]
    BY <1>1, <1>6, <1>15, TypeFact
  <2> QED
    BY <1>15, <2>1 DEF AppendedSince, Cached
<1>16. \A j \in Key : Writing(j)' => Writing(j) /\ fib'[Timer] = fib[Timer]
  BY IdleFact, ConstFact DEF Writing
<1>17. WriteInv'
  <2> SUFFICES ASSUME NEW j \in Key, Writing(j)'
               PROVE  \/ Complete(appended'[j], fib'[Timer].row)
                      \/ AppendedSince(Timer)'
    BY DEF WriteInv
  <2>1. Writing(j) /\ fib'[Timer] = fib[Timer] /\ fib[Timer].key = j
    BY <1>16 DEF Writing
  <2>2. CASE j = k
    BY <1>14, <2>1, <2>2, ConstFact
  <2>3. CASE j # k
    <3>1. Complete(appended[j], fib[Timer].row) \/ AppendedSince(Timer)
      BY <1>1, <2>1 DEF WriteInv
    <3> QED
      BY <1>6, <1>15, <2>1, <2>3, <3>1, ConstFact
  <2> QED
    BY <2>2, <2>3
<1>18. SelectInv'
  <2> SUFFICES ASSUME NEW g \in Process \ {Timer}, fib'[g].pc = "select",
                      NEW j \in Key, j = fib'[g].key
               PROVE  \/ AppendedSince(g)'
                      \/ fib'[g].done /\ Complete(appended'[j], fib'[g].row)
                      \/ /\ ~fib'[g].done /\ Complete(appended'[j], mysql[j])
                         /\ Writing(j)' =>
                              Complete(appended'[j], fib'[Timer].row)
    <3>1. \A g \in Process : fib'[g].key \in Key
      BY DEF FiberState
    <3> QED
      BY <1>2, <3>1 DEF SelectInv, Writing
  <2>1. fib'[g] = fib[g]
    BY IdleFact
  <2>2. CASE j = k
    BY <1>14, <2>1, <2>2
  <2>3. CASE j # k
    <3>1. \/ AppendedSince(g)
          \/ fib[g].done /\ Complete(appended[j], fib[g].row)
          \/ /\ ~fib[g].done /\ Complete(appended[j], mysql[j])
             /\ Writing(j) => Complete(appended[j], fib[Timer].row)
      BY <1>1, <2>1 DEF SelectInv
    <3>2. AppendedSince(g) => AppendedSince(g)'
      BY <1>15, <2>1, <2>3
    <3>3. appended'[j] = appended[j]
      BY <1>6, <2>3
    <3> QED
      BY <1>16, <2>1, <3>1, <3>2, <3>3
  <2> QED
    BY <2>2, <2>3
<1> QED
  BY <1>10, <1>11, <1>12, <1>13, <1>17, <1>18 DEF Inv

LEMMA AppendCachedStep ==
  ASSUME Inv, NEW k \in Key, AppendCached(k) PROVE Inv'
<1>1. /\ chat_threads[k] \in ChatThread
      /\ InOrder(appended[k], count, chat_threads[k])
      /\ Complete(appended[k], chat_threads[k])
      /\ fib' = fib /\ fib \in [Process -> FiberState]
  BY TypeFact DEF AppendCached, Inv, CacheInv, TypeOK
<1> QED
  BY <1>1, AppendStep DEF AppendCached

LEMMA AppendLoadedStep ==
  ASSUME Inv, NEW f \in Fiber, AppendLoaded(f) PROVE Inv'
<1> DEFINE k == fib[f].key
           row == fib[f].row
           thread == IF LoadConflict(k) THEN chat_threads[k]
                     ELSE IF row # None THEN row ELSE NewThread
<1>1. /\ f \in Process /\ f # Timer /\ k \in Key /\ row \in Rows
      /\ fib \in [Process -> FiberState] /\ now \in Nat
  BY TypeFact, ConstFact DEF Inv, TypeOK
<1>2. fib[f].pc = "select" /\ fib[f].done /\ AppendTo(k, thread) /\ End(f)
  BY DEF AppendLoaded, Resumed
<1>3. /\ thread \in ChatThread
      /\ InOrder(appended[k], count, thread) /\ Complete(appended[k], thread)
  <2>1. CASE Cached(k)
    <3>1. thread = chat_threads[k]
      BY <2>1 DEF LoadConflict
    <3> QED
      BY <1>1, <2>1, <3>1, TypeFact DEF Inv, CacheInv
  <2>2. CASE ~Cached(k)
    <3>1. InOrder(appended[k], count, row)
      BY <1>1 DEF Inv, FiberInv
    <3>2. Complete(appended[k], row)
      BY <1>1, <1>2, <2>2 DEF Inv, SelectInv, AppendedSince
    <3>3. CASE row # None
      <4>1. thread = row
        BY <2>2, <3>3 DEF LoadConflict
      <4> QED
        BY <1>1, <3>1, <3>2, <3>3, <4>1, RowFact
    <3>4. CASE row = None
      <4>1. thread = NewThread
        BY <2>2, <3>4 DEF LoadConflict
      <4>2. NewThread \in ChatThread /\ NewThread.messages = <<>>
        BY <1>1, EmptySeq DEF NewThread, ChatThread
      <4>3. InOrder(appended[k], count, NewThread)
        <5>1. Len(NewThread.messages) = 0
          BY <4>2, EmptySeq
        <5> QED
          BY <5>1 DEF InOrder
      <4>4. Complete(appended[k], NewThread)
        BY <3>2, <3>4 DEF Complete
      <4> QED
        BY <4>1, <4>2, <4>3, <4>4
    <3> QED
      BY <3>3, <3>4
  <2> QED
    BY <2>1, <2>2
<1>4. /\ fib' \in [Process -> FiberState]
      /\ \A g \in Process : fib'[g] = fib[g] \/ fib'[g] = Idle
  BY <1>1, <1>2, IdleFact DEF End
<1>5. UNCHANGED <<db_ready, save_buckets, bucket, mysql, now, client, faults>>
  BY DEF AppendLoaded
<1> HIDE DEF thread
<1> QED
  BY <1>1, <1>2, <1>3, <1>4, <1>5, AppendStep

(* The timer writes a complete row.  If it drops the thread, the row in    *)
(* MySQL is complete already: nobody has appended for longer than any      *)
(* statement may take, so that no fiber relies on finding the thread.      *)
LEMMA SaveThreadStep ==
  ASSUME Inv, NEW k \in Key, SaveThread(k) PROVE Inv'
<1> DEFINE thread == chat_threads[k]
           row == [thread EXCEPT !.messages = Newest(thread.messages, Max)]
           c == [pc |-> "replace", key |-> k, pos |-> 0, row |-> row,
                 since |-> now, done |-> FALSE]
<1>1. /\ TypeOK /\ FiberInv /\ HistoryInv /\ CacheInv /\ WriteInv /\ SelectInv
      /\ now \in Nat /\ Ttl \in Nat
  BY TypeFact, ConstFact DEF Inv
<1>2. /\ Cached(k) /\ bucket' = bucket \ {k}
      /\ chat_threads' = [chat_threads EXCEPT ![k] =
                            IF ForTooLong(thread) THEN None ELSE thread]
      /\ fib' = [fib EXCEPT ![Timer] = c]
      /\ UNCHANGED <<db_ready, save_buckets, mysql, now, last, seen, appended,
                     overtaken, count, faults>>
  BY DEF SaveThread, Query, client, history
<1>3. /\ thread \in ChatThread /\ thread.update_time \in Nat
      /\ InOrder(appended[k], count, thread) /\ Complete(appended[k], thread)
      /\ IsFiniteSet(appended[k]) /\ appended[k] \in SUBSET Message
      /\ count \in Nat
  BY <1>1, <1>2, TypeFact DEF CacheInv, HistoryInv
<1>4. /\ row \in ChatThread /\ row \in Rows /\ Len(row.messages) <= Max
      /\ InOrder(appended[k], count, row) /\ Complete(appended[k], row)
  BY <1>3, NewestIsComplete, RowFact
<1> HIDE DEF row
<1>5. c \in FiberState
  BY <1>1, <1>4 DEF FiberState, Pcs
<1>6. /\ fib' \in [Process -> FiberState] /\ fib'[Timer] = c
      /\ \A g \in Process : g # Timer => fib'[g] = fib[g]
  BY <1>1, <1>2, <1>5, ConstFact DEF TypeOK
<1>7. /\ c.pc = "replace" /\ c.key = k /\ c.row = row /\ c.since = now
      /\ ~c.done
  OBVIOUS
<1> HIDE DEF c
<1>8. /\ chat_threads' \in [Key -> Rows]
      /\ \A j \in Key : chat_threads'[j] = chat_threads[j] \/ j = k
      /\ chat_threads'[k] = None \/ chat_threads'[k] = thread
      /\ chat_threads'[k] = None => now > thread.update_time + Ttl
  <2>1. ForTooLong(thread) => now > thread.update_time + Ttl
    BY <1>1, <1>3 DEF ForTooLong
  <2>2. thread # None
    BY <1>2 DEF Cached
  <2> QED
    BY <1>1, <1>2, <1>3, <2>1, <2>2, RowFact DEF TypeOK
<1>9. TypeOK'
  <2>1. \A j \in Key : chat_threads'[j] # None =>
          Len(chat_threads'[j].messages) <= Max + Slack + 1
    BY <1>1, <1>8 DEF TypeOK
  <2> QED
    BY <1>1, <1>2, <1>6, <1>8, <2>1 DEF TypeOK
<1>10. FiberInv'
  <2>1. ASSUME NEW g \in Process
        PROVE
          /\ fib'[g].pc \in IF g = Timer
                            THEN {"idle", "table", "round", "next", "replace"}
                            ELSE {"idle", "select"}
          /\ fib'[g].row # None => Len(fib'[g].row.messages) <= Max
          /\ InOrder(appended[fib'[g].key], count, fib'[g].row)
          /\ fib'[g].since <= now
          /\ fib'[g].pc \in {"select", "replace"} =>
               now <= fib'[g].since + Ttl
    <3>1. CASE g = Timer
      BY <1>1, <1>4, <1>6, <1>7, <3>1
    <3>2. CASE g # Timer
      BY <1>1, <1>6, <3>2 DEF FiberInv
    <3> QED
      BY <3>1, <3>2
  <2>2. fib'[Poller] = fib[Poller]
    BY <1>6, ConstFact
  <2> QED
    BY <1>1, <1>2, <2>1, <2>2 DEF FiberInv
<1>11. HistoryInv'
  BY <1>1, <1>2 DEF HistoryInv
<1>12. chat_threads'[k] = None => Complete(appended[k], mysql[k])
  BY <1>1, <1>3, <1>8 DEF CacheInv
<1>13. CacheInv'
  <2> SUFFICES ASSUME NEW j \in Key
               PROVE  /\ InOrder(appended[j], count, chat_threads'[j])
                      /\ InOrder(appended[j], count, mysql[j])
                      /\ chat_threads'[j] # None =>
                           Complete(appended[j], chat_threads'[j])
                      /\ \/ Complete(appended[j], mysql[j])
                         \/ /\ chat_threads'[j] # None
                            /\ now <= chat_threads'[j].update_time + Ttl
    BY <1>2 DEF CacheInv, Cached
  <2>1. CASE chat_threads'[j] = chat_threads[j]
    BY <1>1, <2>1 DEF CacheInv, Cached
  <2>2. CASE j = k /\ chat_threads'[k] = None
    BY <1>1, <1>12, <2>2 DEF CacheInv, InOrder
  <2> QED
    BY <1>8, <2>1, <2>2
<1>14. \A j \in Key : Writing(j)' => j = k
  BY <1>6, <1>7 DEF Writing
<1>15. WriteInv'
  <2> SUFFICES ASSUME NEW j \in Key, Writing(j)'
               PROVE  Complete(appended[j], fib'[Timer].row)
    BY <1>2 DEF WriteInv
  <2> QED
    BY <1>4, <1>6, <1>7, <1>14
<1>16. SelectInv'
  <2> SUFFICES ASSUME NEW g \in Process \ {Timer}, fib[g].pc = "select",
                      NEW j \in Key, j = fib[g].key
               PROVE  \/ AppendedSince(g)'
                      \/ fib[g].done /\ Complete(appended[j], fib[g].row)
                      \/ /\ ~fib[g].done /\ Complete(appended[j], mysql[j])
                         /\ Writing(j)' =>
                              Complete(appended[j], fib'[Timer].row)
    <3>1. \A g \in Process : fib'[g].key \in Key
      BY <1>6 DEF FiberState
    <3> QED
      BY <1>2, <1>6, <3>1 DEF SelectInv, Writing
  <2>1. fib'[g] = fib[g]
    BY <1>6
  <2>2. Writing(j)' => Complete(appended[j], fib'[Timer].row)
    BY <1>4, <1>6, <1>7, <1>14
  <2>3. AppendedSince(g) => AppendedSince(g)'
    <3> SUFFICES ASSUME AppendedSince(g) PROVE AppendedSince(g)'
      OBVIOUS
    <3>1. Cached(j) /\ chat_threads[j].update_time >= fib[g].since
      BY DEF AppendedSince
    <3>2. now <= fib[g].since + Ttl /\ fib[g].since \in Nat
      BY <1>1, TypeFact DEF FiberInv
    <3>3. chat_threads[j].update_time \in Nat
      BY <1>1, <3>1, TypeFact
    <3>4. chat_threads'[j] = chat_threads[j]
      BY <1>1, <1>8, <3>1, <3>2, <3>3
    <3> QED
      BY <2>1, <3>1, <3>4 DEF AppendedSince, Cached
  <2>4. \/ AppendedSince(g)
        \/ fib[g].done /\ Complete(appended[j], fib[g].row)
        \/ ~fib[g].done /\ Complete(appended[j], mysql[j])
    BY <1>1 DEF SelectInv
  <2> QED
    BY <2>2, <2>3, <2>4
<1> QED
  BY <1>9, <1>10, <1>11, <1>13, <1>15, <1>16 DEF Inv

(* Time passes only as long as changes are saved and statements answered   *)
(* in time; a saved row is complete.                                       *)
LEMMA TickStep == ASSUME Inv, Tick PROVE Inv'
<1>1. /\ TypeOK /\ FiberInv /\ HistoryInv /\ CacheInv /\ WriteInv /\ SelectInv
      /\ now \in Nat /\ Ttl \in Nat /\ last \in Nat
  BY TypeFact, ConstFact DEF Inv
<1>2. /\ now' = now + 1
      /\ UNCHANGED <<db_ready, chat_threads, save_buckets, bucket, fib, mysql,
                     last, seen, appended, overtaken, count, faults>>
  BY DEF Tick, client, history
<1>3. TypeOK'
  <2>1. now' \in 0..MaxTime
    <3>1. now < MaxTime
      BY DEF Tick
    <3> QED
      BY <1>1, <1>2, <3>1, ConstFact
  <2> QED
    BY <1>1, <1>2, <2>1 DEF TypeOK
<1>4. FiberInv'
  <2>1. ASSUME NEW f \in Process
        PROVE  /\ fib[f].since <= now'
               /\ fib[f].pc \in {"select", "replace"} =>
                    now' <= fib[f].since + Ttl
    <3>1. fib[f].since \in Nat /\ fib[f].since <= now
      BY <1>1, TypeFact DEF FiberInv
    <3>2. fib[f].pc \in {"select", "replace"} => now < fib[f].since + Ttl
      BY DEF Tick
    <3> QED
      BY <1>1, <1>2, <3>1, <3>2
  <2> QED
    BY <1>1, <1>2, <2>1 DEF FiberInv
<1>5. HistoryInv'
  <2>1. last <= now'
    BY <1>1, <1>2 DEF HistoryInv
  <2> QED
    BY <1>1, <1>2, <2>1 DEF HistoryInv
<1>6. ASSUME NEW k \in Key, Cached(k), IsSaved(k)
      PROVE  Complete(appended[k], mysql[k])
  <2> DEFINE thread == chat_threads[k]
             row == [thread EXCEPT !.messages = Newest(thread.messages, Max)]
  <2>1. /\ thread \in ChatThread
        /\ InOrder(appended[k], count, thread) /\ Complete(appended[k], thread)
        /\ IsFiniteSet(appended[k]) /\ appended[k] \in SUBSET Message
        /\ count \in Nat
    BY <1>1, <1>6, TypeFact DEF CacheInv, HistoryInv
  <2>2. Complete(appended[k], row)
    BY <2>1, NewestIsComplete
  <2>3. row.messages = Newest(thread.messages, Max)
    BY <2>1 DEF ChatThread
  <2>4. /\ mysql[k] # None
        /\ Elems(Newest(thread.messages, Max)) \subseteq
             Elems(mysql[k].messages)
    BY <1>6 DEF IsSaved
  <2> HIDE DEF row, thread
  <2> QED
    BY <2>2, <2>3, <2>4 DEF Complete
<1>7. CacheInv'
  <2> SUFFICES ASSUME NEW k \in Key
               PROVE  /\ InOrder(appended[k], count, chat_threads[k])
                      /\ InOrder(appended[k], count, mysql[k])
                      /\ Cached(k) => Complete(appended[k], chat_threads[k])
                      /\ \/ Complete(appended[k], mysql[k])
                         \/ /\ Cached(k)
                            /\ now' <= chat_threads[k].update_time + Ttl
    BY <1>2 DEF CacheInv, Cached
  <2>1. CASE Cached(k) /\ ~IsSaved(k)
    <3>1. now < chat_threads[k].update_time + Ttl
      BY <2>1 DEF Tick
    <3>2. now' <= chat_threads[k].update_time + Ttl
      BY <1>1, <1>2, <2>1, <3>1, TypeFact
    <3> QED
      BY <1>1, <2>1, <3>2 DEF CacheInv
  <2>2. CASE Cached(k) /\ IsSaved(k)
    BY <1>1, <1>6, <2>2 DEF CacheInv
  <2>3. CASE ~Cached(k)
    BY <1>1, <2>3 DEF CacheInv
  <2> QED
    BY <2>1, <2>2, <2>3
<1>8. WriteInv'
  BY <1>1, <1>2 DEF WriteInv, Writing, AppendedSince, Cached
<1>9. SelectInv'
  BY <1>1, <1>2 DEF SelectInv, Writing, AppendedSince, Cached
<1> QED
  BY <1>3, <1>4, <1>5, <1>7, <1>8, <1>9 DEF Inv

(* What a crash leaves of a thread is in its row.                          *)
LEMMA CrashStep == ASSUME Inv, Crash PROVE Inv'
<1>1. /\ TypeOK /\ FiberInv /\ HistoryInv /\ CacheInv
      /\ now \in Nat /\ count \in Nat
  BY TypeFact DEF Inv
<1>2. /\ db_ready' = FALSE
      /\ chat_threads' = [k \in Key |-> None]
      /\ save_buckets' = {} /\ bucket' = {}
      /\ fib' = [f \in Process |-> Idle]
      /\ appended' = [k \in Key |-> {m \in appended[k] :
                         /\ mysql[k] # None /\ m \in Elems(mysql[k].messages)
                         /\ ~IsOld(appended[k], m)}]
      /\ UNCHANGED <<mysql, now, last, seen, overtaken, count>>
      /\ faults' = faults + 1
  BY DEF Crash, client
<1>3. ASSUME NEW k \in Key
      PROVE  /\ appended'[k] \in SUBSET Message
             /\ appended'[k] \subseteq appended[k]
             /\ IsFiniteSet(appended'[k])
             /\ InOrder(appended'[k], count, mysql[k])
             /\ Complete(appended'[k], mysql[k])
  <2>1. appended'[k] = {m \in appended[k] :
                         /\ mysql[k] # None /\ m \in Elems(mysql[k].messages)
                         /\ ~IsOld(appended[k], m)}
    BY <1>2
  <2>2. /\ appended[k] \in SUBSET Message /\ IsFiniteSet(appended[k])
        /\ mysql[k] \in Rows /\ InOrder(appended[k], count, mysql[k])
    BY <1>1, TypeFact DEF HistoryInv, CacheInv
  <2>3. appended'[k] \subseteq appended[k]
    BY <2>1
  <2>4. IsFiniteSet(appended'[k])
    BY <2>2, <2>3, FS_Subset
  <2>5. InOrder(appended'[k], count, mysql[k])
        /\ Complete(appended'[k], mysql[k])
    BY <1>1, <2>1, <2>2, CrashKeepsOrder
  <2> QED
    BY <2>2, <2>3, <2>4, <2>5
<1>4. \A f \in Process : fib'[f] = Idle
  BY <1>2
<1>5. TypeOK'
  <2>1. appended' \in [Key -> SUBSET Message]
    <3>1. appended' = [k \in Key |-> appended'[k]]
      BY <1>2
    <3> QED
      BY <1>3, <3>1
  <2>2. fib' \in [Process -> FiberState] /\ chat_threads' \in [Key -> Rows]
        /\ \A k \in Key : chat_threads'[k] = None
    BY <1>2, IdleFact, RowFact
  <2>3. faults' \in Nat
    BY <1>1, <1>2 DEF TypeOK
  <2> QED
    BY <1>1, <1>2, <2>1, <2>2, <2>3 DEF TypeOK
<1>6. FiberInv'
  BY <1>1, <1>2, <1>4, IdleFact, ConstFact DEF FiberInv, InOrder
<1>7. HistoryInv'
  BY <1>1, <1>2, <1>3 DEF HistoryInv
<1>8. CacheInv'
  BY <1>2, <1>3 DEF CacheInv, Cached, InOrder
<1>9. WriteInv'
  BY <1>4, IdleFact, ConstFact DEF WriteInv, Writing
<1>10. SelectInv'
  BY <1>4, IdleFact DEF SelectInv
<1> QED
  BY <1>5, <1>6, <1>7, <1>8, <1>9, <1>10 DEF Inv

LEMMA StutterStep == ASSUME Inv, UNCHANGED vars PROVE Inv'
<1>1. /\ UNCHANGED <<db_ready, chat_threads, save_buckets, bucket, fib, mysql>>
      /\ UNCHANGED <<now, last, seen, count, appended, overtaken, faults>>
  BY DEF vars, client, history
<1>2. TypeOK' /\ FiberInv' /\ HistoryInv' /\ CacheInv'
  BY <1>1 DEF Inv, TypeOK, FiberInv, HistoryInv, CacheInv, Cached
<1>3. WriteInv' /\ SelectInv'
  BY <1>1 DEF Inv, WriteInv, SelectInv, Writing, AppendedSince, Cached
<1> QED
  BY <1>2, <1>3 DEF Inv

LEMMA InitInv == Init => Inv
<1> SUFFICES ASSUME Init PROVE Inv
  OBVIOUS
<1>1. /\ \A f \in Process : fib[f] = Idle
      /\ \A k \in Key : /\ chat_threads[k] = None /\ mysql[k] = None
                        /\ appended[k] = {}
  BY DEF Init
<1>2. TypeOK
  <2>1. now \in 0..MaxTime /\ last \in 0..MaxTime
    BY ConstFact DEF Init
  <2>2. /\ chat_threads \in [Key -> Rows] /\ mysql \in [Key -> Rows]
        /\ fib \in [Process -> FiberState]
        /\ appended \in [Key -> SUBSET Message]
    BY IdleFact, RowFact DEF Init
  <2>3. /\ db_ready \in BOOLEAN /\ count \in Nat /\ faults \in Nat
        /\ save_buckets = {} /\ bucket = {} /\ seen = {} /\ overtaken = {}
    BY DEF Init
  <2> QED
    BY <1>1, <2>1, <2>2, <2>3 DEF TypeOK
<1>3. FiberInv
  BY <1>1, IdleFact, ConstFact DEF Init, FiberInv, InOrder
<1>4. HistoryInv
  BY <1>1, FS_EmptySet DEF Init, HistoryInv
<1>5. CacheInv
  BY <1>1 DEF CacheInv, InOrder, Complete, Cached
<1>6. WriteInv /\ SelectInv
  BY <1>1, IdleFact, ConstFact DEF WriteInv, SelectInv, Writing
<1> QED
  BY <1>2, <1>3, <1>4, <1>5, <1>6 DEF Inv

LEMMA NextInv == Inv /\ [Next]_vars => Inv'
<1> SUFFICES ASSUME Inv, [Next]_vars PROVE Inv'
  OBVIOUS
<1>1. CASE Check \/ CheckLoaded
  BY <1>1, CheckStep, CheckLoadedStep
<1>2. ASSUME NEW k \in Key,
             AppendCached(k) \/ \E f \in Fiber : AppendLoad(f, k)
      PROVE  Inv'
  BY <1>2, AppendCachedStep, AppendLoadStep
<1>3. ASSUME NEW f \in Fiber, AppendLoaded(f) PROVE Inv'
  BY <1>3, AppendLoadedStep
<1>4. CASE TimerStep
  BY <1>4, TimerStartStep, TableCheckedStep, PopBucketStep, ThreadSavedStep,
     SaveEndStep, SaveThreadStep DEF TimerStep
<1>5. ASSUME NEW f \in Process, MySQLExec(f) \/ DbError(f) PROVE Inv'
  BY <1>5, MySQLExecStep, DbErrorStep
<1>6. CASE Tick \/ Crash
  BY <1>6, TickStep, CrashStep
<1>7. CASE UNCHANGED vars
  BY <1>7, StutterStep
<1> QED
  BY <1>1, <1>2, <1>3, <1>4, <1>5, <1>6, <1>7 DEF Next

(***************************************************************************)
(* A client that polls one thread.                                         *)
(***************************************************************************)
LEMMA InitSeen == Init => SeenInv
<1> SUFFICES ASSUME Init PROVE SeenInv
  OBVIOUS
<1>1. seen = {} /\ overtaken = {} /\ \A k \in Polled : appended[k] = {}
  BY DEF Init, Polled
<1> QED
  BY <1>1 DEF SeenInv

(* The client is answered from a complete thread, or there is none.        *)
LEMMA AnsweredSeen ==
  ASSUME Inv, SeenInv, NEW cache \in [Key -> Rows],
         \A k \in Polled : /\ Complete(appended[k], cache[k])
                           /\ InOrder(appended[k], count, cache[k]),
         seen' = seen \cup Unread(cache), last' = now,
         UNCHANGED <<appended, overtaken, count>>
  PROVE  SeenInv'
<1>1. last \in Nat /\ now \in Nat /\ last <= now /\ overtaken \subseteq Message
  BY TypeFact DEF Inv, TypeOK, HistoryInv
<1>2. ASSUME NEW n \in Unread(cache)
      PROVE  n.time >= last /\ n.id <= count
  <2>1. PICK k \in Elems(List) :
          cache[k] # None /\ n \in Elems(cache[k].messages) /\ n.time >= last
    BY DEF Unread, IsUnread
  <2>2. k \in Polled /\ cache[k] \in ChatThread
    BY <2>1, ConstFact, RowFact DEF Elems, Polled
  <2>3. PICK i \in 1..Len(cache[k].messages) : n = cache[k].messages[i]
    BY <2>1, <2>2, RowFact DEF Elems
  <2> QED
    BY <2>1, <2>2, <2>3 DEF InOrder
<1>3. ASSUME NEW k \in Polled, NEW m \in appended[k], m.time < now
      PROVE  m \in seen' \cup overtaken \/ IsOld(appended[k], m)
  <2>1. k \in Key /\ k \in Elems(List)
    BY DEF Polled, Elems
  <2>2. m.time \in Nat
    BY <2>1, TypeFact DEF Inv, Message
  <2>3. CASE m.time < last
    BY <2>3 DEF SeenInv
  <2>4. CASE m.time >= last /\ cache[k] # None /\ m \in Elems(cache[k].messages)
    BY <2>1, <2>4 DEF Unread, IsUnread
  <2> QED
    BY <1>1, <2>2, <2>3, <2>4 DEF Complete
<1>4. ASSUME NEW m \in overtaken PROVE m.time < now /\ m \notin seen'
  <2>1. m.time \in Nat /\ m.time < last /\ m \notin seen
    BY <1>1 DEF SeenInv, Message
  <2> QED
    BY <1>1, <1>2, <2>1
<1>5. \A m \in seen' : m.id <= count
  BY <1>2 DEF SeenInv
<1> QED
  BY <1>3, <1>4, <1>5 DEF SeenInv

LEMMA OneThreadFact ==
  ASSUME Len(List) = 1
  PROVE  DOMAIN List = {1} /\ \A k \in Polled : k = List[1] /\ k \in Key
BY ConstFact DEF Polled

LEMMA CheckFromSeen ==
  ASSUME Inv, SeenInv, NEW from \in Nat, NEW cache \in [Key -> Rows],
         CheckFrom(from, cache), UNCHANGED history,
         \A k \in Polled : InOrder(appended[k], count, cache[k]),
         {i \in from..Len(List) : cache[List[i]] = None} = {} =>
           \A k \in Polled : Complete(appended[k], cache[k])
  PROVE  SeenInv'
<1> DEFINE missing == {i \in from..Len(List) : cache[List[i]] = None}
<1>1. UNCHANGED <<appended, overtaken, count>>
  BY DEF history
<1>2. CASE missing = {}
  <2>1. seen' = seen \cup Unread(cache) /\ last' = now
    BY <1>2 DEF CheckFrom
  <2> QED
    BY <1>1, <1>2, <2>1, AnsweredSeen
<1>3. CASE missing # {}
  <2>1. seen' = seen /\ last' = last
    BY <1>3 DEF CheckFrom, client
  <2> QED
    BY <1>1, <2>1 DEF SeenInv
<1> QED
  BY <1>2, <1>3

LEMMA CheckSeen ==
  ASSUME Len(List) = 1, Inv, SeenInv, Check PROVE SeenInv'
<1>1. CheckFrom(1, chat_threads) /\ UNCHANGED history
  BY DEF Check
<1>2. ASSUME {i \in 1..Len(List) : chat_threads[List[i]] = None} = {},
             NEW k \in Polled
      PROVE  Complete(appended[k], chat_threads[k])
  <2>1. k = List[1] /\ k \in Key /\ 1 \in 1..Len(List)
    BY OneThreadFact
  <2>2. Cached(k)
    BY <1>2, <2>1 DEF Cached
  <2> QED
    BY <2>1, <2>2 DEF Inv, CacheInv
<1>3. /\ chat_threads \in [Key -> Rows]
      /\ \A k \in Polled : InOrder(appended[k], count, chat_threads[k])
  BY DEF Inv, TypeOK, CacheInv, Polled
<1> QED
  BY <1>1, <1>2, <1>3, CheckFromSeen

LEMMA CheckLoadedSeen ==
  ASSUME Len(List) = 1, Inv, SeenInv, CheckLoaded PROVE SeenInv'
<1> DEFINE key == fib[Poller].key
           row == fib[Poller].row
           cache == Emplace(key, row)
<1>1. /\ CheckFrom(fib[Poller].pos + 1, cache) /\ UNCHANGED history
      /\ fib[Poller].pc = "select" /\ fib[Poller].done
      /\ fib[Poller].pos + 1 \in Nat /\ row \in Rows
      /\ chat_threads \in [Key -> Rows]
  BY TypeFact, ConstFact DEF CheckLoaded, Resumed, Inv, TypeOK
<1>2. key = List[1] /\ key \in Key
  BY <1>1, OneThreadFact, ConstFact DEF Inv, FiberInv
<1>3. InOrder(appended[key], count, row)
  BY ConstFact DEF Inv, FiberInv
<1>4. cache \in [Key -> Rows]
  BY <1>1, <1>2 DEF Emplace
<1>5. CASE Cached(key)
  <2>1. cache = chat_threads
    BY <1>5 DEF Emplace
  <2>2. /\ Complete(appended[key], cache[key])
        /\ InOrder(appended[key], count, cache[key])
    BY <1>2, <1>5, <2>1 DEF Inv, CacheInv
  <2> HIDE DEF cache, key, row
  <2> QED
    BY <1>1, <1>2, <1>4, <2>2, OneThreadFact, CheckFromSeen
<1>6. CASE ~Cached(key)
  <2>1. Complete(appended[key], row)
    BY <1>1, <1>6, ConstFact DEF Inv, SelectInv, AppendedSince
  <2>2. cache[key] = row
    BY <1>1, <1>2, <1>6 DEF Emplace, Cached
  <2>3. /\ Complete(appended[key], cache[key])
        /\ InOrder(appended[key], count, cache[key])
    BY <1>3, <2>1, <2>2
  <2> HIDE DEF cache, key, row
  <2> QED
    BY <1>1, <1>2, <1>4, <2>3, OneThreadFact, CheckFromSeen
<1> QED
  BY <1>5, <1>6

(* A message that is appended now has a time before that of the last       *)
(* answer only if the answer came in the same millisecond.                 *)
LEMMA AppendSeen ==
  ASSUME Inv, SeenInv, Inv', NEW k \in Key, NEW thread, AppendTo(k, thread),
         UNCHANGED client
  PROVE  SeenInv'
<1> DEFINE m == [time |-> Ms[now], id |-> count + 1]
<1>1. /\ appended' = [appended EXCEPT ![k] = @ \cup {m}]
      /\ overtaken' = IF IsOvertaken THEN overtaken \cup {m} ELSE overtaken
      /\ count' = count + 1
      /\ seen' = seen /\ last' = last
  BY DEF AppendTo, client
<1>2. /\ now \in 0..MaxTime /\ last \in 0..MaxTime /\ last <= now
      /\ count \in Nat /\ seen \subseteq Message
      /\ appended \in [Key -> SUBSET Message]
      /\ appended' \in [Key -> SUBSET Message]
  BY TypeFact DEF Inv, TypeOK, HistoryInv
<1>3. Ms[now] < last <=> IsOvertaken
  <2>1. Ms[now] <= last => Ms[now] <= Ms[last]
    BY <1>2, MsFact
  <2>2. Ms[last] <= Ms[now]
    BY <1>2, MsFact
  <2>3. Ms[now] \in Nat /\ Ms[last] \in Nat /\ last \in Nat
    BY <1>2, MsFact
  <2> QED
    BY <2>1, <2>2, <2>3 DEF IsOvertaken
<1>4. m.time = Ms[now] /\ m.id = count + 1
  OBVIOUS
<1> HIDE DEF m
<1>5. ASSUME NEW j \in Polled, NEW n \in appended'[j], n.time < last
      PROVE  n \in seen \cup overtaken' \/ IsOld(appended'[j], n)
  <2>1. j \in Key
    BY DEF Polled
  <2>2. CASE n = m
    BY <1>1, <1>3, <1>4, <1>5, <2>2
  <2>3. CASE n # m
    <3>1. n \in appended[j] /\ appended[j] \subseteq appended'[j]
      BY <1>1, <1>2, <2>1, <2>3
    <3>2. n \in seen \cup overtaken \/ IsOld(appended[j], n)
      BY <1>5, <3>1 DEF SeenInv
    <3>3. IsFiniteSet(appended'[j])
      BY <2>1 DEF Inv, HistoryInv
    <3>4. IsOld(appended[j], n) => IsOld(appended'[j], n)
      BY <1>2, <2>1, <3>1, <3>3, OldStays
    <3> QED
      BY <1>1, <3>2, <3>4
  <2> QED
    BY <2>2, <2>3
<1>6. \A n \in seen : n.id \in Nat /\ n.id <= count
  BY <1>2 DEF SeenInv, Message
<1>7. m \notin seen
  BY <1>2, <1>4, <1>6
<1>8. \A n \in overtaken' : n.time < last /\ n \notin seen
  BY <1>1, <1>3, <1>4, <1>7 DEF SeenInv
<1>9. \A n \in seen : n.id <= count + 1
  BY <1>2, <1>6
<1> QED
  BY <1>1, <1>5, <1>8, <1>9 DEF SeenInv

LEMMA NextSeen ==
  ASSUME Len(List) = 1, Inv, SeenInv, [Next]_vars PROVE SeenInv'
<1>1. Inv'
  BY NextInv
<1>2. CASE UNCHANGED <<client, history>>
  <2>1. /\ seen' = seen /\ last' = last /\ appended' = appended
        /\ overtaken' = overtaken /\ count' = count
    BY <1>2 DEF client, history
  <2> QED
    BY <2>1 DEF SeenInv
<1>3. CASE Check \/ CheckLoaded
  BY <1>3, CheckSeen, CheckLoadedSeen
<1>4. ASSUME NEW k \in Key,
             AppendCached(k) \/ \E f \in Fiber : AppendLoad(f, k)
      PROVE  SeenInv'
  BY <1>1, <1>2, <1>4, AppendSeen
  DEF AppendCached, AppendLoad
<1>5. ASSUME NEW f \in Fiber, AppendLoaded(f) PROVE SeenInv'
  <2>1. fib[f].key \in Key
    BY TypeFact, ConstFact DEF Inv
  <2> QED
    BY <1>1, <1>5, <2>1, AppendSeen DEF AppendLoaded
<1>6. CASE TimerStep
  BY <1>2, <1>6 DEF TimerStep, TimerStart, TableChecked, PopBucket,
     ThreadSaved, SaveEnd, SaveThread
<1>7. ASSUME NEW f \in Process, MySQLExec(f) \/ DbError(f) PROVE SeenInv'
  BY <1>2, <1>7 DEF MySQLExec, DbError
<1>8. CASE Tick
  BY <1>2, <1>8 DEF Tick
<1>9. CASE Crash
  <2>1. /\ seen' = seen /\ last' = last
        /\ overtaken' = overtaken /\ count' = count
        /\ \A k \in Key : \A m \in appended'[k] :
             m \in appended[k] /\ ~IsOld(appended[k], m)
    BY <1>9 DEF Crash, client
  <2> QED
    BY <2>1 DEF SeenInv, Polled
<1>10. CASE UNCHANGED vars
  BY <1>2, <1>10 DEF vars
<1> QED
  BY <1>3, <1>4, <1>5, <1>6, <1>7, <1>8, <1>9, <1>10 DEF Next

(***************************************************************************)
(* Theorems.                                                               *)
(***************************************************************************)
(* A thread in the cache, and a row in MySQL that nothing newer will       *)
(* replace in time, lack no message but those that more than Max have      *)
(* followed, through failed statements and crashes.                        *)
THEOREM InvAlways == Spec => []Inv
BY InitInv, NextInv, PTL DEF Spec

(* Every variable keeps its type, and neither a cached thread nor a row    *)
(* grows beyond its limit.                                                 *)
THEOREM TypeOKAlways == Spec => []TypeOK
<1>1. Inv => TypeOK
  BY DEF Inv
<1> QED
  BY <1>1, InvAlways, PTL

(* A client that polls one thread misses those of its messages that its    *)
(* check_time has overtaken within a millisecond, and no others, whatever  *)
(* else is appended, loaded, dropped and lost.  (With several threads it   *)
(* may: one can be dropped while another is loaded for the same request.)  *)
THEOREM MissesOnlyOvertakenAlways ==
  ASSUME Len(List) = 1 PROVE Spec => []MissesOnlyOvertaken
<1>1. Init => Inv /\ SeenInv
  BY InitInv, InitSeen
<1>2. (Inv /\ SeenInv) /\ [Next]_vars => (Inv /\ SeenInv)'
  BY NextInv, NextSeen
<1>3. SeenInv => MissesOnlyOvertaken
  BY DEF SeenInv, MissesOnlyOvertaken, Polled
<1> QED
  BY <1>1, <1>2, <1>3, PTL DEF Spec

=============================================================================
