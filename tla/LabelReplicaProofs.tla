------------------------- MODULE LabelReplicaProofs -------------------------
(***************************************************************************)
(* A replica that has caught up misses no label, and live updates neither  *)
(* skip nor repeat a change.                                               *)
(*                                                                         *)
(* The invariant tells the story of this generation of the sequence: H[s]  *)
(* is the catalog as it was at number s and K[s] the change that led       *)
(* there.  Journal, messages, collected changes and snapshots are excerpts *)
(* of it (Story), they come in its order and without a gap (Control), and  *)
(* a replica whose cursor is of this generation has, at afterSeq, every    *)
(* label of H[afterSeq].                                                   *)
(*                                                                         *)
(* Compacted changes are not the difference of two catalogs: an upsert and *)
(* a later removal cancel, so the replica may keep a label.  What they do  *)
(* is Brings: a copy that misses nothing at the cursor, or anywhere        *)
(* between it and the head, misses nothing at the head.                    *)
(***************************************************************************)
EXTENDS LabelReplica, SequenceTheorems, WellFoundedInduction, TLAPS

Labels == [Names -> Colors \cup {NoColor}]
ChangeSet ==
    {ch \in [kind : {"upsert", "remove"}, name : Names, color : Colors \cup {NoColor},
             previous : Names] : ch.kind = "remove" => ch.previous = ch.name}
Cursors == [generation : Nat, afterSeq : Nat]
Entries == [generation : Nat, seq : Nat, change : ChangeSet]
Snapshots == [mode : {"none", "snapshot", "changes"}, labels : Labels, removals : SUBSET Names,
              at : [generation : Nat, head : Nat]]
Requests == [epoch : Nat, cursor : Cursors]
Handlers == [epoch : Nat, cursor : Cursors, pc : {"queued", "synchronized"},
             snapshot : Snapshots, pending : Seq(Entries)]
Lists == [kind : {"list"}, epoch : Nat, payload : Snapshots]
Updates == [kind : {"update"}, generation : Nat, seq : Nat, change : ChangeSet]
Messages == Lists \cup Updates

TypeInv ==
    /\ catalog \in Labels
    /\ sequence \in [generation : Nat, head : Nat, journal : Seq(Entries)]
    /\ handlers \in Seq(Handlers) /\ live \in BOOLEAN
    /\ requests \in Seq(Requests)
    /\ out \in Seq(Messages) /\ conn \in BOOLEAN
    /\ epoch \in Nat /\ listed \in BOOLEAN
    /\ replica \in Labels /\ cursor \in Cursors

\* The catalog at each sequence number of this generation, and the change that led there.
History(H, K) ==
    /\ H \in [Nat -> Labels] /\ H[sequence.head] = catalog
    /\ \A s \in 1..sequence.head : K[s] \in ChangeSet /\ H[s] = Apply(H[s - 1], K[s])
Entry(K, s) == [generation |-> sequence.generation, seq |-> s, change |-> K[s]]
\* The journal holds the last entries.
Journal(K) ==
    LET first == sequence.head - Len(sequence.journal)
    IN first >= 0 /\ \A i \in 1..Len(sequence.journal) : sequence.journal[i] = Entry(K, first + i)

\* Upserts and removals that bring what is not missing at a, or between a and b,
\* to what is not missing at b.
Brings(H, upserts, removals, a, b) ==
    \A n \in Names : H[b][n] # NoColor =>
        \/ upserts[n] = H[b][n]
        \/ upserts[n] = NoColor /\ n \notin removals /\ \A k \in a..b : H[k][n] = H[b][n]

\* What a message says the replica may reach with it.
Pos(m) == IF m.kind = "list" THEN m.payload.at.head ELSE m.seq
Synchronized(i) == handlers[i].pc = "synchronized"
At(i) == handlers[i].snapshot.at.head

\* Messages and answers come in the order of what they say, updates without a gap.
InOrder ==
    /\ \A i, j \in 1..Len(out) : i <= j => Pos(out[i]) <= Pos(out[j])
    /\ \A j \in 2..Len(out) : out[j].kind = "update" => out[j].seq = Pos(out[j - 1]) + 1
    /\ \A i, j \in 1..Len(handlers) : i < j /\ Synchronized(j) => Synchronized(i) /\ At(i) <= At(j)
    /\ \A i \in 1..Len(out), j \in 1..Len(handlers) : Synchronized(j) => Pos(out[i]) <= At(j)

\* The cursor is behind all of them.
Behind ==
    /\ cursor.generation <= sequence.generation
    /\ cursor.generation = sequence.generation =>
          /\ cursor.afterSeq <= sequence.head
          /\ \A i \in 1..Len(out) : cursor.afterSeq <= Pos(out[i])
          /\ \A i \in 1..Len(handlers) : Synchronized(i) => cursor.afterSeq <= At(i)

\* A request was made at a cursor the replica has reached.
Reached(c) ==
    /\ c.generation <= sequence.generation
    /\ c.generation = sequence.generation =>
          cursor.generation = sequence.generation /\ c.afterSeq <= cursor.afterSeq
Asked ==
    /\ \A i \in 1..Len(requests) : Reached(requests[i].cursor)
    /\ \A i \in 1..Len(handlers) : Reached(handlers[i].cursor)

\* Once the lists of this connection begin, there are no others.
Epochs ==
    /\ \A i \in 1..Len(requests) : requests[i].epoch = epoch
    /\ \A i \in 1..Len(handlers) : handlers[i].epoch <= epoch
    /\ \A i \in 1..Len(out) : out[i].kind = "list" => out[i].epoch <= epoch
    /\ \A i, j \in 1..Len(handlers) :
          i < j /\ handlers[i].epoch = epoch => handlers[j].epoch = epoch
    /\ \A i \in 1..Len(out) : out[i].kind = "list" /\ out[i].epoch = epoch =>
          /\ \A j \in 1..Len(out) : i < j /\ out[j].kind = "list" => out[j].epoch = epoch
          /\ \A j \in 1..Len(handlers) : handlers[j].epoch = epoch
    /\ listed => /\ \A i \in 1..Len(out) : out[i].kind = "list" => out[i].epoch = epoch
                 /\ \A i \in 1..Len(handlers) : handlers[i].epoch = epoch

\* Updates carry on from the client's cursor and end at the head.
Following ==
    /\ live => handlers = <<>>
    /\ ~conn => out = <<>>
    /\ listed /\ out # <<>> /\ out[1].kind = "update" =>
          cursor.generation = sequence.generation /\ out[1].seq = cursor.afterSeq + 1
    /\ live /\ conn /\ out # <<>> => Pos(out[Len(out)]) = sequence.head
    /\ live /\ conn /\ listed /\ out = <<>> => CaughtUp

\* What a snapshot makes of the replica.
Payload(H, p) ==
    /\ p.at.generation = sequence.generation /\ p.at.head <= sequence.head
    /\ \/ p.mode = "snapshot" /\ p.labels = H[p.at.head] /\ p.removals = {}
       \/ /\ p.mode = "changes" /\ cursor.generation = sequence.generation
          /\ Brings(H, p.labels, p.removals, cursor.afterSeq, p.at.head)
Message(H, K, m) ==
    /\ m.kind = "list" => Payload(H, m.payload)
    /\ m.kind = "update" => /\ m.seq \in 1..sequence.head /\ m.generation = sequence.generation
                            /\ m.change = K[m.seq]
\* What a handler has collected since its snapshot: for the owner, everything.
Handler(H, K, i) ==
    /\ handlers[i].pc = "queued" => handlers[i].pending = <<>>
    /\ Synchronized(i) =>
          /\ Payload(H, handlers[i].snapshot)
          /\ \A j \in 1..Len(handlers[i].pending) : handlers[i].pending[j] = Entry(K, At(i) + j)
          /\ At(i) + Len(handlers[i].pending) <= sequence.head
          /\ i = Len(handlers) => At(i) + Len(handlers[i].pending) = sequence.head
Replica(H) ==
    cursor.generation = sequence.generation =>
        \A n \in Names : H[cursor.afterSeq][n] # NoColor => replica[n] = H[cursor.afterSeq][n]
Story(H, K) ==
    /\ History(H, K) /\ Journal(K) /\ Replica(H)
    /\ \A i \in 1..Len(out) : Message(H, K, out[i])
    /\ \A i \in 1..Len(handlers) : Handler(H, K, i)

Control == InOrder /\ Behind /\ Asked /\ Epochs /\ Following
Inv == TypeInv /\ Control /\ \E H, K : Story(H, K)

-----------------------------------------------------------------------------
(* Recursion over a loop *)

(* Induction up to n, over a set: the theorem of the library takes an        *)
(* operator, this one does not.                                              *)
LEMMA UpTo ==
    ASSUME NEW n \in Nat, NEW S, 0 \in S, \A i \in 1..n : i - 1 \in S => i \in S
    PROVE  \A i \in 0..n : i \in S
<1> DEFINE T == {i \in Nat : i <= n /\ i \notin S}
<1>1. ASSUME NEW x \in T, \A y \in T : ~(<<y, x>> \in OpToRel(<, Nat)) PROVE FALSE
  <2>1. x # 0 /\ x \in Nat /\ x <= n /\ x \notin S
    OBVIOUS
  <2>2. x - 1 \in Nat /\ x - 1 < x /\ x \in 1..n
    BY <2>1
  <2>3. x - 1 \in T
    BY <2>1, <2>2
  <2>4. <<x - 1, x>> \in OpToRel(<, Nat)
    BY <2>1, <2>2 DEF OpToRel
  <2> QED BY <1>1, <2>3, <2>4
<1> HIDE DEF T
<1>2. T \subseteq Nat
  BY DEF T
<1>3. T = {}
  BY <1>1, <1>2, WFMin, NatLessThanWellFounded
<1> QED BY <1>3 DEF T

(* A loop of n turns over values of A has a history.                         *)
LEMMA Loop ==
    ASSUME NEW A, NEW a \in A, NEW n \in Nat, NEW F \in [1..n -> [A -> A]]
    PROVE  \E f \in [0..n -> A] : f[0] = a /\ \A i \in 1..n : f[i] = F[i][f[i - 1]]
<1> DEFINE Runs(f, m) == /\ f \in [0..m -> A] /\ f[0] = a
                         /\ \A i \in 1..m : f[i] = F[i][f[i - 1]]
           S == {m \in 0..n : \E f : Runs(f, m)}
<1>1. 0 \in S
  <2> DEFINE e == [i \in 0..0 |-> a]
  <2>1. e \in [0..0 -> A] /\ e[0] = a /\ 1..0 = {}
    OBVIOUS
  <2>2. Runs(e, 0)
    BY <2>1
  <2> HIDE DEF e, Runs
  <2> QED BY <2>2
<1>2. ASSUME NEW m \in 1..n, m - 1 \in S PROVE m \in S
  <2>1. PICK f : Runs(f, m - 1)
    BY <1>2
  <2> DEFINE e == [i \in 0..m |-> IF i = m THEN F[m][f[m - 1]] ELSE f[i]]
  <2>2. m - 1 \in 0..(m - 1) /\ f[m - 1] \in A /\ F[m] \in [A -> A]
    BY <2>1
  <2>3. F[m][f[m - 1]] \in A
    BY <2>2
  <2>4. e \in [0..m -> A]
    <3>1. ASSUME NEW i \in 0..m, i # m PROVE i \in 0..(m - 1)
      BY <3>1
    <3> QED BY <2>1, <2>3, <3>1
  <2>5. e[0] = a
    BY <2>1
  <2>6. ASSUME NEW i \in 1..m PROVE e[i] = F[i][e[i - 1]]
    <3>1. i \in 0..m /\ i - 1 \in 0..m /\ i - 1 # m /\ e[i - 1] = f[i - 1]
      OBVIOUS
    <3>2. CASE i = m
      BY <3>1, <3>2
    <3>3. CASE i # m
      <4>1. i \in 1..(m - 1) /\ e[i] = f[i]
        BY <3>3
      <4> QED BY <2>1, <3>1, <4>1
    <3> QED BY <3>2, <3>3
  <2> HIDE DEF e
  <2>7. Runs(e, m)
    BY <2>4, <2>5, <2>6
  <2> HIDE DEF Runs
  <2>8. m \in 0..n /\ \E x : Runs(x, m)
    BY <2>7
  <2> QED BY <2>8
<1>3. n \in S
  <2> HIDE DEF S
  <2>1. \A i \in 1..n : i - 1 \in S => i \in S
    BY <1>2
  <2>2. \A i \in 0..n : i \in S
    BY <1>1, <2>1, UpTo, Zenon
  <2> QED BY <2>2
<1> QED BY <1>3

-----------------------------------------------------------------------------
(* The two loops *)

Compacted == [upserts : Labels, removals : SUBSET Names]

LEMMA CompactType ==
    ASSUME NEW acc \in Compacted, NEW e \in Entries
    PROVE  Compact(acc, e) \in Compacted
  BY DEF Compacted, Compact, Without, Entries, ChangeSet, Labels

(* CatchUp is the loop over the journal that it looks like.                  *)
Turn(c, i, acc) ==
    IF sequence.journal[i].seq > c.afterSeq THEN Compact(acc, sequence.journal[i]) ELSE acc
LEMMA CatchUpLoop ==
    ASSUME TypeInv, NEW c \in Cursors
    PROVE  \E f \in [0..Len(sequence.journal) -> Compacted] :
              /\ f[0] = [upserts |-> NoLabels, removals |-> {}]
              /\ \A i \in 1..Len(sequence.journal) : f[i] = Turn(c, i, f[i - 1])
              /\ CatchUp(c) = f[Len(sequence.journal)]
<1> DEFINE n == Len(sequence.journal)
           none == [upserts |-> NoLabels, removals |-> {}]
           F == [i \in 1..n |-> [acc \in Compacted |-> Turn(c, i, acc)]]
           Is(f) == f = [i \in 0..n |->
                            IF i = 0 THEN none
                            ELSE IF sequence.journal[i].seq > c.afterSeq
                                 THEN Compact(f[i - 1], sequence.journal[i])
                            ELSE f[i - 1]]
           g == CHOOSE f : Is(f)
<1>1. n \in Nat /\ \A i \in 1..n : sequence.journal[i] \in Entries
  BY DEF TypeInv
<1>2. none \in Compacted
  BY DEF Compacted, NoLabels, Labels
<1>3. F \in [1..n -> [Compacted -> Compacted]]
  BY <1>1, CompactType DEF Turn
<1>4. PICK f \in [0..n -> Compacted] : f[0] = none /\ \A i \in 1..n : f[i] = F[i][f[i - 1]]
  <2> HIDE DEF F, none, n, Is, g
  <2>1. n \in Nat
    BY <1>1
  <2> QED BY ONLY <2>1, <1>2, <1>3, Loop, SMTT(20)
<1>5. ASSUME NEW i \in 1..n PROVE f[i] = Turn(c, i, f[i - 1])
  <2>1. i - 1 \in 0..n /\ f[i - 1] \in Compacted
    BY <1>1, <1>4
  <2> QED BY <1>4, <2>1
<1>6. Is(f)
  <2>1. \A i \in 0..n : i # 0 => i \in 1..n
    BY <1>1
  <2> QED BY <1>4, <1>5, <2>1 DEF Turn
<1>7. Is(g)
  <2> HIDE DEF Is
  <2> QED BY <1>6
<1>8. CatchUp(c) = g[n]
  BY DEF CatchUp
<1> HIDE DEF n, none, F, g
<1>9. g[0] = none /\ \A i \in 1..n : g[i] = Turn(c, i, g[i - 1])
  BY <1>1, <1>7 DEF Turn
<1>10. \A i \in 0..n : g[i] = f[i]
  <2> DEFINE S == {i \in 0..n : g[i] = f[i]}
  <2>1. 0 \in S
    BY <1>1, <1>4, <1>9
  <2>2. \A i \in 1..n : i - 1 \in S => i \in S
    BY <1>1, <1>5, <1>9
  <2> HIDE DEF S
  <2>3. \A i \in 0..n : i \in S
    BY <1>1, <2>1, <2>2, UpTo, Zenon
  <2> QED BY <2>3 DEF S
<1>11. CatchUp(c) = f[n]
  BY <1>1, <1>8, <1>10
<1> QED BY <1>4, <1>5, <1>11 DEF n, none

(* One more change brings the copy one further: the color an upsert sets is  *)
(* kept, a name that leaves is not in the catalog, and others do not change. *)
LEMMA CompactBrings ==
    ASSUME NEW acc \in Compacted, NEW e \in Entries, NEW H \in [Nat -> Labels],
           NEW a \in Nat, NEW b \in Nat, H[b + 1] = Apply(H[b], e.change),
           Brings(H, acc.upserts, acc.removals, a, b)
    PROVE  Brings(H, Compact(acc, e).upserts, Compact(acc, e).removals, a, b + 1)
<1> DEFINE d == Compact(acc, e)
           ch == e.change
<1> SUFFICES ASSUME NEW n \in Names, H[b + 1][n] # NoColor
             PROVE  \/ d.upserts[n] = H[b + 1][n]
                    \/ /\ d.upserts[n] = NoColor /\ n \notin d.removals
                       /\ \A k \in a..(b + 1) : H[k][n] = H[b + 1][n]
  BY DEF Brings
<1>1. ch \in ChangeSet /\ H[b] \in Labels
  BY DEF Entries
<1>2. CASE ch.kind = "upsert" /\ n = ch.name
  <2>1. H[b + 1][n] = ch.color /\ d.upserts[n] = ch.color
    BY <1>1, <1>2 DEF Apply, Compact, Without, Compacted, Labels, ChangeSet
  <2> QED BY <2>1
<1>3. CASE n = ch.previous /\ ~(ch.kind = "upsert" /\ n = ch.name)
  <2>1. H[b + 1][n] = NoColor
    BY <1>1, <1>3 DEF Apply, Labels, ChangeSet
  <2> QED BY <2>1
<1>4. CASE n # ch.previous /\ ~(ch.kind = "upsert" /\ n = ch.name)
  <2>1. n # ch.name
    BY <1>1, <1>4 DEF ChangeSet
  <2>2. H[b + 1][n] = H[b][n]
    BY <1>1, <1>4, <2>1 DEF Apply, Labels, ChangeSet
  <2>3. d.upserts[n] = acc.upserts[n] /\ (n \in d.removals <=> n \in acc.removals)
    BY <1>1, <1>4, <2>1 DEF Compact, Without, Compacted, Labels, ChangeSet
  <2>4. \A k \in a..(b + 1) : k \in a..b \/ k = b + 1
    OBVIOUS
  <2> QED BY <2>2, <2>3, <2>4 DEF Brings
<1> QED BY <1>2, <1>3, <1>4

(* The compacted changes bring a copy from any cursor the journal reaches    *)
(* back to, and from anywhere between, to the head.                          *)
LEMMA CatchUpBrings ==
    ASSUME TypeInv, NEW c \in Cursors, CanCatchUp(c), NEW H, NEW K, History(H, K), Journal(K)
    PROVE  /\ CatchUp(c) \in Compacted
           /\ Brings(H, CatchUp(c).upserts, CatchUp(c).removals, c.afterSeq, sequence.head)
<1> DEFINE n == Len(sequence.journal)
           first == sequence.head - n
           a == c.afterSeq
           Came(i) == IF first + i > a THEN first + i ELSE a
<1>1. /\ n \in Nat /\ \A i \in 1..n : sequence.journal[i] \in Entries
      /\ sequence.head \in Nat /\ first \in Nat /\ a \in Nat
  BY DEF TypeInv, Journal, Cursors
<1>2. \A i \in 1..n : sequence.journal[i].seq = first + i /\ sequence.journal[i].change = K[first + i]
  <2>1. ASSUME NEW i \in 1..n PROVE sequence.journal[i] = Entry(K, first + i)
    BY DEF Journal
  <2>2. \A k : Entry(K, k).seq = k /\ Entry(K, k).change = K[k]
    BY DEF Entry
  <2> HIDE DEF first, n
  <2> QED BY <2>1, <2>2
<1>3. first <= a /\ a <= sequence.head
  <2>1. CASE n = 0
    <3>1. sequence.journal = <<>>
      BY <2>1, EmptySeq DEF TypeInv
    <3> QED BY <1>1, <2>1, <3>1 DEF CanCatchUp, OldestSeq
  <2>2. CASE n # 0
    <3>1. sequence.journal # <<>> /\ 1 \in 1..n
      BY <1>1, <2>2, EmptySeq
    <3> QED BY <1>1, <1>2, <3>1 DEF CanCatchUp, OldestSeq
  <2> QED BY <2>1, <2>2
<1>4. PICK f \in [0..n -> Compacted] :
         /\ f[0] = [upserts |-> NoLabels, removals |-> {}]
         /\ \A i \in 1..n : f[i] = Turn(c, i, f[i - 1])
         /\ CatchUp(c) = f[n]
  BY CatchUpLoop
<1>5. \A i \in 0..n : Brings(H, f[i].upserts, f[i].removals, a, Came(i))
  <2> DEFINE S == {i \in 0..n : Brings(H, f[i].upserts, f[i].removals, a, Came(i))}
  <2>1. 0 \in S
    <3>1. Came(0) = a /\ \A k \in a..a : k = a
      BY <1>1, <1>3
    <3>2. Brings(H, f[0].upserts, f[0].removals, a, a)
      BY <1>4, <3>1 DEF Brings, NoLabels
    <3> QED BY <1>1, <3>1, <3>2
  <2>2. ASSUME NEW i \in 1..n, i - 1 \in S PROVE i \in S
    <3>1. f[i - 1] \in Compacted /\ i - 1 \in 0..n
      <4>1. n \in Nat
        BY <1>1
      <4>2. i - 1 \in 0..n
        BY <4>1
      <4> HIDE DEF n, S
      <4> QED BY <4>2
    <3>2. Brings(H, f[i - 1].upserts, f[i - 1].removals, a, Came(i - 1))
      BY <2>2
    <3>3. CASE first + i > a
      <4>1. f[i] = Compact(f[i - 1], sequence.journal[i])
        BY <1>2, <1>4, <3>3 DEF Turn
      <4>2. Came(i - 1) = (first + i) - 1 /\ Came(i) = first + i /\ first + i \in 1..sequence.head
        <5>1. i \in Nat /\ i <= n /\ i >= 1 /\ first + n = sequence.head
          BY <1>1
        <5> HIDE DEF first, n, a
        <5>2. Came(i) = first + i /\ first + i \in 1..sequence.head
          BY <1>1, <1>3, <3>3, <5>1
        <5>3. first + (i - 1) = (first + i) - 1 /\ (first + i) - 1 >= a
          BY <1>1, <1>3, <3>3, <5>1
        <5> QED BY <1>1, <5>1, <5>2, <5>3
      <4>3. H[first + i] = Apply(H[(first + i) - 1], sequence.journal[i].change)
        <5>1. \A k \in 1..sequence.head : H[k] = Apply(H[k - 1], K[k])
          BY DEF History
        <5>2. first + i \in 1..sequence.head /\ sequence.journal[i].change = K[first + i]
          BY <1>2, <4>2
        <5>3. H[first + i] = Apply(H[(first + i) - 1], K[first + i])
          <6> DEFINE s == first + i
          <6>0. s \in 1..sequence.head
            BY <5>2
          <6> HIDE DEF s
          <6>1. H[s] = Apply(H[s - 1], K[s])
            BY <5>1, <6>0, Zenon
          <6> HIDE DEF first, n, a
          <6> QED BY <6>1, Zenon DEF s
        <5> HIDE DEF first, n, a
        <5> QED BY <5>2, <5>3
      <4>4. H \in [Nat -> Labels] /\ (first + i) - 1 \in Nat
           /\ ((first + i) - 1) + 1 = first + i
        BY <1>1, <4>2 DEF History
      <4> HIDE DEF first, n, a, Came
      <4>5. Brings(H, f[i - 1].upserts, f[i - 1].removals, a, (first + i) - 1)
        BY <3>2, <4>2
      <4> DEFINE b == (first + i) - 1
      <4> HIDE DEF b
      <4>6. Brings(H, f[i].upserts, f[i].removals, a, b + 1)
        BY <1>1, <3>1, <4>1, <4>3, <4>4, <4>5, CompactBrings DEF b
      <4> QED BY <4>2, <4>4, <4>6 DEF b
    <3>4. CASE ~(first + i > a)
      <4>1. f[i] = f[i - 1]
        BY <1>2, <1>4, <3>4 DEF Turn
      <4>2. Came(i - 1) = a /\ Came(i) = a
        BY <1>1, <3>4
      <4> QED BY <3>2, <4>1, <4>2
    <3> QED BY <3>3, <3>4
  <2> HIDE DEF S
  <2>3. \A i \in 1..n : i - 1 \in S => i \in S
    BY <2>2
  <2>4. \A i \in 0..n : i \in S
    BY <1>1, <2>1, <2>3, UpTo, Zenon
  <2> QED BY <2>4 DEF S
<1>6. n \in 0..n /\ Came(n) = sequence.head
  BY <1>1, <1>3
<1> QED BY <1>4, <1>5, <1>6

(* When everything collected came after the snapshot, all of it is sent.     *)
LEMMA AnswerIs ==
    ASSUME NEW h \in Handlers,
           \A i \in 1..Len(h.pending) : h.pending[i].seq > h.snapshot.at.head
    PROVE  /\ Answer(h) \in Seq(Messages) /\ Len(Answer(h)) = Len(h.pending) + 1
           /\ Answer(h)[1] = ListMessage(h)
           /\ \A i \in 1..Len(h.pending) : Answer(h)[i + 1] = UpdateMessage(h.pending[i])
<1> DEFINE n == Len(h.pending)
           Is(f) == f = [i \in 0..n |->
                            IF i = 0 THEN <<ListMessage(h)>>
                            ELSE IF h.pending[i].seq > h.snapshot.at.head
                                 THEN Append(f[i - 1], UpdateMessage(h.pending[i]))
                            ELSE f[i - 1]]
           Sent(i) == [j \in 1..(i + 1) |->
                          IF j = 1 THEN ListMessage(h) ELSE UpdateMessage(h.pending[j - 1])]
           e == [i \in 0..n |-> Sent(i)]
           g == CHOOSE f : Is(f)
<1>1. n \in Nat /\ \A i \in 1..n : h.pending[i] \in Entries
  BY DEF Handlers
<1>2. ListMessage(h) \in Messages /\ \A i \in 1..n : UpdateMessage(h.pending[i]) \in Messages
  BY <1>1 DEF ListMessage, UpdateMessage, Handlers, Entries, Messages, Lists, Updates
<1>3. ASSUME NEW i \in 0..n
      PROVE  /\ Sent(i) \in Seq(Messages) /\ Len(Sent(i)) = i + 1
             /\ Sent(i)[1] = ListMessage(h)
             /\ \A j \in 1..i : Sent(i)[j + 1] = UpdateMessage(h.pending[j])
  <2>1. ASSUME NEW j \in 1..(i + 1)
        PROVE  (IF j = 1 THEN ListMessage(h) ELSE UpdateMessage(h.pending[j - 1])) \in Messages
    <3>1. j # 1 => j - 1 \in 1..n
      BY <1>1
    <3> QED BY <1>2, <3>1
  <2>2. Sent(i) \in [1..(i + 1) -> Messages] /\ i + 1 \in Nat
    BY <1>1, <2>1
  <2>3. Sent(i) \in Seq(Messages) /\ Len(Sent(i)) = i + 1
    <3> HIDE DEF Sent
    <3> QED BY <2>2
  <2>4. Sent(i)[1] = ListMessage(h)
    BY <1>1
  <2>5. \A j \in 1..i : Sent(i)[j + 1] = UpdateMessage(h.pending[j])
    OBVIOUS
  <2> QED BY <2>3, <2>4, <2>5
<1> HIDE DEF Sent
<1>4. Sent(0) = <<ListMessage(h)>>
  <2>1. Sent(0) \in Seq(Messages) /\ Len(Sent(0)) = 1 /\ Sent(0)[1] = ListMessage(h)
    <3>1. 0 \in 0..n /\ 0 + 1 = 1
      BY <1>1
    <3> HIDE DEF n
    <3> QED BY <1>3, <3>1
  <2> QED BY <1>2, <2>1, SeqEqual
<1>5. ASSUME NEW i \in 1..n PROVE Sent(i) = Append(Sent(i - 1), UpdateMessage(h.pending[i]))
  <2> DEFINE t == Append(Sent(i - 1), UpdateMessage(h.pending[i]))
  <2>1. i \in 0..n /\ i - 1 \in 0..n
    BY <1>1
  <2>2. Sent(i) \in Seq(Messages) /\ Len(Sent(i)) = i + 1
    BY <1>3, <2>1
  <2>3. Sent(i - 1) \in Seq(Messages) /\ Len(Sent(i - 1)) = i
    <3>1. (i - 1) + 1 = i
      OBVIOUS
    <3> QED BY <1>3, <2>1, <3>1
  <2>4. \A j \in 1..i : Sent(i)[j] = Sent(i - 1)[j]
    BY <1>1 DEF Sent
  <2>5. Sent(i)[i + 1] = UpdateMessage(h.pending[i])
    BY <1>3, <2>1
  <2>6. t \in Seq(Messages) /\ Len(t) = i + 1
    BY <1>2, <2>3
  <2>7. \A j \in 1..(i + 1) : Sent(i)[j] = t[j]
    BY <1>2, <2>3, <2>4, <2>5
  <2> HIDE DEF t
  <2> QED BY <2>2, <2>6, <2>7, SeqEqual DEF t
<1>6. Is(e)
  <2>1. ASSUME NEW i \in 0..n
        PROVE  Sent(i) = IF i = 0 THEN <<ListMessage(h)>>
                         ELSE IF h.pending[i].seq > h.snapshot.at.head
                              THEN Append(e[i - 1], UpdateMessage(h.pending[i]))
                         ELSE e[i - 1]
    <3>1. CASE i = 0
      <4> QED BY <1>4, <3>1
    <3>2. CASE i # 0
      <4>1. i \in 1..n /\ i - 1 \in 0..n
        BY <1>1, <3>2
      <4> QED BY <1>5, <3>2, <4>1
    <3> QED BY <3>1, <3>2
  <2> QED BY <2>1
<1>7. Is(g)
  <2> HIDE DEF Is, e
  <2> QED BY <1>6
<1>8. Answer(h) = g[n]
  BY DEF Answer
<1> HIDE DEF g
<1>9. \A i \in 0..n : g[i] = Sent(i)
  <2> DEFINE S == {i \in 0..n : g[i] = Sent(i)}
  <2>1. 0 \in S
    BY <1>1, <1>4, <1>7
  <2>2. ASSUME NEW i \in 1..n, i - 1 \in S PROVE i \in S
    <3>1. i \in 0..n /\ i # 0 /\ g[i - 1] = Sent(i - 1)
      BY <1>1, <2>2
    <3>2. g[i] = Append(g[i - 1], UpdateMessage(h.pending[i]))
      BY <1>7, <3>1
    <3> QED BY <1>5, <3>1, <3>2
  <2>3. n \in Nat
    BY <1>1
  <2> HIDE DEF S, n
  <2>4. \A i \in 0..n : i \in S
    <3>1. \A i \in 1..n : i - 1 \in S => i \in S
      BY <2>2
    <3> QED BY <2>1, <2>3, <3>1, UpTo, Zenon
  <2> QED BY <2>4 DEF S
<1>10. n \in 0..n
  BY <1>1
<1> QED BY <1>3, <1>8, <1>9, <1>10, SMTT(30)

-----------------------------------------------------------------------------
(* Sequences *)

LEMMA TailIs ==
    ASSUME NEW S, NEW s \in Seq(S), s # <<>>
    PROVE  /\ Tail(s) \in Seq(S) /\ Len(s) = Len(Tail(s)) + 1 /\ Len(Tail(s)) \in Nat
           /\ Head(s) = s[1] /\ s[1] \in S
           /\ \A i \in 1..Len(Tail(s)) : Tail(s)[i] = s[i + 1]
  BY HeadTailProperties, LenProperties, EmptySeq

LEMMA AppendIs ==
    ASSUME NEW S, NEW s \in Seq(S), NEW e \in S
    PROVE  /\ Append(s, e) \in Seq(S) /\ Len(Append(s, e)) = Len(s) + 1 /\ Len(s) \in Nat
           /\ \A i \in 1..Len(s) : Append(s, e)[i] = s[i]
           /\ Append(s, e)[Len(s) + 1] = e
  OBVIOUS

-----------------------------------------------------------------------------
(* Types *)

LEMMA ChangeType == ASSUME TypeInv, NEW ch \in Changes PROVE ch \in ChangeSet
  BY DEF Changes, ChangeSet, Upsert, Removal, TypeInv, Labels

LEMMA SynchronizeType ==
    ASSUME TypeInv, NEW c \in Cursors PROVE Synchronize(c) \in Snapshots
<1>1. CatchUp(c) \in Compacted
  <2>1. PICK f \in [0..Len(sequence.journal) -> Compacted] : CatchUp(c) = f[Len(sequence.journal)]
    BY CatchUpLoop
  <2>2. Len(sequence.journal) \in 0..Len(sequence.journal)
    BY DEF TypeInv
  <2> QED BY <2>1, <2>2
<1> QED BY <1>1 DEF Synchronize, Snapshots, Compacted, TypeInv

LEMMA EmitType ==
    ASSUME TypeInv, NEW ms \in Seq(Messages), Emit(ms) PROVE out' \in Seq(Messages)
  BY DEF Emit, TypeInv

LEMMA ChangeTyped ==
    ASSUME TypeInv, NEW ch \in Changes, Change(ch) PROVE TypeInv'
<1> DEFINE entry == [generation |-> sequence.generation, seq |-> sequence.head + 1, change |-> ch]
           last == Len(handlers)
<1>1. ch \in ChangeSet
  BY ChangeType
<1>2. entry \in Entries
  BY <1>1 DEF TypeInv, Entries
<1> HIDE DEF entry
<1>3. catalog' \in Labels
  BY <1>1 DEF Change, Apply, TypeInv, Labels, ChangeSet
<1>4. Journaled(entry) \in Seq(Entries)
  <2> DEFINE j == Append(sequence.journal, entry)
  <2>0. sequence.journal \in Seq(Entries)
    BY DEF TypeInv
  <2>1. j \in Seq(Entries) /\ Len(j) = Len(sequence.journal) + 1 /\ Len(sequence.journal) \in Nat
    BY <1>2, <2>0, AppendIs
  <2>2. j # <<>>
    BY <2>1, EmptySeq
  <2> HIDE DEF j
  <2>3. Tail(j) \in Seq(Entries)
    BY <2>1, <2>2, TailIs
  <2> QED BY <2>1, <2>3 DEF Journaled, j
<1>5. sequence' = [sequence EXCEPT !.head = @ + 1, !.journal = Journaled(entry)]
  BY DEF Change, Publish, entry
<1>6. sequence' \in [generation : Nat, head : Nat, journal : Seq(Entries)]
  <2> DEFINE j == Journaled(entry)
  <2>1. sequence' = [generation |-> sequence.generation, head |-> sequence.head + 1, journal |-> j]
    BY <1>5 DEF TypeInv
  <2> HIDE DEF j
  <2>2. j \in Seq(Entries)
    BY <1>4 DEF j
  <2> QED BY <2>1, <2>2 DEF TypeInv
<1>7. out' \in Seq(Messages)
  <2>1. <<UpdateMessage(entry)>> \in Seq(Messages)
    BY <1>2 DEF UpdateMessage, Entries, Messages, Updates
  <2> QED BY <2>1, EmitType DEF Change, Publish, TypeInv, entry
<1>8. handlers' \in Seq(Handlers)
  <2>1. CASE last > 0
    <3>1. last \in 1..Len(handlers) /\ handlers[last] \in Handlers
      BY <2>1 DEF TypeInv
    <3>2. [handlers[last] EXCEPT !.pending = Append(@, entry)] \in Handlers
      <4>1. Append(handlers[last].pending, entry) \in Seq(Entries)
        BY <1>2, <3>1 DEF Handlers
      <4> HIDE DEF last
      <4> QED BY <3>1, <4>1 DEF Handlers
    <3>3. handlers' = handlers \/ handlers' =
             [handlers EXCEPT ![last] = [handlers[last] EXCEPT !.pending = Append(@, entry)]]
      BY DEF Change, Publish, entry
    <3>4. handlers \in Seq(Handlers)
      BY DEF TypeInv
    <3> HIDE DEF last
    <3> QED BY <3>1, <3>2, <3>3, <3>4, ExceptSeq, SMTT(30)
  <2>2. CASE ~(last > 0)
    BY <2>2 DEF Change, Publish, TypeInv
  <2> QED BY <2>1, <2>2
<1> QED BY <1>3, <1>6, <1>7, <1>8 DEF Change, TypeInv, client

LEMMA SubscribeIs ==
    ASSUME TypeInv, NEW i \in DOMAIN handlers, Subscribe(i)
    PROVE  /\ i \in 1..Len(handlers) /\ handlers' \in Seq(Handlers)
           /\ Len(handlers') = Len(handlers)
           /\ \A j \in 1..Len(handlers) : j # i => handlers'[j] = handlers[j]
           /\ handlers'[i] = [handlers[i] EXCEPT !.pc = "synchronized",
                                                 !.snapshot = Synchronize(handlers[i].cursor)]
<1> DEFINE e == [handlers[i] EXCEPT !.pc = "synchronized",
                                    !.snapshot = Synchronize(handlers[i].cursor)]
<1>1. i \in 1..Len(handlers) /\ handlers[i] \in Handlers
  BY DEF TypeInv
<1>2. e \in Handlers
  BY <1>1, SynchronizeType DEF Handlers
<1>3. handlers' = [handlers EXCEPT ![i] = e]
  BY <1>1 DEF Subscribe, TypeInv
<1> HIDE DEF e
<1>4. handlers \in Seq(Handlers)
  BY DEF TypeInv
<1>5. handlers' \in Seq(Handlers) /\ Len(handlers') = Len(handlers)
      /\ \A j \in 1..Len(handlers) : handlers'[j] = IF j = i THEN e ELSE handlers[j]
  BY <1>1, <1>2, <1>3, <1>4, ExceptSeq
<1> QED BY <1>1, <1>5 DEF e

LEMMA ReceiveIs ==
    ASSUME TypeInv, Receive
    PROVE  /\ requests # <<>> /\ requests[1] \in Requests
           /\ handlers' = Append(handlers,
                  [epoch |-> requests[1].epoch, cursor |-> requests[1].cursor,
                   pc |-> "queued", snapshot |-> NoSnapshot, pending |-> <<>>])
           /\ [epoch |-> requests[1].epoch, cursor |-> requests[1].cursor,
                   pc |-> "queued", snapshot |-> NoSnapshot, pending |-> <<>>] \in Handlers
           /\ requests' = Tail(requests) /\ requests' \in Seq(Requests)
<1>1. /\ requests # <<>> /\ requests[1] \in Requests
      /\ requests[1] = Head(requests) /\ Tail(requests) \in Seq(Requests)
  BY TailIs DEF Receive, TypeInv
<1>2. NoSnapshot \in Snapshots
  BY DEF NoSnapshot, NoLabels, Snapshots, Labels
<1>3. <<>> \in Seq(Entries)
  OBVIOUS
<1> QED BY <1>1, <1>2, <1>3 DEF Receive, Handlers, Requests

LEMMA DeliverTyped == ASSUME TypeInv, Deliver PROVE TypeInv'
<1>1. /\ out[1] \in Messages /\ Head(out) = out[1] /\ out' = Tail(out) /\ out' \in Seq(Messages)
  BY TailIs DEF Deliver, TypeInv
<1>2. replica' \in Labels /\ cursor' \in Cursors /\ listed' \in BOOLEAN
  <2>1. CASE out[1].kind = "list" /\ out[1].epoch = epoch /\ ApplyList(out[1].payload) /\ listed' = TRUE
    <3>1. out[1].payload \in Snapshots
      BY <1>1, <2>1 DEF Messages, Lists, Updates
    <3> QED BY <2>1, <3>1 DEF ApplyList, Snapshots, Labels, Cursors, TypeInv, NoLabels
  <2>2. CASE out[1].kind = "update" /\ replica' = Apply(replica, out[1].change)
             /\ cursor' = [cursor EXCEPT !.afterSeq = out[1].seq] /\ listed' = listed
    <3>1. out[1].change \in ChangeSet /\ out[1].seq \in Nat
      BY <1>1, <2>2 DEF Messages, Lists, Updates
    <3> QED BY <2>2, <3>1 DEF Apply, ChangeSet, Labels, Cursors, TypeInv
  <2>3. CASE replica' = replica /\ cursor' = cursor /\ listed' = listed
    BY <2>3 DEF TypeInv
  <2> QED BY <1>1, <2>1, <2>2, <2>3 DEF Deliver
<1>3. requests' \in Seq(Requests)
  <2>1. List(epoch, cursor) \in Requests
    BY DEF List, TypeInv, Requests
  <2>2. requests' = requests \/ requests' = Append(requests, List(epoch, cursor))
    BY DEF Deliver
  <2>3. requests \in Seq(Requests)
    BY DEF TypeInv
  <2>4. Append(requests, List(epoch, cursor)) \in Seq(Requests)
    BY <2>1, <2>3, AppendIs
  <2> QED BY <2>2, <2>3, <2>4
<1> QED BY <1>1, <1>2, <1>3 DEF Deliver, TypeInv, daemon, session

-----------------------------------------------------------------------------
(* Steps that leave catalog and replica alone *)

(* Queues may be emptied, in one of these ways or not at all.                *)
LEMMA Still ==
    ASSUME NEW H, NEW K, UNCHANGED <<catalog, sequence, replica, cursor>>
    PROVE  /\ History(H, K)' <=> History(H, K)
           /\ Journal(K)' <=> Journal(K)
           /\ Replica(H)' <=> Replica(H)
           /\ \A p : Payload(H, p)' <=> Payload(H, p)
           /\ \A m : Message(H, K, m)' <=> Message(H, K, m)
           /\ \A c : Reached(c)' <=> Reached(c)
           /\ \A s : Entry(K, s)' = Entry(K, s)
           /\ CaughtUp' <=> CaughtUp
<1>1. /\ History(H, K)' <=> History(H, K)
      /\ \A s : Entry(K, s)' = Entry(K, s)
  BY DEF History, Entry
<1>2. Journal(K)' <=> Journal(K)
  BY DEF Journal, Entry
<1>3. Replica(H)' <=> Replica(H)
  BY DEF Replica
<1>4. \A p : Payload(H, p)' <=> Payload(H, p)
  BY DEF Payload
<1>5. \A m : Message(H, K, m)' <=> Message(H, K, m)
  BY <1>4 DEF Message
<1>6. (\A c : Reached(c)' <=> Reached(c)) /\ (CaughtUp' <=> CaughtUp)
  BY DEF Reached, CaughtUp
<1> QED BY <1>1, <1>2, <1>3, <1>4, <1>5, <1>6

LEMMA StillHandlers ==
    ASSUME NEW H, NEW K, UNCHANGED <<catalog, sequence, replica, cursor, handlers>>
    PROVE  \A i : Handler(H, K, i)' <=> Handler(H, K, i)
  BY Still, ZenonT(40) DEF Handler, Synchronized, At

LEMMA StillStory ==
    ASSUME UNCHANGED <<catalog, sequence, replica, cursor, handlers>>, out' = out \/ out' = <<>>,
           NEW H, NEW K, Story(H, K)
    PROVE  Story(H, K)'
<1>1. History(H, K)' /\ Journal(K)' /\ Replica(H)'
  BY Still DEF Story
<1>2. (\A i \in 1..Len(out) : Message(H, K, out[i]))'
  <2>1. CASE out' = out
    <3>1. ASSUME NEW i \in 1..Len(out) PROVE Message(H, K, out[i])'
      <4>1. Message(H, K, out[i])
        BY DEF Story
      <4> QED BY <2>1, <4>1, Still DEF Message
    <3> QED BY <2>1, <3>1
  <2>2. CASE out' = <<>>
    BY <2>2
  <2> QED BY <2>1, <2>2
<1>3. (\A i \in 1..Len(handlers) : Handler(H, K, i))'
  BY StillHandlers DEF Story
<1> QED BY <1>1, <1>2, <1>3 DEF Story

LEMMA Empty ==
    <<>> \in Seq(Requests) /\ <<>> \in Seq(Messages) /\ <<>> \in Seq(Handlers) /\ <<>> \in Seq(Entries)
  BY EmptySeq

LEMMA Refreshes ==
    ASSUME TypeInv, Control, NEW H, NEW K, Story(H, K), Refresh
    PROVE  TypeInv' /\ Control' /\ Story(H, K)'
<1>1. UNCHANGED <<catalog, sequence, handlers, live, out, conn, epoch, listed, replica, cursor>>
  BY DEF Refresh, daemon, session, client
<1>2. List(epoch, cursor) \in Requests /\ requests \in Seq(Requests)
  BY DEF TypeInv, List, Requests
<1>3. /\ requests' \in Seq(Requests) /\ Len(requests') = Len(requests) + 1 /\ Len(requests) \in Nat
      /\ \A i \in 1..Len(requests) : requests'[i] = requests[i]
      /\ requests'[Len(requests) + 1] = List(epoch, cursor)
  BY <1>2, AppendIs DEF Refresh
<1>4. TypeInv'
  BY <1>1, <1>3 DEF TypeInv
<1>5. InOrder' /\ Behind' /\ Following'
  BY <1>1 DEF Control, InOrder, Behind, Following, Synchronized, At, Pos, CaughtUp
<1>6. Asked'
  <2>1. Reached(cursor)
    BY DEF Control, Behind, Reached, TypeInv, Cursors
  <2>2. \A i \in 1..(Len(requests) + 1) : Reached(requests'[i].cursor)
    BY <1>3, <2>1 DEF Control, Asked, List
  <2>3. \A i \in 1..Len(handlers) : Reached(handlers[i].cursor)
    BY DEF Control, Asked
  <2> QED BY <1>1, <1>3, <2>2, <2>3 DEF Asked, Reached
<1>7. Epochs'
  BY <1>1, <1>3 DEF Control, Epochs, List
<1>8. Story(H, K)'
  BY <1>1, StillStory
<1> QED BY <1>4, <1>5, <1>6, <1>7, <1>8 DEF Control

LEMMA Drops ==
    ASSUME TypeInv, Control, NEW H, NEW K, Story(H, K), Drop
    PROVE  TypeInv' /\ Control' /\ Story(H, K)'
<1>1. /\ UNCHANGED <<catalog, sequence, handlers, live, epoch, listed, replica, cursor>>
      /\ requests' = <<>> /\ out' = <<>> /\ conn' = FALSE
  BY DEF Drop, daemon, session, client
<1>2. TypeInv'
  BY <1>1, Empty DEF TypeInv
<1>3. InOrder' /\ Behind' /\ Following' /\ Asked' /\ Epochs'
  BY <1>1 DEF Control, InOrder, Behind, Following, Asked, Epochs, Synchronized, At, Pos, Reached
<1>4. Story(H, K)'
  BY <1>1, StillStory
<1> QED BY <1>2, <1>3, <1>4 DEF Control

LEMMA Restarts ==
    ASSUME TypeInv, Control, Restart
    PROVE  TypeInv' /\ Control' /\ \E H, K : Story(H, K)'
<1>1. /\ UNCHANGED <<catalog, epoch, listed, replica, cursor>>
      /\ handlers' = <<>> /\ live' = FALSE
      /\ requests' = <<>> /\ out' = <<>> /\ conn' = FALSE
      /\ sequence' = [generation |-> sequence.generation + 1, head |-> 0, journal |-> <<>>]
  BY DEF Restart, client
<1>2. sequence.generation \in Nat /\ cursor.generation \in Nat
      /\ cursor.generation <= sequence.generation /\ catalog \in Labels
  BY DEF TypeInv, Cursors, Control, Behind
<1>3. TypeInv'
  <2>1. sequence' \in [generation : Nat, head : Nat, journal : Seq(Entries)]
    BY <1>1, <1>2, Empty
  <2>2. handlers' \in Seq(Handlers) /\ requests' \in Seq(Requests) /\ out' \in Seq(Messages)
    BY <1>1, Empty
  <2> QED BY <1>1, <2>1, <2>2 DEF TypeInv
<1>4. cursor'.generation < sequence'.generation
  BY <1>1, <1>2
<1>5. InOrder' /\ Behind' /\ Following' /\ Asked' /\ Epochs'
  BY <1>1, <1>2, <1>4 DEF InOrder, Behind, Following, Asked, Epochs
<1>6. \E H, K : Story(H, K)'
  <2> DEFINE H == [k \in Nat |-> catalog]
  <2>1. History(H, H)'
    BY <1>1, <1>2 DEF History
  <2>2. Journal(H)'
    BY <1>1 DEF Journal
  <2>3. Replica(H)'
    BY <1>1, <1>2, <1>4 DEF Replica
  <2> HIDE DEF H
  <2>4. Story(H, H)'
    BY <1>1, <2>1, <2>2, <2>3 DEF Story
  <2> QED BY <2>4
<1> QED BY <1>3, <1>5, <1>6 DEF Control

LEMMA Connects ==
    ASSUME TypeInv, Control, NEW H, NEW K, Story(H, K), Connect
    PROVE  TypeInv' /\ Control' /\ Story(H, K)'
<1>1. /\ UNCHANGED <<catalog, sequence, out, replica, cursor>>
      /\ epoch' = epoch + 1 /\ listed' = FALSE /\ conn' = TRUE /\ out = <<>>
      /\ requests' = <<List(epoch + 1, cursor)>>
      /\ \/ handlers' = handlers /\ live' = live
         \/ handlers' = <<>> /\ live' = FALSE
  BY DEF Connect, daemon, session, Control, Following
<1>2. /\ requests' \in Seq(Requests) /\ Len(requests') = 1 /\ requests'[1] = List(epoch + 1, cursor)
      /\ epoch \in Nat
  BY <1>1 DEF TypeInv, List, Requests
<1>3. TypeInv'
  <2>1. handlers' \in Seq(Handlers) /\ live' \in BOOLEAN /\ epoch' \in Nat
    <3>1. handlers \in Seq(Handlers) /\ live \in BOOLEAN /\ epoch \in Nat
      BY DEF TypeInv
    <3>2. FALSE \in BOOLEAN
      OBVIOUS
    <3>3. live' \in BOOLEAN
      BY <1>1, <3>1, <3>2, Zenon
    <3>4. handlers' \in Seq(Handlers)
      BY <1>1, <3>1, Empty, Zenon
    <3>5. epoch' \in Nat
      BY <1>1, <3>1
    <3> QED BY <3>3, <3>4, <3>5
  <2>2. out' \in Seq(Messages) /\ conn' \in BOOLEAN /\ listed' \in BOOLEAN
    BY <1>1, Empty
  <2> QED BY <1>1, <1>2, <2>1, <2>2 DEF TypeInv
<1>4. InOrder' /\ Behind' /\ Following'
  BY <1>1 DEF Control, InOrder, Behind, Following, Synchronized, At, Pos
<1>5. Asked'
  <2>1. Reached(cursor)
    BY DEF Control, Behind, Reached, TypeInv, Cursors
  <2>2. \A i \in 1..1 : Reached(requests'[i].cursor)
    BY <1>2, <2>1 DEF List
  <2>3. \A i \in 1..Len(handlers) : Reached(handlers[i].cursor)
    BY DEF Control, Asked
  <2>4. Len(<<>>) = 0
    OBVIOUS
  <2> QED BY <1>1, <1>2, <2>2, <2>3, <2>4 DEF Asked, Reached
<1>6. \A i \in 1..Len(handlers) : handlers[i].epoch \in Nat /\ handlers[i].epoch <= epoch
  <2>1. \A i \in 1..Len(handlers) : handlers[i] \in Handlers
    BY DEF TypeInv
  <2> QED BY <2>1 DEF Control, Handlers, Epochs
<1>7. Epochs'
  BY <1>1, <1>2, <1>6 DEF Epochs, List
<1>8. Story(H, K)'
  <2>1. CASE handlers' = handlers
    BY <1>1, <2>1, StillStory
  <2>2. CASE handlers' = <<>>
    <3>1. History(H, K)' /\ Journal(K)' /\ Replica(H)'
      BY <1>1, Still DEF Story
    <3> QED BY <1>1, <2>2, <3>1 DEF Story
  <2> QED BY <1>1, <2>1, <2>2
<1> QED BY <1>3, <1>4, <1>5, <1>7, <1>8 DEF Control

LEMMA Receives ==
    ASSUME TypeInv, Control, NEW H, NEW K, Story(H, K), Receive
    PROVE  TypeInv' /\ Control' /\ Story(H, K)'
<1> DEFINE q == [epoch |-> requests[1].epoch, cursor |-> requests[1].cursor,
                 pc |-> "queued", snapshot |-> NoSnapshot, pending |-> <<>>]
           n == Len(handlers)
<1>1. /\ UNCHANGED <<catalog, sequence, out, conn, epoch, listed, replica, cursor>>
      /\ live' = FALSE
  BY DEF Receive, daemon, client
<1>2. /\ requests # <<>> /\ q \in Handlers /\ handlers' = Append(handlers, q)
      /\ requests' = Tail(requests) /\ requests' \in Seq(Requests)
  BY ReceiveIs
<1>3. q.pc = "queued" /\ q.pending = <<>> /\ q.cursor = requests[1].cursor /\ q.epoch = requests[1].epoch
  OBVIOUS
<1> HIDE DEF q
<1>4. handlers \in Seq(Handlers) /\ requests \in Seq(Requests)
  BY DEF TypeInv
<1>5. /\ handlers' \in Seq(Handlers) /\ Len(handlers') = n + 1 /\ n \in Nat
      /\ \A i \in 1..n : handlers'[i] = handlers[i]
      /\ handlers'[n + 1] = q
  BY <1>2, <1>4, AppendIs
<1>6. /\ Len(requests) = Len(requests') + 1 /\ Len(requests') \in Nat
      /\ \A i \in 1..Len(requests') : requests'[i] = requests[i + 1]
  BY <1>2, <1>4, TailIs
<1>7. 1 \in 1..Len(requests) /\ \A i \in 1..Len(requests') : i + 1 \in 1..Len(requests)
  BY <1>6
<1>8. \A i \in 1..Len(handlers') : i \in 1..n \/ i = n + 1
  BY <1>5
<1> HIDE DEF n
<1>9. TypeInv'
  BY <1>1, <1>2, <1>5 DEF TypeInv
<1>10. InOrder'
  <2>1. ASSUME NEW i \in 1..n
        PROVE  handlers'[i].pc = handlers[i].pc /\ handlers'[i].snapshot = handlers[i].snapshot
    BY <1>5
  <2>2. \A i, j \in 1..n : i < j /\ handlers[j].pc = "synchronized" =>
           handlers[i].pc = "synchronized" /\ handlers[i].snapshot.at.head <= handlers[j].snapshot.at.head
    BY DEF Control, InOrder, Synchronized, At, n
  <2>3. \A i \in 1..Len(out), j \in 1..n : handlers[j].pc = "synchronized" =>
           Pos(out[i]) <= handlers[j].snapshot.at.head
    BY DEF Control, InOrder, Synchronized, At, n
  <2>4. handlers'[n + 1].pc # "synchronized"
    BY <1>3, <1>5
  <2>5. \A i, j \in 1..(n + 1) : i < j => i \in 1..n
    BY <1>5
  <2>6. (\A i, j \in 1..Len(handlers) : i < j /\ Synchronized(j) => Synchronized(i) /\ At(i) <= At(j))'
    BY <1>5, <1>8, <2>1, <2>2, <2>4, <2>5 DEF Synchronized, At
  <2>7. (\A i \in 1..Len(out), j \in 1..Len(handlers) : Synchronized(j) => Pos(out[i]) <= At(j))'
    BY <1>1, <1>5, <1>8, <2>1, <2>3, <2>4 DEF Synchronized, At, Pos
  <2>8. (\A i, j \in 1..Len(out) : i <= j => Pos(out[i]) <= Pos(out[j]))'
    BY <1>1 DEF Control, InOrder, Pos
  <2>9. (\A j \in 2..Len(out) : out[j].kind = "update" => out[j].seq = Pos(out[j - 1]) + 1)'
    BY <1>1 DEF Control, InOrder, Pos
  <2> QED BY <2>6, <2>7, <2>8, <2>9 DEF InOrder
<1>11. Behind'
  <2>1. \A i \in 1..n : handlers[i].pc = "synchronized" /\ cursor.generation = sequence.generation =>
           cursor.afterSeq <= handlers[i].snapshot.at.head
    BY DEF Control, Behind, Synchronized, At, n
  <2>2. handlers'[n + 1].pc # "synchronized"
    BY <1>3, <1>5
  <2>3. (\A i \in 1..Len(handlers) : Synchronized(i) /\ cursor.generation = sequence.generation =>
           cursor.afterSeq <= At(i))'
    BY <1>1, <1>5, <1>8, <2>1, <2>2 DEF Synchronized, At
  <2> QED BY <1>1, <2>3 DEF Control, Behind, Pos
<1>12. Asked'
  <2>1. \A i \in 1..Len(requests) : Reached(requests[i].cursor)
    BY DEF Control, Asked
  <2>2. \A i \in 1..Len(requests') : Reached(requests'[i].cursor)
    BY <1>6, <1>7, <2>1
  <2>3. \A i \in 1..Len(handlers') : Reached(handlers'[i].cursor)
    BY <1>3, <1>5, <1>7, <1>8, <2>1 DEF Control, Asked, n
  <2> QED BY <1>1, <2>2, <2>3 DEF Asked, Reached
<1>13. Epochs'
  <2>1. q.epoch = epoch
    BY <1>3, <1>7 DEF Control, Epochs
  <2>2. epoch \in Nat
    BY DEF TypeInv
  <2>3. \A i \in 1..Len(requests') : requests'[i].epoch = epoch
    BY <1>6, <1>7 DEF Control, Epochs
  <2>4. \A i \in 1..n : handlers[i].epoch <= epoch
    BY DEF Control, Epochs, n
  <2>5. \A i, j \in 1..n : i < j /\ handlers[i].epoch = epoch => handlers[j].epoch = epoch
    BY DEF Control, Epochs, n
  <2>6. \A i \in 1..Len(out) : out[i].kind = "list" /\ out[i].epoch = epoch =>
           \A j \in 1..n : handlers[j].epoch = epoch
    BY DEF Control, Epochs, n
  <2>7. listed => \A i \in 1..n : handlers[i].epoch = epoch
    BY DEF Control, Epochs, n
  <2>8. \A i \in 1..Len(handlers') : handlers'[i].epoch <= epoch
    BY <1>5, <1>8, <2>1, <2>2, <2>4
  <2>9. \A i, j \in 1..Len(handlers') : i < j /\ handlers'[i].epoch = epoch => handlers'[j].epoch = epoch
    BY <1>5, <1>8, <2>1, <2>5
  <2>10. \A i \in 1..Len(out) : out[i].kind = "list" /\ out[i].epoch = epoch =>
           \A j \in 1..Len(handlers') : handlers'[j].epoch = epoch
    BY <1>5, <1>8, <2>1, <2>6
  <2>11. listed => \A i \in 1..Len(handlers') : handlers'[i].epoch = epoch
    BY <1>5, <1>8, <2>1, <2>7
  <2> QED BY <1>1, <2>3, <2>8, <2>9, <2>10, <2>11 DEF Control, Epochs
<1>14. Following'
  BY <1>1 DEF Control, Following
<1>15. Story(H, K)'
  <2>1. History(H, K)' /\ Journal(K)' /\ Replica(H)'
    BY <1>1, Still DEF Story
  <2>2. (\A i \in 1..Len(out) : Message(H, K, out[i]))'
    BY <1>1, Still DEF Story, Message, Payload
  <2>3. ASSUME NEW i \in 1..Len(handlers') PROVE Handler(H, K, i)'
    <3>1. CASE i = n + 1
      BY <1>3, <1>5, <3>1 DEF Handler, Synchronized
    <3>2. CASE i \in 1..n
      <4>1. handlers'[i] = handlers[i] /\ i # Len(handlers')
        BY <1>5, <3>2
      <4>2. Handler(H, K, i)
        BY <3>2 DEF Story, n
      <4> QED BY <1>1, <4>1, <4>2, Still DEF Handler, Synchronized, At
    <3> QED BY <1>8, <3>1, <3>2
  <2> QED BY <2>1, <2>2, <2>3 DEF Story
<1> QED BY <1>9, <1>10, <1>11, <1>12, <1>13, <1>14, <1>15 DEF Control

LEMMA PosBound ==
    ASSUME TypeInv, NEW H, NEW K, Story(H, K), NEW i \in 1..Len(out)
    PROVE  Pos(out[i]) \in Nat /\ Pos(out[i]) <= sequence.head
<1>1. out[i] \in Messages /\ Message(H, K, out[i])
  BY DEF TypeInv, Story
<1>2. CASE out[i] \in Lists
  BY <1>1, <1>2 DEF Lists, Snapshots, Message, Payload, Pos
<1>3. CASE out[i] \in Updates
  BY <1>1, <1>3 DEF Updates, Message, Pos, TypeInv
<1> QED BY <1>1, <1>2, <1>3 DEF Messages

(* A snapshot taken now brings any replica a request may find to the head.   *)
LEMMA SynchronizePays ==
    ASSUME TypeInv, Behind, NEW H, NEW K, Story(H, K), NEW c \in Cursors, Reached(c)
    PROVE  Payload(H, Synchronize(c)) /\ Synchronize(c).at.head = sequence.head
<1> DEFINE p == Synchronize(c)
<1>1. p.at.generation = sequence.generation /\ p.at.head = sequence.head
  BY DEF Synchronize
<1>2. sequence.head \in Nat /\ cursor \in Cursors
  BY DEF TypeInv
<1>3. CASE CanCatchUp(c)
  <2>1. p.mode = "changes" /\ p.labels = CatchUp(c).upserts /\ p.removals = CatchUp(c).removals
    BY <1>3 DEF Synchronize
  <2>2. Brings(H, CatchUp(c).upserts, CatchUp(c).removals, c.afterSeq, sequence.head)
    BY <1>3, CatchUpBrings DEF Story
  <2>3. cursor.generation = sequence.generation /\ c.afterSeq <= cursor.afterSeq
    BY <1>3 DEF CanCatchUp, Reached
  <2>4. \A k \in cursor.afterSeq..sequence.head : k \in c.afterSeq..sequence.head
    BY <1>2, <2>3 DEF Cursors
  <2>5. Brings(H, p.labels, p.removals, cursor.afterSeq, sequence.head)
    BY <2>1, <2>2, <2>4 DEF Brings
  <2> QED BY <1>1, <1>2, <2>1, <2>3, <2>5 DEF Payload
<1>4. CASE ~CanCatchUp(c)
  <2>1. p.mode = "snapshot" /\ p.labels = catalog /\ p.removals = {}
    BY <1>4 DEF Synchronize
  <2>2. H[sequence.head] = catalog
    BY DEF Story, History
  <2> QED BY <1>1, <1>2, <2>1, <2>2 DEF Payload
<1> QED BY <1>1, <1>3, <1>4

LEMMA Subscribes ==
    ASSUME TypeInv, Control, NEW H, NEW K, Story(H, K), NEW i \in DOMAIN handlers, Subscribe(i)
    PROVE  TypeInv' /\ Control' /\ Story(H, K)'
<1> DEFINE p == Synchronize(handlers[i].cursor)
           n == Len(handlers)
<1>1. UNCHANGED <<catalog, sequence, live, requests, out, conn, epoch, listed, replica, cursor>>
  BY DEF Subscribe, daemon, client
<1>2. /\ i \in 1..n /\ handlers' \in Seq(Handlers) /\ Len(handlers') = n
      /\ \A j \in 1..n : j # i => handlers'[j] = handlers[j]
      /\ handlers'[i] = [handlers[i] EXCEPT !.pc = "synchronized", !.snapshot = p]
  BY SubscribeIs
<1>3. handlers[i] \in Handlers /\ n \in Nat
  BY <1>2 DEF TypeInv
<1>4. /\ handlers'[i].pc = "synchronized" /\ handlers'[i].snapshot = p
      /\ handlers'[i].pending = handlers[i].pending /\ handlers'[i].cursor = handlers[i].cursor
      /\ handlers'[i].epoch = handlers[i].epoch
  <2> HIDE DEF p
  <2> QED BY <1>2, <1>3 DEF Handlers
<1>5. Payload(H, p) /\ p.at.head = sequence.head
  <2>1. handlers[i].cursor \in Cursors /\ Reached(handlers[i].cursor)
    BY <1>2, <1>3 DEF Handlers, Control, Asked
  <2> QED BY <2>1, SynchronizePays DEF Control
<1>6. /\ handlers[i].pc = "queued" /\ handlers[i].pending = <<>>
      /\ \A j \in 1..n : j < i => handlers[j].pc # "queued"
  <2>1. handlers[i].pc = "queued" /\ \A j \in 1..(i - 1) : handlers[j].pc # "queued"
    BY DEF Subscribe
  <2>2. handlers[i].pending = <<>>
    BY <1>2, <2>1 DEF Story, Handler
  <2> QED BY <1>2, <2>1, <2>2
<1> HIDE DEF p
<1>7. sequence.head \in Nat /\ cursor \in Cursors
  BY DEF TypeInv
<1>8. \A j \in 1..n : /\ handlers'[j].cursor = handlers[j].cursor
                      /\ handlers'[j].epoch = handlers[j].epoch
                      /\ handlers'[j].pending = handlers[j].pending
  BY <1>2, <1>4
<1>9. \A j \in 1..n : handlers[j].pc = "synchronized" =>
         handlers[j].snapshot.at.head \in Nat /\ handlers[j].snapshot.at.head <= sequence.head
  <2>1. ASSUME NEW j \in 1..n, handlers[j].pc = "synchronized"
        PROVE  handlers[j].snapshot.at.head \in Nat /\ handlers[j].snapshot.at.head <= sequence.head
    <3>1. handlers[j] \in Handlers /\ Handler(H, K, j)
      BY DEF TypeInv, Story
    <3> QED BY <2>1, <3>1 DEF Handlers, Snapshots, Handler, Synchronized, Payload
  <2> QED BY <2>1
<1>10. \A j, k \in 1..n : j < k /\ handlers[k].pc = "synchronized" =>
           handlers[j].pc = "synchronized" /\ handlers[j].snapshot.at.head <= handlers[k].snapshot.at.head
  BY DEF Control, InOrder, Synchronized, At
<1> HIDE DEF n
<1>11. \A j \in 1..n : j > i => handlers[j].pc # "synchronized"
  BY <1>2, <1>6, <1>10
<1>12. \A j \in 1..n : j < i => handlers[j].pc = "synchronized"
  <2>1. \A j \in 1..n : handlers[j].pc \in {"queued", "synchronized"}
    <3>1. \A j \in 1..n : handlers[j] \in Handlers
      BY DEF TypeInv, n
    <3> QED BY <3>1 DEF Handlers
  <2> QED BY <1>6, <2>1
<1>13. TypeInv'
  BY <1>1, <1>2 DEF TypeInv
<1>14. InOrder'
  <2>1. \A j, k \in 1..n : j < k /\ handlers'[k].pc = "synchronized" =>
           handlers'[j].pc = "synchronized" /\ handlers'[j].snapshot.at.head <= handlers'[k].snapshot.at.head
    <3>1. ASSUME NEW j \in 1..n, NEW k \in 1..n, j < k, handlers'[k].pc = "synchronized"
          PROVE  /\ handlers'[j].pc = "synchronized"
                 /\ handlers'[j].snapshot.at.head <= handlers'[k].snapshot.at.head
      <4>1. CASE k = i
        <5>1. handlers'[j] = handlers[j] /\ handlers[j].pc = "synchronized"
          BY <1>2, <1>3, <1>12, <3>1, <4>1
        <5> QED BY <1>4, <1>5, <1>9, <4>1, <5>1
      <4>2. CASE k # i
        <5>1. handlers'[k] = handlers[k] /\ k < i
          BY <1>2, <1>3, <1>11, <3>1, <4>2
        <5>2. handlers'[j] = handlers[j]
          BY <1>2, <1>3, <3>1, <5>1
        <5> QED BY <1>10, <3>1, <5>1, <5>2
      <4> QED BY <4>1, <4>2
    <3> QED BY <3>1
  <2>2. \A k \in 1..Len(out), j \in 1..n : handlers'[j].pc = "synchronized" =>
           Pos(out[k]) <= handlers'[j].snapshot.at.head
    <3>1. ASSUME NEW k \in 1..Len(out), NEW j \in 1..n, handlers'[j].pc = "synchronized"
          PROVE  Pos(out[k]) <= handlers'[j].snapshot.at.head
      <4>1. CASE j = i
        BY <1>4, <1>5, <4>1, PosBound
      <4>2. CASE j # i
        BY <1>2, <3>1, <4>2 DEF Control, InOrder, Synchronized, At, n
      <4> QED BY <4>1, <4>2
    <3> QED BY <3>1
  <2>3. (\A j, k \in 1..Len(handlers) : j < k /\ Synchronized(k) => Synchronized(j) /\ At(j) <= At(k))'
    BY <1>2, <2>1 DEF Synchronized, At
  <2>4. (\A k \in 1..Len(out), j \in 1..Len(handlers) : Synchronized(j) => Pos(out[k]) <= At(j))'
    BY <1>1, <1>2, <2>2 DEF Synchronized, At, Pos
  <2>5. (\A k, j \in 1..Len(out) : k <= j => Pos(out[k]) <= Pos(out[j]))'
    BY <1>1 DEF Control, InOrder, Pos
  <2>6. (\A j \in 2..Len(out) : out[j].kind = "update" => out[j].seq = Pos(out[j - 1]) + 1)'
    BY <1>1 DEF Control, InOrder, Pos
  <2> QED BY <2>3, <2>4, <2>5, <2>6 DEF InOrder
<1>15. Behind'
  <2>1. \A j \in 1..n : handlers'[j].pc = "synchronized" /\ cursor.generation = sequence.generation =>
           cursor.afterSeq <= handlers'[j].snapshot.at.head
    BY <1>2, <1>4, <1>5 DEF Control, Behind, Synchronized, At, n
  <2>2. (\A j \in 1..Len(handlers) : Synchronized(j) /\ cursor.generation = sequence.generation =>
           cursor.afterSeq <= At(j))'
    BY <1>1, <1>2, <2>1 DEF Synchronized, At
  <2> QED BY <1>1, <2>2 DEF Control, Behind, Pos
<1>16. Asked'
  <2>1. \A j \in 1..Len(handlers') : Reached(handlers'[j].cursor)
    BY <1>2, <1>8 DEF Control, Asked, n
  <2> QED BY <1>1, <2>1 DEF Control, Asked, Reached
<1>17. Epochs'
  BY <1>1, <1>2, <1>8 DEF Control, Epochs, n
<1>18. Following'
  <2>1. handlers # <<>>
    BY <1>2 DEF n
  <2> QED BY <1>1, <2>1 DEF Control, Following, Pos, CaughtUp
<1>19. Story(H, K)'
  <2>1. History(H, K)' /\ Journal(K)' /\ Replica(H)'
    BY <1>1, Still DEF Story
  <2>2. (\A k \in 1..Len(out) : Message(H, K, out[k]))'
    BY <1>1, Still DEF Story, Message, Payload
  <2>3. ASSUME NEW j \in 1..Len(handlers') PROVE Handler(H, K, j)'
    <3>1. CASE j = i
      <4>1. Len(<<>>) = 0
        OBVIOUS
      <4>2. PICK x : x = p
        OBVIOUS
      <4>4. Payload(H, x)'
        BY <1>1, <1>5, <4>2, Still
      <4>3. Len(handlers'[i].pending) = 0 /\ handlers'[i].snapshot.at.head = sequence.head
        BY <1>4, <1>5, <1>6, <4>1
      <4>5. handlers'[i].snapshot = x /\ handlers'[i].pc = "synchronized"
        BY <1>4, <4>2
      <4> QED BY <1>1, <1>7, <3>1, <4>3, <4>4, <4>5 DEF Handler, Synchronized, At
    <3>2. CASE j # i
      <4>1. handlers'[j] = handlers[j] /\ j \in 1..n
        BY <1>2, <3>2
      <4>2. Handler(H, K, j)
        BY <4>1 DEF Story, n
      <4>3. Len(handlers') = Len(handlers)
        BY <1>2 DEF n
      <4>4. \A x : Payload(H, x)' <=> Payload(H, x)
        BY <1>1, Still
      <4>5. \A x : Entry(K, x)' = Entry(K, x)
        BY <1>1, Still
      <4> QED BY <1>1, <4>1, <4>2, <4>3, <4>4, <4>5 DEF Handler, Synchronized, At
    <3> QED BY <3>1, <3>2
  <2> QED BY <2>1, <2>2, <2>3 DEF Story
<1> QED BY <1>13, <1>14, <1>15, <1>16, <1>17, <1>18, <1>19 DEF Control

(* The answer says: the snapshot, then one change after the other, and for   *)
(* the owner of the subscription up to the head.                             *)
LEMMA RespondSends ==
    ASSUME TypeInv, Control, NEW H, NEW K, Story(H, K), Respond
    PROVE  \E ans \in Seq(Messages) :
              /\ out' = IF conn THEN out \o ans ELSE out
              /\ Len(ans) >= 1 /\ ans[1] = ListMessage(handlers[1])
              /\ \A j \in 2..Len(ans) : ans[j] = UpdateMessage(Entry(K, At(1) + (j - 1)))
              /\ At(1) + (Len(ans) - 1) <= sequence.head
              /\ Len(handlers) = 1 => At(1) + (Len(ans) - 1) = sequence.head
              /\ Len(handlers) # 1 => Len(ans) = 1
<1> DEFINE h == handlers[1]
           n == Len(h.pending)
           Says(ans) ==
              /\ out' = IF conn THEN out \o ans ELSE out
              /\ Len(ans) >= 1 /\ ans[1] = ListMessage(handlers[1])
              /\ \A j \in 2..Len(ans) : ans[j] = UpdateMessage(Entry(K, At(1) + (j - 1)))
              /\ At(1) + (Len(ans) - 1) <= sequence.head
              /\ Len(handlers) = 1 => At(1) + (Len(ans) - 1) = sequence.head
              /\ Len(handlers) # 1 => Len(ans) = 1
<1> SUFFICES \E ans \in Seq(Messages) : Says(ans)
  OBVIOUS
<1>1. handlers # <<>> /\ h.pc = "synchronized" /\ 1 \in 1..Len(handlers) /\ h \in Handlers
  <2>1. handlers # <<>> /\ h.pc = "synchronized" /\ handlers \in Seq(Handlers)
    BY DEF Respond, TypeInv
  <2> QED BY <2>1, EmptySeq
<1>2. /\ \A j \in 1..n : h.pending[j] = Entry(K, At(1) + j)
      /\ At(1) + n <= sequence.head
      /\ Len(handlers) = 1 => At(1) + n = sequence.head
      /\ At(1) <= sequence.head
  BY <1>1 DEF Story, Handler, Synchronized, Payload, At
<1>3. n \in Nat /\ At(1) \in Nat /\ h.snapshot.at.head = At(1) /\ h.snapshot \in Snapshots
      /\ h.epoch \in Nat /\ sequence.head \in Nat
  <2>1. h.snapshot \in Snapshots /\ h.epoch \in Nat /\ h.pending \in Seq(Entries)
    BY <1>1 DEF Handlers
  <2>2. h.snapshot.at.head \in Nat
    BY <2>1 DEF Snapshots
  <2>3. sequence.head \in Nat
    BY DEF TypeInv
  <2> QED BY <2>1, <2>2, <2>3 DEF At
<1>4. CASE Len(handlers) = 1
  <2>1. Emit(Answer(h))
    BY <1>4 DEF Respond
  <2>2. ASSUME NEW j \in 1..n PROVE h.pending[j].seq > h.snapshot.at.head
    <3>1. h.pending[j] = Entry(K, At(1) + j) /\ Entry(K, At(1) + j).seq = At(1) + j
      BY <1>2 DEF Entry
    <3> QED BY <1>3, <3>1
  <2>3. /\ Answer(h) \in Seq(Messages) /\ Len(Answer(h)) = n + 1 /\ Answer(h)[1] = ListMessage(h)
        /\ \A j \in 1..n : Answer(h)[j + 1] = UpdateMessage(h.pending[j])
    BY <1>1, <2>2, AnswerIs
  <2> DEFINE ans == Answer(h)
  <2> HIDE DEF ans
  <2>4. ASSUME NEW j \in 2..(n + 1) PROVE ans[j] = UpdateMessage(Entry(K, At(1) + (j - 1)))
    <3>1. j - 1 \in 1..n /\ (j - 1) + 1 = j
      BY <1>3
    <3>2. ans[(j - 1) + 1] = UpdateMessage(h.pending[j - 1])
      BY <2>3, <3>1 DEF ans
    <3> QED BY <1>2, <3>1, <3>2
  <2>5. out' = IF conn THEN out \o ans ELSE out
    BY <2>1 DEF Emit, ans
  <2>6. ans \in Seq(Messages) /\ Len(ans) = n + 1 /\ ans[1] = ListMessage(handlers[1])
    BY <2>3 DEF ans
  <2>7. At(1) + (Len(ans) - 1) = sequence.head /\ Len(ans) >= 1
    BY <1>2, <1>3, <1>4, <2>6
  <2>8. \A j \in 2..Len(ans) : ans[j] = UpdateMessage(Entry(K, At(1) + (j - 1)))
    BY <2>4, <2>6
  <2>9. Says(ans)
    BY <1>3, <1>4, <2>5, <2>6, <2>7, <2>8
  <2> HIDE DEF Says
  <2> QED BY <2>6, <2>9
<1>5. CASE Len(handlers) # 1
  <2>1. Emit(<<ListMessage(h)>>)
    BY <1>5 DEF Respond
  <2>2. ListMessage(h) \in Messages
    BY <1>3 DEF ListMessage, Messages, Lists
  <2> DEFINE ans == <<ListMessage(h)>>
  <2>3. ans \in Seq(Messages) /\ Len(ans) = 1 /\ ans[1] = ListMessage(handlers[1])
    BY <2>2
  <2>4. out' = IF conn THEN out \o ans ELSE out
    BY <2>1 DEF Emit
  <2> HIDE DEF ans
  <2>5. At(1) + (Len(ans) - 1) = At(1)
    BY <1>3, <2>3
  <2>6. 2..Len(ans) = {}
    BY <2>3
  <2>7. Says(ans)
    BY <1>2, <1>5, <2>3, <2>4, <2>5, <2>6
  <2> HIDE DEF Says
  <2> QED BY <2>3, <2>7
<1> QED BY <1>4, <1>5

LEMMA RespondShifts ==
    ASSUME TypeInv, Respond
    PROVE  /\ handlers' \in Seq(Handlers) /\ Len(handlers) = Len(handlers') + 1
           /\ Len(handlers') \in Nat
           /\ \A j \in 1..Len(handlers') :
                 j + 1 \in 1..Len(handlers) /\ handlers'[j] = handlers[j + 1]
           /\ 1 \in 1..Len(handlers) /\ handlers[1].pc = "synchronized" /\ handlers[1] \in Handlers
<1>1. handlers # <<>> /\ handlers' = Tail(handlers) /\ handlers[1].pc = "synchronized"
      /\ handlers \in Seq(Handlers)
  BY DEF Respond, TypeInv
<1>2. /\ handlers' \in Seq(Handlers) /\ Len(handlers) = Len(handlers') + 1 /\ Len(handlers') \in Nat
      /\ \A j \in 1..Len(handlers') : handlers'[j] = handlers[j + 1]
      /\ handlers[1] \in Handlers
  BY <1>1, TailIs
<1> QED BY <1>1, <1>2

(* What is said of the handlers goes for those behind the first.             *)
LEMMA RespondHandlers ==
    ASSUME TypeInv, Control, NEW H, NEW K, Story(H, K), Respond
    PROVE  /\ (\A i, j \in 1..Len(handlers) : i < j /\ Synchronized(j) => Synchronized(i) /\ At(i) <= At(j))'
           /\ (\A i \in 1..Len(handlers) : Synchronized(i) /\ cursor.generation = sequence.generation =>
                   cursor.afterSeq <= At(i))'
           /\ Asked'
           /\ (\A i \in 1..Len(handlers) : Handler(H, K, i))'
<1> DEFINE m == Len(handlers')
<1>1. /\ Len(handlers) = m + 1 /\ m \in Nat
      /\ \A j \in 1..m : j + 1 \in 1..Len(handlers) /\ handlers'[j] = handlers[j + 1]
  BY RespondShifts
<1>2. UNCHANGED <<catalog, sequence, requests, conn, epoch, listed, replica, cursor>>
  BY DEF Respond, daemon, client
<1>3. (\A i, j \in 1..Len(handlers) : i < j /\ Synchronized(j) => Synchronized(i) /\ At(i) <= At(j))'
  <2>1. ASSUME NEW i \in 1..m, NEW j \in 1..m, i < j, Synchronized(j + 1)
        PROVE  Synchronized(i + 1) /\ At(i + 1) <= At(j + 1)
    <3>1. i + 1 \in 1..Len(handlers) /\ j + 1 \in 1..Len(handlers) /\ i + 1 < j + 1
      BY <1>1, <2>1
    <3> QED BY <2>1, <3>1 DEF Control, InOrder
  <2> QED BY <1>1, <2>1 DEF Synchronized, At
<1>4. (\A i \in 1..Len(handlers) : Synchronized(i) /\ cursor.generation = sequence.generation =>
           cursor.afterSeq <= At(i))'
  BY <1>1, <1>2 DEF Control, Behind, Synchronized, At
<1>5. Asked'
  BY <1>1, <1>2 DEF Control, Asked, Reached
<1>6. ASSUME NEW i \in 1..m PROVE Handler(H, K, i)'
  <2>1. Handler(H, K, i + 1) /\ handlers'[i] = handlers[i + 1]
    BY <1>1 DEF Story
  <2>2. i = m <=> i + 1 = Len(handlers)
    BY <1>1
  <2>3. \A x : Payload(H, x)' <=> Payload(H, x)
    BY <1>2, Still
  <2>4. \A x : Entry(K, x)' = Entry(K, x)
    BY <1>2, Still
  <2> QED BY <1>2, <2>1, <2>2, <2>3, <2>4 DEF Handler, Synchronized, At
<1> QED BY <1>3, <1>4, <1>5, <1>6

LEMMA RespondEpochs ==
    ASSUME TypeInv, Epochs, Respond
    PROVE  /\ \A i \in 1..Len(handlers') : handlers'[i].epoch <= epoch
           /\ \A i, j \in 1..Len(handlers') :
                 i < j /\ handlers'[i].epoch = epoch => handlers'[j].epoch = epoch
           /\ \A i \in 1..Len(out) : out[i].kind = "list" /\ out[i].epoch = epoch =>
                 \A j \in 1..Len(handlers') : handlers'[j].epoch = epoch
           /\ handlers[1].epoch = epoch => \A i \in 1..Len(handlers') : handlers'[i].epoch = epoch
           /\ listed => \A i \in 1..Len(handlers') : handlers'[i].epoch = epoch
<1> DEFINE m == Len(handlers')
<1>1. /\ Len(handlers) = m + 1 /\ m \in Nat /\ 1 \in 1..Len(handlers)
      /\ \A j \in 1..m : j + 1 \in 1..Len(handlers) /\ handlers'[j] = handlers[j + 1]
  BY RespondShifts
<1> HIDE DEF m
<1>2. \A i \in 1..m : handlers'[i].epoch <= epoch
  BY <1>1 DEF Epochs
<1>3. ASSUME NEW i \in 1..m, NEW j \in 1..m, i < j, handlers'[i].epoch = epoch
      PROVE  handlers'[j].epoch = epoch
  <2>1. i + 1 < j + 1 /\ handlers[i + 1].epoch = epoch
    BY <1>1, <1>3
  <2> QED BY <1>1, <2>1 DEF Epochs
<1>4. \A i \in 1..Len(out) : out[i].kind = "list" /\ out[i].epoch = epoch =>
         \A j \in 1..m : handlers'[j].epoch = epoch
  BY <1>1 DEF Epochs
<1>5. ASSUME NEW i \in 1..m, handlers[1].epoch = epoch PROVE handlers'[i].epoch = epoch
  <2>1. 1 < i + 1 /\ i + 1 \in 1..Len(handlers) /\ handlers'[i] = handlers[i + 1]
    BY <1>1
  <2> QED BY <1>1, <1>5, <2>1 DEF Epochs
<1>6. listed => \A i \in 1..m : handlers'[i].epoch = epoch
  BY <1>1 DEF Epochs
<1> QED BY <1>2, <1>3, <1>4, <1>5, <1>6 DEF m

LEMMA RespondsUnheard ==
    ASSUME TypeInv, Control, NEW H, NEW K, Story(H, K), Respond, ~conn
    PROVE  TypeInv' /\ Control' /\ Story(H, K)'
<1>1. /\ UNCHANGED <<catalog, sequence, requests, conn, epoch, listed, replica, cursor>>
      /\ out = <<>> /\ out' = <<>>
  BY DEF Respond, daemon, client, Control, Following, Emit
<1>2. /\ handlers' \in Seq(Handlers) /\ Len(handlers) = Len(handlers') + 1 /\ Len(handlers') \in Nat
      /\ \A j \in 1..Len(handlers') : j + 1 \in 1..Len(handlers) /\ handlers'[j] = handlers[j + 1]
      /\ handlers # <<>>
  BY RespondShifts DEF Respond
<1>3. live' \in BOOLEAN /\ (live' => handlers' = <<>>)
  <2>1. live = FALSE
    BY <1>2 DEF Control, Following, TypeInv
  <2>2. CASE Len(handlers) = 1
    BY <1>2, <2>2, EmptySeq DEF Respond
  <2>3. CASE Len(handlers) # 1
    <3>1. live' = live
      BY <2>3 DEF Respond
    <3> QED BY <2>1, <3>1
  <2> QED BY <2>2, <2>3
<1>4. TypeInv'
  BY <1>1, <1>2, <1>3, Empty DEF TypeInv
<1>5. InOrder' /\ Behind' /\ Asked'
  BY <1>1, RespondHandlers DEF InOrder, Behind, Control
<1>6. Epochs'
  BY <1>1, RespondEpochs DEF Control, Epochs
<1>7. Following'
  BY <1>1, <1>3 DEF Following
<1>8. Story(H, K)'
  <2>1. History(H, K)' /\ Journal(K)' /\ Replica(H)'
    BY <1>1, Still DEF Story
  <2> QED BY <1>1, <2>1, RespondHandlers DEF Story
<1> QED BY <1>4, <1>5, <1>6, <1>7, <1>8 DEF Control

LEMMA RespondsHeard ==
    ASSUME TypeInv, Control, NEW H, NEW K, Story(H, K), Respond, conn
    PROVE  TypeInv' /\ Control' /\ Story(H, K)'
<1> DEFINE N == Len(out)
           at == At(1)
           h == handlers[1]
<1>1. UNCHANGED <<catalog, sequence, requests, conn, epoch, listed, replica, cursor>>
  BY DEF Respond, daemon, client
<1>2. /\ handlers' \in Seq(Handlers) /\ Len(handlers) = Len(handlers') + 1 /\ Len(handlers') \in Nat
      /\ \A j \in 1..Len(handlers') : j + 1 \in 1..Len(handlers) /\ handlers'[j] = handlers[j + 1]
      /\ 1 \in 1..Len(handlers) /\ h.pc = "synchronized" /\ h \in Handlers
  BY RespondShifts
<1>3. PICK ans \in Seq(Messages) :
         /\ out' = IF conn THEN out \o ans ELSE out
         /\ Len(ans) >= 1 /\ ans[1] = ListMessage(h)
         /\ \A j \in 2..Len(ans) : ans[j] = UpdateMessage(Entry(K, at + (j - 1)))
         /\ at + (Len(ans) - 1) <= sequence.head
         /\ Len(handlers) = 1 => at + (Len(ans) - 1) = sequence.head
         /\ Len(handlers) # 1 => Len(ans) = 1
  BY RespondSends
<1> DEFINE L == Len(ans)
<1>4. /\ out' \in Seq(Messages) /\ Len(out') = N + L /\ N \in Nat /\ L \in Nat /\ L >= 1
      /\ \A i \in 1..N : out'[i] = out[i]
      /\ \A j \in 1..L : out'[N + j] = ans[j]
  <2>1. out \in Seq(Messages) /\ out' = out \o ans
    BY <1>3 DEF TypeInv
  <2> QED BY <1>3, <2>1, ConcatProperties, LenProperties
<1>5. /\ Payload(H, h.snapshot) /\ at \in Nat /\ at <= sequence.head /\ sequence.head \in Nat
      /\ h.snapshot.at.head = at
  <2>1. Handler(H, K, 1)
    BY <1>2 DEF Story
  <2>2. h.snapshot \in Snapshots
    BY <1>2 DEF Handlers
  <2>3. h.snapshot.at.head \in Nat /\ sequence.head \in Nat
    BY <2>2 DEF Snapshots, TypeInv
  <2> QED BY <1>2, <2>1, <2>3 DEF Handler, Synchronized, Payload, At
<1>6. \A i \in 1..N : Pos(out[i]) \in Nat /\ Pos(out[i]) <= at
  BY <1>2, PosBound DEF Control, InOrder, Synchronized
<1>7. /\ ans[1].kind = "list" /\ ans[1].epoch = h.epoch /\ ans[1].payload = h.snapshot
      /\ Pos(ans[1]) = at
  BY <1>3, <1>5 DEF ListMessage, Pos
<1>8. \A j \in 2..L : /\ ans[j].kind = "update" /\ ans[j].seq = at + (j - 1)
                      /\ ans[j].generation = sequence.generation /\ ans[j].change = K[at + (j - 1)]
                      /\ Pos(ans[j]) = at + (j - 1)
  <2>1. \A k : UpdateMessage(Entry(K, k)) =
           [kind |-> "update", generation |-> sequence.generation, seq |-> k, change |-> K[k]]
    BY DEF UpdateMessage, Entry
  <2>2. ASSUME NEW j \in 2..L, NEW k, k = at + (j - 1)
        PROVE  ans[j] = [kind |-> "update", generation |-> sequence.generation, seq |-> k, change |-> K[k]]
    BY <1>3, <2>1, <2>2
  <2>3. ASSUME NEW j \in 2..L
        PROVE  /\ ans[j].kind = "update" /\ ans[j].seq = at + (j - 1)
               /\ ans[j].generation = sequence.generation /\ ans[j].change = K[at + (j - 1)]
    <3> DEFINE k == at + (j - 1)
    <3>1. ans[j] = [kind |-> "update", generation |-> sequence.generation, seq |-> k, change |-> K[k]]
      BY <2>2
    <3> HIDE DEF k
    <3>2. /\ ans[j].kind = "update" /\ ans[j].seq = k
          /\ ans[j].generation = sequence.generation /\ ans[j].change = K[k]
      BY <3>1
    <3> QED BY <3>2 DEF k
  <2> QED BY <2>3 DEF Pos
<1>9. \A j \in 1..L : j = 1 \/ j \in 2..L
  BY <1>4
<1>10. \A j \in 1..L : Pos(ans[j]) = at + (j - 1)
  <2>1. at + (1 - 1) = at
    BY <1>5
  <2> QED BY <1>7, <1>8, <1>9, <2>1
<1>11. \A i \in 1..Len(out') : i \in 1..N \/ (i - N \in 1..L /\ out'[i] = ans[i - N])
  <2>1. ASSUME NEW i \in 1..Len(out'), i \notin 1..N PROVE i - N \in 1..L /\ out'[i] = ans[i - N]
    <3>1. i - N \in 1..L /\ N + (i - N) = i
      BY <1>4, <2>1
    <3> QED BY <1>4, <3>1
  <2> QED BY <2>1
<1>12. live = FALSE
  <2>1. handlers # <<>>
    BY <1>2
  <2> QED BY <2>1 DEF Control, Following, TypeInv
<1>13. live' \in BOOLEAN /\ (live' => handlers' = <<>> /\ Len(handlers) = 1)
  <2>1. CASE Len(handlers) = 1
    BY <1>2, <2>1, EmptySeq DEF Respond
  <2>2. CASE Len(handlers) # 1
    <3>1. live' = live
      BY <2>2 DEF Respond
    <3> QED BY <1>12, <3>1
  <2> QED BY <2>1, <2>2
<1>14. h.epoch \in Nat /\ epoch \in Nat /\ h.epoch <= epoch
  <2>1. h.epoch \in Nat
    BY <1>2 DEF Handlers
  <2> QED BY <1>2, <2>1 DEF Control, Epochs, TypeInv
<1>15. TypeInv'
  BY <1>1, <1>2, <1>4, <1>13 DEF TypeInv
<1> HIDE DEF N, L, at, h
<1>16. InOrder'
  <2>1. ASSUME NEW i \in 1..Len(out'), NEW j \in 1..Len(out'), i <= j
        PROVE  Pos(out'[i]) <= Pos(out'[j])
    <3>1. CASE j \in 1..N
      <4>1. i \in 1..N
        BY <1>4, <2>1, <3>1
      <4>2. Pos(out[i]) <= Pos(out[j])
        BY <2>1, <3>1, <4>1 DEF Control, InOrder, N
      <4> QED BY <1>4, <3>1, <4>1, <4>2
    <3>2. CASE j \notin 1..N
      <4> DEFINE k == j - N
      <4>1. k \in 1..L /\ Pos(out'[j]) = at + (k - 1)
        BY <1>10, <1>11, <3>2
      <4>2. CASE i \in 1..N
        <5>1. out'[i] = out[i] /\ Pos(out[i]) \in Nat /\ Pos(out[i]) <= at
          BY <1>4, <1>6, <4>2
        <5> HIDE DEF k
        <5> QED BY <1>4, <1>5, <4>1, <5>1
      <4>3. CASE i \notin 1..N
        <5> DEFINE l == i - N
        <5>1. l \in 1..L /\ Pos(out'[i]) = at + (l - 1)
          BY <1>10, <1>11, <4>3
        <5>2. l <= k
          BY <1>4, <2>1
        <5> HIDE DEF k, l
        <5> QED BY <1>4, <1>5, <4>1, <5>1, <5>2
      <4> QED BY <4>2, <4>3
    <3> QED BY <3>1, <3>2
  <2>2. ASSUME NEW j \in 2..Len(out'), out'[j].kind = "update"
        PROVE  out'[j].seq = Pos(out'[j - 1]) + 1
    <3>1. CASE j \in 1..N
      <4>1. j \in 2..N /\ j - 1 \in 1..N
        BY <1>4, <2>2, <3>1
      <4> QED BY <1>4, <2>2, <4>1 DEF Control, InOrder, N
    <3>2. CASE j \notin 1..N
      <4> DEFINE k == j - N
      <4>1. k \in 1..L /\ out'[j] = ans[k]
        BY <1>4, <1>11, <3>2
      <4>2. k # 1
        BY <1>7, <2>2, <4>1
      <4>3. k \in 2..L /\ k - 1 \in 1..L /\ N + (k - 1) = j - 1
        BY <1>4, <4>1, <4>2
      <4>4. out'[j - 1] = ans[k - 1]
        BY <1>4, <4>3
      <4>5. out'[j].seq = at + (k - 1) /\ Pos(out'[j - 1]) = at + ((k - 1) - 1)
        BY <1>8, <1>10, <4>1, <4>3, <4>4
      <4>6. k \in Nat
        BY <4>1
      <4> HIDE DEF k
      <4> QED BY <1>5, <4>5, <4>6
    <3> QED BY <3>1, <3>2
  <2>3. ASSUME NEW i \in 1..Len(out'), NEW j \in 1..Len(handlers'), handlers'[j].pc = "synchronized"
        PROVE  Pos(out'[i]) <= handlers'[j].snapshot.at.head
    <3>1. j + 1 \in 1..Len(handlers) /\ handlers'[j] = handlers[j + 1] /\ 1 < j + 1
      BY <1>2
    <3>2. at <= handlers'[j].snapshot.at.head
      <4>1. Synchronized(j + 1)
        BY <2>3, <3>1 DEF Synchronized
      <4> QED BY <1>2, <3>1, <4>1 DEF Control, InOrder, At, at
    <3>3. L = 1
      BY <1>2, <1>3, <3>1 DEF L
    <3>4. handlers'[j].snapshot.at.head \in Nat
      <4>1. handlers'[j] \in Handlers
        BY <1>2
      <4> QED BY <4>1 DEF Handlers, Snapshots
    <3>5. Pos(out'[i]) \in Nat /\ Pos(out'[i]) <= at
      BY <1>4, <1>5, <1>6, <1>7, <1>11, <3>3
    <3> QED BY <1>5, <3>2, <3>4, <3>5
  <2>4. (\A i, j \in 1..Len(out) : i <= j => Pos(out[i]) <= Pos(out[j]))'
    BY <2>1 DEF Pos
  <2>5. (\A j \in 2..Len(out) : out[j].kind = "update" => out[j].seq = Pos(out[j - 1]) + 1)'
    BY <2>2 DEF Pos
  <2>6. (\A i \in 1..Len(out), j \in 1..Len(handlers) : Synchronized(j) => Pos(out[i]) <= At(j))'
    BY <2>3 DEF Pos, Synchronized, At
  <2> QED BY <2>4, <2>5, <2>6, RespondHandlers DEF InOrder
<1>17. Behind'
  <2>1. ASSUME NEW i \in 1..Len(out'), cursor.generation = sequence.generation
        PROVE  cursor.afterSeq <= Pos(out'[i])
    <3>1. CASE i \in 1..N
      BY <1>4, <2>1, <3>1 DEF Control, Behind, N
    <3>2. CASE i \notin 1..N
      <4>1. cursor.afterSeq <= at /\ cursor.afterSeq \in Nat
        BY <1>2, <2>1 DEF Control, Behind, Synchronized, at, h, TypeInv, Cursors
      <4>2. i - N \in 1..L /\ Pos(out'[i]) = at + ((i - N) - 1)
        BY <1>10, <1>11, <3>2
      <4> QED BY <1>4, <1>5, <4>1, <4>2
    <3> QED BY <3>1, <3>2
  <2>2. (\A i \in 1..Len(out) : cursor.generation = sequence.generation =>
            cursor.afterSeq <= Pos(out[i]))'
    BY <1>1, <2>1 DEF Pos
  <2> QED BY <1>1, <2>2, RespondHandlers DEF Control, Behind
<1>18. Epochs'
  <2>1. ASSUME NEW i \in 1..Len(out'), out'[i].kind = "list"
        PROVE  /\ i \in 1..N \/ (i = N + 1 /\ out'[i].epoch = h.epoch)
               /\ out'[i].epoch <= epoch
    <3>1. CASE i \in 1..N
      BY <1>4, <2>1, <3>1 DEF Control, Epochs, N
    <3>2. CASE i \notin 1..N
      <4>1. i - N \in 1..L /\ out'[i] = ans[i - N]
        BY <1>11, <3>2
      <4>2. i - N = 1
        BY <1>8, <1>9, <2>1, <4>1
      <4> QED BY <1>4, <1>7, <1>14, <4>1, <4>2
    <3> QED BY <3>1, <3>2
  <2>2. ASSUME NEW i \in 1..Len(out'), out'[i].kind = "list", out'[i].epoch = epoch
        PROVE  /\ \A j \in 1..Len(out') : i < j /\ out'[j].kind = "list" => out'[j].epoch = epoch
               /\ \A j \in 1..Len(handlers') : handlers'[j].epoch = epoch
    <3>1. CASE i \in 1..N
      <4>1. /\ \A j \in 1..N : i < j /\ out[j].kind = "list" => out[j].epoch = epoch
            /\ \A j \in 1..Len(handlers) : handlers[j].epoch = epoch
        BY <1>4, <2>2, <3>1 DEF Control, Epochs, N
      <4>2. h.epoch = epoch
        BY <1>2, <4>1 DEF h
      <4>3. \A j \in 1..Len(handlers') : handlers'[j].epoch = epoch
        BY <1>2, <4>1
      <4>4. ASSUME NEW j \in 1..Len(out'), i < j, out'[j].kind = "list" PROVE out'[j].epoch = epoch
        <5>1. CASE j \in 1..N
          BY <1>4, <4>1, <4>4, <5>1
        <5>2. CASE j \notin 1..N
          BY <2>1, <4>2, <4>4, <5>2
        <5> QED BY <5>1, <5>2
      <4> QED BY <4>3, <4>4
    <3>2. CASE i \notin 1..N
      <4>1. i = N + 1 /\ h.epoch = epoch
        BY <2>1, <2>2, <3>2
      <4>2. \A j \in 1..Len(out') : ~(i < j /\ out'[j].kind = "list")
        BY <1>4, <2>1, <4>1
      <4>3. \A j \in 1..Len(handlers') : handlers'[j].epoch = epoch
        BY <4>1, RespondEpochs DEF Control, h
      <4> QED BY <4>2, <4>3
    <3> QED BY <3>1, <3>2
  <2>3. ASSUME listed, NEW i \in 1..Len(out'), out'[i].kind = "list" PROVE out'[i].epoch = epoch
    <3>1. h.epoch = epoch
      BY <1>2, <2>3 DEF Control, Epochs, h
    <3> QED BY <1>4, <2>1, <2>3, <3>1 DEF Control, Epochs, N
  <2> QED BY <1>1, <2>1, <2>2, <2>3, RespondEpochs DEF Control, Epochs
<1>19. Following'
  <2>1. ASSUME listed, out'[1].kind = "update"
        PROVE  cursor.generation = sequence.generation /\ out'[1].seq = cursor.afterSeq + 1
    <3>1. N # 0
      <4>1. N = 0 => out'[N + 1] = ans[1] /\ N + 1 = 1
        BY <1>4
      <4> QED BY <1>7, <2>1, <4>1
    <3>2. 1 \in 1..N /\ out'[1] = out[1] /\ out # <<>>
      BY <1>4, <3>1 DEF N
    <3> QED BY <2>1, <3>2 DEF Control, Following
  <2>2. ASSUME live' PROVE Pos(out'[Len(out')]) = sequence.head
    <3>1. L \in 1..L /\ at + (L - 1) = sequence.head
      BY <1>3, <1>4, <1>13, <2>2 DEF L
    <3> QED BY <1>4, <1>10, <3>1
  <2>3. out' # <<>>
    BY <1>4
  <2> QED BY <1>1, <1>13, <2>1, <2>2, <2>3 DEF Following, Pos
<1>20. Story(H, K)'
  <2>1. History(H, K)' /\ Journal(K)' /\ Replica(H)'
    BY <1>1, Still DEF Story
  <2>2. ASSUME NEW i \in 1..Len(out') PROVE Message(H, K, out'[i])
    <3>1. CASE i \in 1..N
      BY <1>4, <3>1 DEF Story, N
    <3>2. CASE i \notin 1..N
      <4>1. i - N \in 1..L /\ out'[i] = ans[i - N]
        BY <1>11, <3>2
      <4>2. CASE i - N = 1
        BY <1>5, <1>7, <4>1, <4>2 DEF Message
      <4>3. CASE i - N \in 2..L
        <5> DEFINE s == at + ((i - N) - 1)
        <5>1. /\ out'[i].kind = "update" /\ out'[i].seq = s
              /\ out'[i].generation = sequence.generation /\ out'[i].change = K[s]
          BY <1>8, <4>1, <4>3
        <5>2. s \in 1..sequence.head
          BY <1>3, <1>4, <1>5, <4>3 DEF L
        <5> HIDE DEF s
        <5> QED BY <5>1, <5>2 DEF Message
      <4> QED BY <1>9, <4>1, <4>2, <4>3
    <3> QED BY <3>1, <3>2
  <2>3. (\A i \in 1..Len(out) : Message(H, K, out[i]))'
    <3>1. ASSUME NEW x, Message(H, K, x) PROVE Message(H, K, x)'
      BY <1>1, <3>1, Still
    <3> QED BY <2>2, <3>1 DEF Message
  <2> QED BY <2>1, <2>3, RespondHandlers DEF Story
<1> QED BY <1>15, <1>16, <1>17, <1>18, <1>19, <1>20, RespondHandlers DEF Control

(* What is left of the messages when the first is taken.                     *)
LEMMA Shifts ==
    ASSUME TypeInv, Deliver
    PROVE  /\ UNCHANGED <<catalog, sequence, handlers, live, conn, epoch>>
           /\ out # <<>> /\ out[1] \in Messages /\ Head(out) = out[1]
           /\ Len(out) = Len(out') + 1 /\ Len(out') \in Nat /\ 1 \in 1..Len(out)
           /\ \A i \in 1..Len(out') : i + 1 \in 1..Len(out) /\ out'[i] = out[i + 1]
           /\ out' = <<>> <=> Len(out') = 0
           /\ out' \in Seq(Messages)
<1>1. UNCHANGED <<catalog, sequence, handlers, live, conn, epoch>>
      /\ out # <<>> /\ out' = Tail(out) /\ out \in Seq(Messages)
  BY DEF Deliver, daemon, session, TypeInv
<1>2. /\ out' \in Seq(Messages) /\ Len(out) = Len(out') + 1 /\ Len(out') \in Nat
      /\ Head(out) = out[1] /\ out[1] \in Messages
      /\ \A i \in 1..Len(out') : out'[i] = out[i + 1]
  BY <1>1, TailIs
<1>3. out' = <<>> <=> Len(out') = 0
  BY <1>2, EmptySeq
<1> QED BY <1>1, <1>2, <1>3

LEMMA DeliverInOrder ==
    ASSUME TypeInv, Control, Deliver
    PROVE  /\ InOrder'
           /\ \A i \in 1..Len(out') : Pos(out[1]) <= Pos(out'[i])
           /\ out' # <<>> /\ out'[1].kind = "update" => out'[1].seq = Pos(out[1]) + 1
           /\ live /\ conn /\ out' = <<>> => Pos(out[1]) = sequence.head
           /\ live /\ conn /\ out' # <<>> => Pos(out'[Len(out')]) = sequence.head
<1> DEFINE n == Len(out')
<1>1. /\ UNCHANGED handlers /\ out # <<>>
      /\ Len(out) = n + 1 /\ n \in Nat /\ 1 \in 1..Len(out)
      /\ \A i \in 1..n : i + 1 \in 1..Len(out) /\ out'[i] = out[i + 1]
      /\ out' = <<>> <=> n = 0
  BY Shifts
<1> HIDE DEF n
<1>2. ASSUME NEW i \in 1..n, NEW j \in 1..n, i <= j PROVE Pos(out'[i]) <= Pos(out'[j])
  <2>1. i + 1 <= j + 1
    BY <1>1, <1>2
  <2> QED BY <1>1, <2>1 DEF Control, InOrder
<1>3. ASSUME NEW j \in 2..n, out'[j].kind = "update" PROVE out'[j].seq = Pos(out'[j - 1]) + 1
  <2> DEFINE k == j + 1
  <2>1. j \in 1..n /\ j - 1 \in 1..n /\ k \in 2..Len(out) /\ (j - 1) + 1 = j /\ k - 1 = j
    BY <1>1
  <2>2. out'[j] = out[k] /\ out'[j - 1] = out[j]
    BY <1>1, <2>1
  <2>3. out[k].seq = Pos(out[k - 1]) + 1
    <3> HIDE DEF k
    <3> QED BY <1>3, <2>1, <2>2 DEF Control, InOrder
  <2> QED BY <2>1, <2>2, <2>3
<1>4. ASSUME NEW i \in 1..n, NEW j \in 1..Len(handlers), Synchronized(j) PROVE Pos(out'[i]) <= At(j)
  BY <1>1, <1>4 DEF Control, InOrder
<1>5. InOrder'
  <2>1. (\A i, j \in 1..Len(out) : i <= j => Pos(out[i]) <= Pos(out[j]))'
    BY <1>2 DEF Pos, n
  <2>2. (\A j \in 2..Len(out) : out[j].kind = "update" => out[j].seq = Pos(out[j - 1]) + 1)'
    BY <1>3 DEF Pos, n
  <2>3. (\A i \in 1..Len(out), j \in 1..Len(handlers) : Synchronized(j) => Pos(out[i]) <= At(j))'
    BY <1>1, <1>4 DEF Pos, Synchronized, At, n
  <2>4. (\A i, j \in 1..Len(handlers) : i < j /\ Synchronized(j) => Synchronized(i) /\ At(i) <= At(j))'
    BY <1>1 DEF Control, InOrder, Synchronized, At
  <2> QED BY <2>1, <2>2, <2>3, <2>4 DEF InOrder
<1>6. \A i \in 1..n : Pos(out[1]) <= Pos(out'[i])
  <2>1. \A i \in 1..n : 1 <= i + 1
    BY <1>1
  <2> QED BY <1>1, <2>1 DEF Control, InOrder
<1>7. ASSUME out' # <<>>, out'[1].kind = "update" PROVE out'[1].seq = Pos(out[1]) + 1
  <2>1. 1 \in 1..n /\ 2 \in 2..Len(out) /\ out'[1] = out[2] /\ 2 - 1 = 1
    <3>1. 1 \in 1..n /\ 2 \in 2..Len(out) /\ 1 + 1 = 2
      BY <1>1, <1>7
    <3> QED BY <1>1, <3>1
  <2> QED BY <1>7, <2>1 DEF Control, InOrder
<1>8. ASSUME live, conn PROVE IF out' = <<>> THEN Pos(out[1]) = sequence.head
                              ELSE Pos(out'[n]) = sequence.head
  <2>1. Pos(out[Len(out)]) = sequence.head
    BY <1>1, <1>8 DEF Control, Following
  <2>2. CASE n = 0
    <3>1. Len(out) = 1
      BY <1>1, <2>2
    <3> QED BY <1>1, <2>1, <2>2, <3>1
  <2>3. CASE n # 0
    <3>1. n \in 1..n /\ out'[n] = out[Len(out)]
      BY <1>1, <2>3
    <3> QED BY <1>1, <2>1, <2>3, <3>1
  <2> QED BY <2>2, <2>3
<1> QED BY <1>5, <1>6, <1>7, <1>8 DEF n

LEMMA DeliverEpochs ==
    ASSUME TypeInv, Control, Deliver,
           \A i \in 1..Len(requests') : requests'[i].epoch = epoch,
           listed' => listed \/ (out[1].kind = "list" /\ out[1].epoch = epoch)
    PROVE  Epochs'
<1> DEFINE n == Len(out')
<1>1. /\ UNCHANGED <<handlers, epoch>> /\ Len(out) = n + 1 /\ n \in Nat /\ 1 \in 1..Len(out)
      /\ \A i \in 1..n : i + 1 \in 1..Len(out) /\ out'[i] = out[i + 1]
  BY Shifts
<1> HIDE DEF n
<1>2. \A i \in 1..n : out'[i].kind = "list" => out'[i].epoch <= epoch
  BY <1>1 DEF Control, Epochs
<1>3. ASSUME NEW i \in 1..n, out'[i].kind = "list", out'[i].epoch = epoch
      PROVE  /\ \A j \in 1..n : i < j /\ out'[j].kind = "list" => out'[j].epoch = epoch
             /\ \A j \in 1..Len(handlers) : handlers[j].epoch = epoch
  <2>1. \A j \in 1..n : i < j => i + 1 < j + 1
    BY <1>1
  <2>2. i + 1 \in 1..Len(out) /\ out[i + 1].kind = "list" /\ out[i + 1].epoch = epoch
    BY <1>1, <1>3
  <2>3. /\ \A j \in 1..Len(out) : i + 1 < j /\ out[j].kind = "list" => out[j].epoch = epoch
        /\ \A j \in 1..Len(handlers) : handlers[j].epoch = epoch
    BY <2>2 DEF Control, Epochs
  <2> QED BY <1>1, <2>1, <2>3
<1>4. ASSUME listed'
      PROVE  /\ \A i \in 1..n : out'[i].kind = "list" => out'[i].epoch = epoch
             /\ \A i \in 1..Len(handlers) : handlers[i].epoch = epoch
  <2>1. CASE listed
    BY <1>1, <2>1 DEF Control, Epochs
  <2>2. CASE out[1].kind = "list" /\ out[1].epoch = epoch
    <3>1. /\ \A j \in 1..Len(out) : 1 < j /\ out[j].kind = "list" => out[j].epoch = epoch
          /\ \A j \in 1..Len(handlers) : handlers[j].epoch = epoch
      BY <1>1, <2>2 DEF Control, Epochs
    <3>2. \A i \in 1..n : 1 < i + 1
      BY <1>1
    <3> QED BY <1>1, <3>1, <3>2
  <2> QED BY <1>4, <2>1, <2>2
<1>5. /\ \A i \in 1..Len(handlers) : handlers[i].epoch <= epoch
      /\ \A i, j \in 1..Len(handlers) : i < j /\ handlers[i].epoch = epoch => handlers[j].epoch = epoch
  BY DEF Control, Epochs
<1> QED BY <1>1, <1>2, <1>3, <1>4, <1>5 DEF Epochs, n

(* The cursor moves to what the message says, the replica with it.           *)
LEMMA Moves ==
    ASSUME TypeInv, Control, NEW H, NEW K, Story(H, K), Deliver, UNCHANGED requests, Replica(H)',
           listed' => listed \/ (out[1].kind = "list" /\ out[1].epoch = epoch),
           cursor' = [generation |-> sequence.generation, afterSeq |-> Pos(out[1])]
    PROVE  Control' /\ Story(H, K)'
<1> DEFINE n == Len(out')
<1>1. /\ UNCHANGED <<catalog, sequence, handlers, live, conn, epoch>>
      /\ Len(out) = n + 1 /\ n \in Nat /\ 1 \in 1..Len(out)
      /\ \A i \in 1..n : i + 1 \in 1..Len(out) /\ out'[i] = out[i + 1]
  BY Shifts
<1>2. /\ cursor'.generation = sequence.generation /\ cursor'.afterSeq = Pos(out[1])
      /\ Pos(out[1]) \in Nat /\ Pos(out[1]) <= sequence.head /\ sequence.generation \in Nat
      /\ cursor \in Cursors
  BY <1>1, PosBound DEF TypeInv
<1>3. cursor.generation = sequence.generation => cursor.afterSeq <= cursor'.afterSeq
  BY <1>1, <1>2 DEF Control, Behind
<1>4. Behind'
  <2>1. \A i \in 1..n : Pos(out[1]) <= Pos(out'[i])
    BY DeliverInOrder
  <2>2. \A i \in 1..Len(handlers) : Synchronized(i) => Pos(out[1]) <= At(i)
    BY <1>1 DEF Control, InOrder
  <2>3. (\A i \in 1..Len(out) : cursor.afterSeq <= Pos(out[i]))'
    BY <1>2, <2>1 DEF Pos
  <2>4. (\A i \in 1..Len(handlers) : Synchronized(i) => cursor.afterSeq <= At(i))'
    BY <1>1, <1>2, <2>2 DEF Synchronized, At
  <2> QED BY <1>1, <1>2, <2>3, <2>4 DEF Behind
<1>5. Asked'
  <2>1. ASSUME NEW c \in Cursors, Reached(c) PROVE Reached(c)'
    BY <1>1, <1>2, <1>3, <2>1 DEF Reached, Cursors
  <2>2. ASSUME NEW i \in 1..Len(requests) PROVE Reached(requests[i].cursor)'
    <3>1. requests[i] \in Requests
      BY DEF TypeInv
    <3>2. requests[i].cursor \in Cursors /\ Reached(requests[i].cursor)
      BY <3>1 DEF Requests, Control, Asked
    <3> HIDE DEF Reached
    <3> QED BY <2>1, <3>2 DEF Reached
  <2>3. ASSUME NEW i \in 1..Len(handlers) PROVE Reached(handlers[i].cursor)'
    <3>1. handlers[i] \in Handlers
      BY DEF TypeInv
    <3>2. handlers[i].cursor \in Cursors /\ Reached(handlers[i].cursor)
      BY <3>1 DEF Handlers, Control, Asked
    <3> QED BY <1>1, <2>1, <3>2 DEF Reached
  <2> QED BY <1>1, <2>2, <2>3 DEF Asked
<1>6. Epochs'
  BY DeliverEpochs DEF Control, Epochs
<1>7. Following'
  <2>1. live => handlers = <<>>
    BY DEF Control, Following
  <2>2. conn \/ out = <<>>
    BY DEF Control, Following
  <2>3. conn
    BY <1>1, <2>2
  <2>4. out' # <<>> /\ out'[1].kind = "update" => out'[1].seq = cursor'.afterSeq + 1
    BY <1>2, DeliverInOrder
  <2>5. live /\ conn /\ out' # <<>> => Pos(out'[Len(out')]) = sequence.head
    BY DeliverInOrder
  <2>6. live /\ conn /\ out' = <<>> => CaughtUp'
    BY <1>1, <1>2, DeliverInOrder DEF CaughtUp
  <2> QED BY <1>1, <1>2, <2>1, <2>3, <2>4, <2>5, <2>6 DEF Following, Pos
<1>8. ASSUME NEW p, Payload(H, p) PROVE Payload(H, p)'
  <2>1. CASE p.mode = "snapshot"
    BY <1>1, <1>8, <2>1 DEF Payload
  <2>2. CASE p.mode # "snapshot"
    <3>1. Brings(H, p.labels, p.removals, cursor.afterSeq, p.at.head)
          /\ cursor.generation = sequence.generation
      BY <1>8, <2>2 DEF Payload
    <3>2. \A x, y \in Nat : \A z : x <= y => \A k \in y..z : k \in x..z
      OBVIOUS
    <3>3. Brings(H, p.labels, p.removals, cursor'.afterSeq, p.at.head)
      BY <1>2, <1>3, <3>1, <3>2 DEF Brings, Cursors
    <3> QED BY <1>1, <1>2, <1>8, <2>2, <3>3 DEF Payload
  <2> QED BY <2>1, <2>2
<1>9. Story(H, K)'
  <2>1. History(H, K)' /\ Journal(K)'
    BY <1>1 DEF Story, History, Journal, Entry
  <2>2. ASSUME NEW i \in 1..n PROVE Message(H, K, out'[i])
    BY <1>1 DEF Story
  <2>3. ASSUME NEW m, Message(H, K, m) PROVE Message(H, K, m)'
    BY <1>1, <1>8, <2>3 DEF Message
  <2>4. (\A i \in 1..Len(out) : Message(H, K, out[i]))'
    BY <2>2, <2>3 DEF Message
  <2>5. ASSUME NEW i \in 1..Len(handlers) PROVE Handler(H, K, i)'
    <3>1. Handler(H, K, i)
      BY DEF Story
    <3>2. \A x : Entry(K, x)' = Entry(K, x)
      BY <1>1 DEF Entry
    <3> QED BY <1>1, <1>8, <3>1, <3>2 DEF Handler, Synchronized, At
  <2> QED BY <1>1, <2>1, <2>4, <2>5 DEF Story
<1> QED BY <1>4, <1>5, <1>6, <1>7, <1>9, DeliverInOrder DEF Control

(* A message the client does not use: it may list again.                     *)
LEMMA Stays ==
    ASSUME TypeInv, Control, NEW H, NEW K, Story(H, K), Deliver, ~listed,
           UNCHANGED <<replica, cursor, listed>>,
           requests' = requests \/ requests' = Append(requests, List(epoch, cursor))
    PROVE  Control' /\ Story(H, K)'
<1> DEFINE n == Len(out')
<1>1. /\ UNCHANGED <<catalog, sequence, handlers, live, conn, epoch>>
      /\ Len(out) = n + 1 /\ n \in Nat /\ 1 \in 1..Len(out)
      /\ \A i \in 1..n : i + 1 \in 1..Len(out) /\ out'[i] = out[i + 1]
  BY Shifts
<1>2. \A i \in 1..Len(requests') :
         \/ requests'[i] = List(epoch, cursor)
         \/ \E j \in 1..Len(requests) : requests'[i] = requests[j]
  <2>1. requests \in Seq(Requests) /\ List(epoch, cursor) \in Requests
    BY DEF TypeInv, List, Requests
  <2>2. CASE requests' = requests
    BY <2>2
  <2>3. CASE requests' = Append(requests, List(epoch, cursor))
    <3>1. /\ Len(requests') = Len(requests) + 1 /\ Len(requests) \in Nat
          /\ \A i \in 1..Len(requests) : requests'[i] = requests[i]
          /\ requests'[Len(requests) + 1] = List(epoch, cursor)
      BY <2>1, <2>3, AppendIs
    <3>2. \A i \in 1..Len(requests') : i \in 1..Len(requests) \/ i = Len(requests) + 1
      BY <3>1
    <3> QED BY <3>1, <3>2
  <2> QED BY <2>2, <2>3
<1>3. Behind'
  <2>1. cursor.generation = sequence.generation => \A i \in 1..n : cursor.afterSeq <= Pos(out'[i])
    BY <1>1 DEF Control, Behind
  <2>2. (cursor.generation = sequence.generation => \A i \in 1..Len(out) : cursor.afterSeq <= Pos(out[i]))'
    BY <1>1, <2>1 DEF Pos
  <2> QED BY <1>1, <2>2 DEF Control, Behind, Synchronized, At
<1>4. Asked'
  <2>1. Reached(cursor)
    BY DEF Control, Behind, Reached, TypeInv, Cursors
  <2>2. \A i \in 1..Len(requests') : Reached(requests'[i].cursor)
    BY <1>2, <2>1 DEF Control, Asked, List
  <2>3. \A i \in 1..Len(handlers) : Reached(handlers[i].cursor)
    BY DEF Control, Asked
  <2> QED BY <1>1, <2>2, <2>3 DEF Asked, Reached
<1>5. Epochs'
  <2>1. \A i \in 1..Len(requests') : requests'[i].epoch = epoch
    BY <1>2 DEF Control, Epochs, List
  <2> QED BY <2>1, DeliverEpochs
<1>6. Following'
  <2>1. live => handlers = <<>>
    BY DEF Control, Following
  <2>2. conn
    BY <1>1 DEF Control, Following
  <2>3. live /\ conn /\ out' # <<>> => Pos(out'[Len(out')]) = sequence.head
    BY DeliverInOrder
  <2> QED BY <1>1, <2>1, <2>2, <2>3 DEF Following, Pos
<1>7. Story(H, K)'
  <2>1. History(H, K)' /\ Journal(K)' /\ Replica(H)'
    BY <1>1, Still DEF Story
  <2>2. ASSUME NEW i \in 1..n PROVE Message(H, K, out'[i])
    BY <1>1 DEF Story
  <2>3. ASSUME NEW m, Message(H, K, m) PROVE Message(H, K, m)'
    BY <1>1, <2>3, Still
  <2>4. (\A i \in 1..Len(out) : Message(H, K, out[i]))'
    BY <2>2, <2>3 DEF Message
  <2>5. (\A i \in 1..Len(handlers) : Handler(H, K, i))'
    BY <1>1, StillHandlers DEF Story
  <2> QED BY <2>1, <2>4, <2>5 DEF Story
<1> QED BY <1>3, <1>4, <1>5, <1>6, <1>7, DeliverInOrder DEF Control

(* A list leaves the replica without a gap at the head it says.              *)
LEMMA ListBrings ==
    ASSUME TypeInv, Control, NEW H, NEW K, Story(H, K), Deliver, out[1].kind = "list",
           ApplyList(out[1].payload)
    PROVE  Replica(H)'
<1> DEFINE p == out[1].payload
           b == p.at.head
<1>1. out[1] \in Messages /\ 1 \in 1..Len(out) /\ UNCHANGED sequence
  BY Shifts
<1>2. Payload(H, p) /\ p \in Snapshots /\ Pos(out[1]) = b
  <2>1. Message(H, K, out[1])
    BY <1>1 DEF Story
  <2>2. p \in Snapshots
    BY <1>1 DEF Messages, Lists, Updates
  <2> QED BY <2>1, <2>2 DEF Message, Pos
<1>3. /\ \A n \in Names : replica'[n] =
            IF p.labels[n] # NoColor THEN p.labels[n]
            ELSE IF n \in p.removals THEN NoColor
            ELSE IF p.mode = "snapshot" THEN NoLabels[n] ELSE replica[n]
      /\ cursor'.afterSeq = b
  BY DEF ApplyList
<1> SUFFICES ASSUME NEW n \in Names, H[b][n] # NoColor PROVE replica'[n] = H[b][n]
  BY <1>1, <1>3 DEF Replica
<1>4. CASE p.mode = "snapshot"
  <2>1. p.labels = H[b]
    BY <1>2, <1>4 DEF Payload
  <2> QED BY <1>3, <2>1
<1>5. CASE p.mode # "snapshot"
  <2>1. cursor.generation = sequence.generation /\ Brings(H, p.labels, p.removals, cursor.afterSeq, b)
    BY <1>2, <1>5 DEF Payload
  <2>2. cursor.afterSeq \in Nat /\ b \in Nat /\ cursor.afterSeq <= b
    <3>1. cursor.afterSeq <= Pos(out[1])
      BY <1>1, <2>1 DEF Control, Behind
    <3> QED BY <1>2, <3>1 DEF TypeInv, Cursors, Snapshots
  <2>3. CASE p.labels[n] = H[b][n]
    BY <1>3, <2>3
  <2>4. CASE /\ p.labels[n] = NoColor /\ n \notin p.removals
             /\ \A k \in cursor.afterSeq..b : H[k][n] = H[b][n]
    <3>1. H[cursor.afterSeq][n] = H[b][n]
      BY <2>2, <2>4
    <3>2. replica[n] = H[cursor.afterSeq][n]
      BY <2>1, <3>1 DEF Story, Replica
    <3> QED BY <1>3, <1>5, <2>4, <3>1, <3>2
  <2> QED BY <2>1, <2>3, <2>4 DEF Brings
<1> QED BY <1>4, <1>5

(* A change that follows the cursor too.                                     *)
LEMMA UpdateBrings ==
    ASSUME TypeInv, Control, NEW H, NEW K, Story(H, K), Deliver, out[1].kind = "update",
           Follows(out[1]), replica' = Apply(replica, out[1].change),
           cursor' = [cursor EXCEPT !.afterSeq = out[1].seq]
    PROVE  Replica(H)' /\ cursor.generation = sequence.generation
<1> DEFINE s == out[1].seq
           ch == out[1].change
           a == cursor.afterSeq
<1>1. out[1] \in Messages /\ 1 \in 1..Len(out) /\ UNCHANGED sequence
  BY Shifts
<1>2. s \in 1..sequence.head /\ out[1].generation = sequence.generation /\ ch = K[s]
  BY <1>1 DEF Story, Message
<1>3. cursor.generation = sequence.generation /\ s = a + 1 /\ cursor \in Cursors /\ a \in Nat
  BY <1>2 DEF Follows, TypeInv, Cursors
<1>4. cursor'.afterSeq = s
  BY <1>3 DEF Cursors
<1>5. ch \in ChangeSet /\ H[s] = Apply(H[a], ch) /\ H[a] \in Labels /\ replica \in Labels
  <2>1. K[s] \in ChangeSet /\ H[s] = Apply(H[s - 1], K[s]) /\ s - 1 = a
    BY <1>2, <1>3 DEF Story, History
  <2>2. H[a] \in Labels
    BY <1>3 DEF Story, History
  <2> HIDE DEF s, a
  <2> QED BY <1>2, <2>1, <2>2 DEF TypeInv
<1> HIDE DEF s, ch, a
<1>6. ASSUME NEW n \in Names, H[s][n] # NoColor PROVE replica'[n] = H[s][n]
  <2>1. H[a][n] # NoColor => replica[n] = H[a][n]
    BY <1>3, <1>6 DEF Story, Replica, a
  <2> QED BY <1>5, <1>6, <2>1 DEF Apply, Labels, ChangeSet, ch
<1> QED BY <1>1, <1>3, <1>4, <1>6 DEF Replica

LEMMA Delivers ==
    ASSUME TypeInv, Control, NEW H, NEW K, Story(H, K), Deliver
    PROVE  TypeInv' /\ Control' /\ Story(H, K)'
<1>1. /\ out # <<>> /\ out[1] \in Messages /\ Head(out) = out[1] /\ 1 \in 1..Len(out)
      /\ Message(H, K, out[1])
  BY Shifts DEF Story
<1>2. CASE /\ out[1].kind = "list" /\ out[1].epoch = epoch
           /\ ApplyList(out[1].payload) /\ listed' = TRUE /\ UNCHANGED requests
  <2>1. Replica(H)'
    BY <1>2, ListBrings
  <2>2. cursor' = [generation |-> sequence.generation, afterSeq |-> Pos(out[1])]
    BY <1>1, <1>2 DEF ApplyList, Message, Payload, Pos
  <2> QED BY <1>2, <2>1, <2>2, Moves, DeliverTyped
<1>3. CASE /\ out[1].kind = "list" /\ out[1].epoch # epoch
           /\ UNCHANGED <<replica, cursor, listed, requests>>
  <2>1. ~listed
    BY <1>1, <1>3 DEF Control, Epochs
  <2> QED BY <1>3, <2>1, Stays, DeliverTyped
<1>4. CASE /\ out[1].kind = "update" /\ Follows(out[1])
           /\ replica' = Apply(replica, out[1].change)
           /\ cursor' = [cursor EXCEPT !.afterSeq = out[1].seq]
           /\ UNCHANGED <<requests, listed>>
  <2>1. Replica(H)' /\ cursor.generation = sequence.generation
    BY <1>4, UpdateBrings
  <2>2. cursor' = [generation |-> sequence.generation, afterSeq |-> Pos(out[1])]
    BY <1>4, <2>1 DEF Pos, TypeInv, Cursors
  <2> QED BY <1>4, <2>1, <2>2, Moves, DeliverTyped
<1>5. CASE /\ out[1].kind = "update" /\ ~Follows(out[1])
           /\ requests' = Append(requests, List(epoch, cursor))
           /\ UNCHANGED <<replica, cursor, listed>>
  <2>1. ~listed
    BY <1>1, <1>5 DEF Control, Following, Message, Follows
  <2> QED BY <1>5, <2>1, Stays, DeliverTyped
<1> QED BY <1>1, <1>2, <1>3, <1>4, <1>5 DEF Deliver

LEMMA ChangeIs ==
    ASSUME TypeInv, NEW ch \in Changes, Change(ch)
    PROVE  /\ UNCHANGED <<live, requests, conn, epoch, listed, replica, cursor>>
           /\ sequence'.generation = sequence.generation /\ sequence'.head = sequence.head + 1
           /\ sequence'.journal = Journaled([generation |-> sequence.generation,
                                             seq |-> sequence.head + 1, change |-> ch])
           /\ catalog' = Apply(catalog, ch) /\ ch \in ChangeSet /\ sequence.head \in Nat
  BY ChangeType DEF Change, Publish, client, TypeInv

(* The last handler collects the change once it is synchronized.             *)
LEMMA ChangeHandlers ==
    ASSUME TypeInv, NEW ch \in Changes, Change(ch), NEW entry,
           entry = [generation |-> sequence.generation, seq |-> sequence.head + 1, change |-> ch]
    PROVE  /\ Len(handlers') = Len(handlers)
           /\ \A i \in 1..Len(handlers) :
                 /\ handlers'[i].pc = handlers[i].pc /\ handlers'[i].epoch = handlers[i].epoch
                 /\ handlers'[i].cursor = handlers[i].cursor
                 /\ handlers'[i].snapshot = handlers[i].snapshot
                 /\ handlers'[i].pending =
                       IF i = Len(handlers) /\ Synchronized(i) THEN Append(handlers[i].pending, entry)
                       ELSE handlers[i].pending
           /\ handlers = <<>> => handlers' = <<>>
<1> DEFINE last == Len(handlers)
<1>0. handlers \in Seq(Handlers)
  BY DEF TypeInv
<1>1. CASE last > 0 /\ handlers[last].pc = "synchronized"
  <2>1. last \in 1..Len(handlers) /\ handlers[last] \in Handlers
    BY <1>0, <1>1
  <2> DEFINE e == [handlers[last] EXCEPT !.pending = Append(@, entry)]
  <2>2. handlers' = [handlers EXCEPT ![last] = e]
    BY <1>1 DEF Change, Publish
  <2>3. /\ e.pc = handlers[last].pc /\ e.epoch = handlers[last].epoch
        /\ e.cursor = handlers[last].cursor /\ e.snapshot = handlers[last].snapshot
        /\ e.pending = Append(handlers[last].pending, entry)
    BY <2>1 DEF Handlers
  <2> HIDE DEF e
  <2>4. Len(handlers') = Len(handlers)
        /\ \A i \in 1..Len(handlers) : handlers'[i] = IF i = last THEN e ELSE handlers[i]
    BY <1>0, <2>2
  <2>5. handlers # <<>>
    BY <1>1
  <2> QED BY <1>1, <2>3, <2>4, <2>5 DEF Synchronized
<1>2. CASE ~(last > 0 /\ handlers[last].pc = "synchronized")
  <2>1. handlers' = handlers
    BY <1>2 DEF Change, Publish
  <2>2. \A i \in 1..Len(handlers) : i = last => last > 0
    OBVIOUS
  <2> QED BY <1>2, <2>1, <2>2 DEF Synchronized
<1> QED BY <1>1, <1>2

(* An established subscription sends the change, after all the others.       *)
LEMMA ChangeControl ==
    ASSUME TypeInv, Control, NEW H, NEW K, Story(H, K), NEW ch \in Changes, Change(ch)
    PROVE  Control'
<1> DEFINE n == Len(handlers)
           N == Len(out)
           u == UpdateMessage([generation |-> sequence.generation,
                               seq |-> sequence.head + 1, change |-> ch])
<1>1. /\ UNCHANGED <<live, requests, conn, epoch, listed, replica, cursor>>
      /\ sequence'.generation = sequence.generation /\ sequence'.head = sequence.head + 1
      /\ sequence.head \in Nat
  BY ChangeIs
<1>2. /\ Len(handlers') = n
      /\ \A i \in 1..n : /\ handlers'[i].pc = handlers[i].pc /\ handlers'[i].epoch = handlers[i].epoch
                         /\ handlers'[i].cursor = handlers[i].cursor
                         /\ handlers'[i].snapshot = handlers[i].snapshot
      /\ handlers = <<>> => handlers' = <<>>
  <2> DEFINE entry == [generation |-> sequence.generation, seq |-> sequence.head + 1, change |-> ch]
  <2> HIDE DEF entry
  <2> QED BY ChangeHandlers DEF entry
<1>3. (\A i, j \in 1..Len(handlers) : i < j /\ Synchronized(j) => Synchronized(i) /\ At(i) <= At(j))'
  BY <1>2 DEF Control, InOrder, Synchronized, At
<1>4. Asked'
  BY <1>1, <1>2 DEF Control, Asked, Reached
<1>5. \A i \in 1..N : Pos(out[i]) \in Nat /\ Pos(out[i]) <= sequence.head
  BY PosBound
<1>6. cursor \in Cursors
  BY DEF TypeInv
<1>7. CASE live /\ conn
  <2>1. handlers = <<>> /\ n = 0
    BY <1>7 DEF Control, Following
  <2>2. u = [kind |-> "update", generation |-> sequence.generation,
             seq |-> sequence.head + 1, change |-> ch]
    BY DEF UpdateMessage
  <2>3. u \in Messages
    BY <2>2, ChangeIs DEF Messages, Updates, TypeInv
  <2>4. u.kind = "update" /\ u.seq = sequence.head + 1 /\ Pos(u) = sequence.head + 1
    BY <2>2 DEF Pos
  <2>5. out' = Append(out, u) /\ out \in Seq(Messages)
    BY <1>7 DEF Change, Publish, Emit, TypeInv
  <2> HIDE DEF u
  <2>6. /\ Len(out') = N + 1 /\ N \in Nat /\ out'[N + 1] = u
        /\ \A i \in 1..N : out'[i] = out[i]
    BY <2>3, <2>5, AppendIs
  <2>7. N = 0 <=> out = <<>>
    BY <2>5, EmptySeq
  <2> HIDE DEF N
  <2>8. \A i \in 1..(N + 1) : i \in 1..N \/ i = N + 1
    BY <2>6
  <2>9. N # 0 => N \in 1..N /\ Pos(out[N]) = sequence.head
    BY <1>7, <2>6, <2>7 DEF Control, Following, N
  <2>10. InOrder'
    <3>1. ASSUME NEW i \in 1..(N + 1), NEW j \in 1..(N + 1), i <= j
          PROVE  Pos(out'[i]) <= Pos(out'[j])
      <4>1. CASE j \in 1..N
        <5>1. i \in 1..N
          BY <2>6, <3>1, <4>1
        <5>2. Pos(out[i]) <= Pos(out[j])
          BY <3>1, <4>1, <5>1 DEF Control, InOrder, N
        <5> QED BY <2>6, <4>1, <5>1, <5>2
      <4>2. CASE j = N + 1
        BY <1>1, <1>5, <2>4, <2>6, <2>8, <4>2 DEF N
      <4> QED BY <2>8, <4>1, <4>2
    <3>2. ASSUME NEW j \in 2..(N + 1), out'[j].kind = "update"
          PROVE  out'[j].seq = Pos(out'[j - 1]) + 1
      <4>1. CASE j \in 1..N
        <5>1. j \in 2..N /\ j - 1 \in 1..N
          BY <2>6, <4>1
        <5> QED BY <2>6, <3>2, <4>1, <5>1 DEF Control, InOrder, N
      <4>2. CASE j = N + 1
        <5>1. j - 1 = N /\ N # 0
          BY <2>6, <4>2
        <5> QED BY <2>4, <2>6, <2>9, <4>2, <5>1
      <4> QED BY <2>6, <4>1, <4>2
    <3>3. (\A i, j \in 1..Len(out) : i <= j => Pos(out[i]) <= Pos(out[j]))'
      BY <2>6, <3>1 DEF Pos
    <3>4. (\A j \in 2..Len(out) : out[j].kind = "update" => out[j].seq = Pos(out[j - 1]) + 1)'
      BY <2>6, <3>2 DEF Pos
    <3>5. (\A i \in 1..Len(out), j \in 1..Len(handlers) : Synchronized(j) => Pos(out[i]) <= At(j))'
      BY <1>2, <2>1
    <3> QED BY <1>3, <3>3, <3>4, <3>5 DEF InOrder
  <2>11. Behind'
    <3>1. ASSUME NEW i \in 1..(N + 1), cursor.generation = sequence.generation
          PROVE  cursor.afterSeq <= Pos(out'[i])
      <4>1. cursor.afterSeq \in Nat /\ cursor.afterSeq <= sequence.head
            /\ \A j \in 1..N : cursor.afterSeq <= Pos(out[j])
        BY <1>6, <3>1 DEF Control, Behind, Cursors, N
      <4> QED BY <1>1, <2>4, <2>6, <2>8, <4>1
    <3>2. (cursor.generation = sequence.generation =>
               \A i \in 1..Len(out) : cursor.afterSeq <= Pos(out[i]))'
      BY <1>1, <2>6, <3>1 DEF Pos
    <3>3. cursor.generation = sequence.generation => cursor.afterSeq <= sequence.head + 1
      BY <1>1, <1>6 DEF Control, Behind, Cursors
    <3>4. (\A i \in 1..Len(handlers) : Synchronized(i) => cursor.afterSeq <= At(i))'
      BY <1>2, <2>1
    <3>5. cursor'.generation <= sequence'.generation
      BY <1>1 DEF Control, Behind
    <3> QED BY <1>1, <3>2, <3>3, <3>4, <3>5 DEF Behind
  <2>12. Epochs'
    <3>1. \A i \in 1..Len(out') : out'[i].kind = "list" => i \in 1..N /\ out'[i] = out[i]
      BY <2>4, <2>6, <2>8
    <3>2. /\ \A i \in 1..Len(out') : out'[i].kind = "list" => out'[i].epoch <= epoch
          /\ listed => \A i \in 1..Len(out') : out'[i].kind = "list" => out'[i].epoch = epoch
      BY <3>1 DEF Control, Epochs, N
    <3>3. \A i \in 1..Len(out') : out'[i].kind = "list" /\ out'[i].epoch = epoch =>
             \A j \in 1..Len(out') : i < j /\ out'[j].kind = "list" => out'[j].epoch = epoch
      BY <3>1 DEF Control, Epochs, N
    <3>4. 1..Len(handlers') = {}
      BY <1>2, <2>1
    <3>5. \A i \in 1..Len(requests) : requests[i].epoch = epoch
      BY DEF Control, Epochs
    <3> QED BY <1>1, <3>2, <3>3, <3>4, <3>5 DEF Epochs
  <2>13. Following'
    <3>1. ASSUME listed, out'[1].kind = "update"
          PROVE  cursor.generation = sequence.generation /\ out'[1].seq = cursor.afterSeq + 1
      <4>1. CASE N = 0
        <5>1. CaughtUp /\ out'[1] = u
          BY <1>7, <2>6, <2>7, <3>1, <4>1 DEF Control, Following
        <5> QED BY <2>4, <5>1 DEF CaughtUp
      <4>2. CASE N # 0
        <5>1. out'[1] = out[1] /\ out # <<>>
          BY <2>6, <2>7, <4>2
        <5> QED BY <3>1, <5>1 DEF Control, Following
      <4> QED BY <4>1, <4>2
    <3>2. out' # <<>> /\ Pos(out'[Len(out')]) = sequence.head + 1
      BY <2>4, <2>6
    <3> QED BY <1>1, <1>2, <1>7, <2>1, <3>1, <3>2 DEF Following, Pos
  <2> QED BY <1>4, <2>10, <2>11, <2>12, <2>13 DEF Control
<1>8. CASE ~(live /\ conn)
  <2>1. out' = out
    BY <1>8 DEF Change, Publish, Emit
  <2>2. InOrder'
    BY <1>2, <1>3, <2>1 DEF Control, InOrder, Synchronized, At, Pos
  <2>3. Behind'
    <3>1. cursor.generation = sequence.generation => cursor.afterSeq <= sequence.head + 1
      BY <1>1, <1>6 DEF Control, Behind, Cursors
    <3> QED BY <1>1, <1>2, <2>1, <3>1 DEF Control, Behind, Synchronized, At, Pos
  <2>4. Epochs'
    BY <1>1, <1>2, <2>1, SMTT(30) DEF Control, Epochs
  <2>5. Following'
    BY <1>1, <1>2, <1>8, <2>1 DEF Control, Following
  <2> QED BY <1>4, <2>2, <2>3, <2>4, <2>5 DEF Control
<1> QED BY <1>7, <1>8

(* The journal keeps the last entries, the new one among them.               *)
LEMMA ChangeJournal ==
    ASSUME TypeInv, NEW K, Journal(K), NEW ch \in Changes, Change(ch), NEW L,
           \A s \in 1..sequence.head : L[s] = K[s], L[sequence.head + 1] = ch
    PROVE  Journal(L)'
<1> DEFINE j == sequence.journal
           h == sequence.head
           entry == [generation |-> sequence.generation, seq |-> h + 1, change |-> ch]
           J == Append(j, entry)
           first == h - Len(j)
<1>1. /\ sequence'.generation = sequence.generation /\ sequence'.head = h + 1 /\ h \in Nat
      /\ sequence'.journal = Journaled(entry) /\ entry \in Entries /\ j \in Seq(Entries)
  BY ChangeIs DEF TypeInv, Entries
<1>2. entry = Entry(L, h + 1)
  BY DEF Entry
<1>3. \A s : Entry(L, s)' = Entry(L, s)
  BY <1>1 DEF Entry
<1> HIDE DEF entry
<1>4. /\ J \in Seq(Entries) /\ Len(J) = Len(j) + 1 /\ Len(j) \in Nat
      /\ \A i \in 1..Len(j) : J[i] = j[i]
      /\ J[Len(j) + 1] = entry
  BY <1>1, AppendIs
<1>5. first \in Nat /\ \A i \in 1..Len(j) : j[i] = Entry(L, first + i)
  <2>1. first \in Nat /\ first + Len(j) = h
    BY <1>1, <1>4 DEF Journal
  <2>2. ASSUME NEW i \in 1..Len(j) PROVE j[i] = Entry(L, first + i)
    <3> DEFINE s == first + i
    <3>1. j[i] = Entry(K, s)
      BY DEF Journal
    <3>2. s \in 1..h
      BY <1>1, <1>4, <2>1
    <3> HIDE DEF s
    <3>3. K[s] = L[s]
      BY <3>2
    <3>4. Entry(K, s) = Entry(L, s)
      BY <3>3 DEF Entry
    <3> QED BY <3>1, <3>4 DEF s
  <2> QED BY <2>1, <2>2
<1>6. first + (Len(j) + 1) = h + 1
  BY <1>1, <1>4
<1> HIDE DEF J, j, h, first
<1>7. ASSUME NEW i \in 1..Len(J) PROVE J[i] = Entry(L, first + i)
  <2>1. CASE i = Len(j) + 1
    BY <1>2, <1>4, <1>6, <2>1
  <2>2. CASE i # Len(j) + 1
    <3>1. i \in 1..Len(j)
      BY <1>4, <2>2
    <3> QED BY <1>4, <1>5, <3>1
  <2> QED BY <2>1, <2>2
<1>8. CASE Len(J) > JournalLimit
  <2>1. sequence'.journal = Tail(J)
    BY <1>1, <1>8 DEF Journaled, J, j
  <2>2. J # <<>>
    BY <1>4
  <2>3. Len(J) = Len(Tail(J)) + 1 /\ Len(Tail(J)) \in Nat
        /\ \A i \in 1..Len(Tail(J)) : Tail(J)[i] = J[i + 1]
    BY <1>4, <2>2, TailIs
  <2> DEFINE f == sequence'.head - Len(sequence'.journal)
  <2> DEFINE m == Len(Tail(J))
  <2>4. f = first + 1
    <3>1. f = (h + 1) - m /\ m \in Nat /\ m = Len(j)
      BY <1>1, <1>4, <2>1, <2>3
    <3>2. first \in Nat /\ Len(j) \in Nat
      BY <1>4, <1>5
    <3> HIDE DEF f, m
    <3> QED BY <1>1, <1>6, <3>1, <3>2
  <2>5. ASSUME NEW i \in 1..Len(Tail(J)) PROVE Tail(J)[i] = Entry(L, f + i)
    <3>1. i + 1 \in 1..Len(J) /\ first + (i + 1) = f + i
      <4>1. first \in Nat /\ Len(J) = Len(Tail(J)) + 1 /\ f = first + 1
        BY <1>5, <2>3, <2>4
      <4> HIDE DEF f
      <4> QED BY <4>1
    <3>2. Tail(J)[i] = J[i + 1] /\ J[i + 1] = Entry(L, first + (i + 1))
      BY <1>7, <2>3, <3>1
    <3> HIDE DEF f
    <3> QED BY <3>1, <3>2
  <2>6. f >= 0
    BY <1>5, <2>4
  <2> QED BY <1>3, <2>1, <2>5, <2>6 DEF Journal
<1>9. CASE ~(Len(J) > JournalLimit)
  <2>1. sequence'.journal = J
    BY <1>1, <1>9 DEF Journaled, J, j
  <2> DEFINE f == sequence'.head - Len(sequence'.journal)
  <2>2. f = first
    <3>1. f = (h + 1) - (Len(j) + 1)
      BY <1>1, <1>4, <2>1
    <3>2. first \in Nat /\ Len(j) \in Nat
      BY <1>4, <1>5
    <3> HIDE DEF f
    <3> QED BY <1>1, <1>6, <3>1, <3>2
  <2> QED BY <1>3, <1>5, <1>7, <2>1, <2>2 DEF Journal
<1> QED BY <1>8, <1>9

(* The story goes on with the catalog after the change.                      *)
LEMMA ChangeStory ==
    ASSUME TypeInv, Control, NEW H, NEW K, Story(H, K), NEW ch \in Changes, Change(ch)
    PROVE  \E G, L : Story(G, L)'
<1> DEFINE h == sequence.head
           entry == [generation |-> sequence.generation, seq |-> h + 1, change |-> ch]
<1>1. /\ UNCHANGED <<live, requests, conn, epoch, listed, replica, cursor>>
      /\ sequence'.generation = sequence.generation /\ sequence'.head = h + 1
      /\ catalog' = Apply(catalog, ch) /\ ch \in ChangeSet /\ h \in Nat
  BY ChangeIs
<1>2. /\ catalog' \in Labels /\ H \in [Nat -> Labels] /\ H[h] = catalog
      /\ \A s \in 1..h : K[s] \in ChangeSet /\ H[s] = Apply(H[s - 1], K[s])
  BY ChangeTyped DEF TypeInv, Story, History
<1>3. PICK G : G = [k \in Nat |-> IF k = h + 1 THEN catalog' ELSE H[k]]
  OBVIOUS
<1>4. PICK L : L = [s \in 1..(h + 1) |-> IF s = h + 1 THEN ch ELSE K[s]]
  OBVIOUS
<1>5. /\ G \in [Nat -> Labels] /\ G[h + 1] = catalog' /\ \A k \in 0..h : G[k] = H[k]
      /\ L[h + 1] = ch /\ \A s \in 1..h : L[s] = K[s]
  BY <1>1, <1>2, <1>3, <1>4
<1> HIDE DEF h
<1>6. History(G, L)'
  <2>1. ASSUME NEW s \in 1..(h + 1) PROVE L[s] \in ChangeSet /\ G[s] = Apply(G[s - 1], L[s])
    <3>1. CASE s = h + 1
      <4>1. s - 1 = h /\ h \in 0..h
        BY <1>1, <3>1
      <4> QED BY <1>1, <1>2, <1>5, <3>1, <4>1
    <3>2. CASE s # h + 1
      <4>1. s \in 1..h /\ s \in 0..h /\ s - 1 \in 0..h
        BY <1>1, <3>2
      <4> QED BY <1>2, <1>5, <4>1
    <3> QED BY <3>1, <3>2
  <2> QED BY <1>1, <1>5, <2>1 DEF History
<1>7. Journal(L)'
  BY <1>5, ChangeJournal DEF Story, h
<1>8. Replica(G)'
  <2>1. cursor.generation = sequence.generation => cursor.afterSeq \in 0..h
    BY <1>1 DEF Control, Behind, TypeInv, Cursors, h
  <2>2. cursor.generation = sequence.generation => G[cursor.afterSeq] = H[cursor.afterSeq]
    BY <1>5, <2>1
  <2> QED BY <1>1, <2>2 DEF Story, Replica
<1>9. ASSUME NEW p \in Snapshots, Payload(H, p) PROVE Payload(G, p)'
  <2>1. p.at.head \in 0..h /\ p.at.head <= h + 1 /\ p.at.generation = sequence.generation
    BY <1>1, <1>9 DEF Payload, Snapshots, h
  <2>2. G[p.at.head] = H[p.at.head]
    BY <1>5, <2>1
  <2>3. CASE p.mode = "snapshot"
    BY <1>1, <1>9, <2>1, <2>2, <2>3 DEF Payload
  <2>4. CASE p.mode # "snapshot"
    <3>1. p.mode = "changes" /\ cursor.generation = sequence.generation
          /\ Brings(H, p.labels, p.removals, cursor.afterSeq, p.at.head)
      BY <1>9, <2>4 DEF Payload
    <3>2. cursor.afterSeq \in Nat
      BY DEF TypeInv, Cursors
    <3>3. \A k \in cursor.afterSeq..p.at.head : G[k] = H[k]
      <4>1. \A k \in cursor.afterSeq..p.at.head : k \in 0..h
        BY <1>1, <2>1, <3>2
      <4> QED BY <1>5, <4>1
    <3>4. Brings(G, p.labels, p.removals, cursor.afterSeq, p.at.head)
      BY <2>2, <3>1, <3>3 DEF Brings
    <3> QED BY <1>1, <2>1, <3>1, <3>4 DEF Payload
  <2> QED BY <2>3, <2>4
<1>10. ASSUME NEW m \in Messages, Message(H, K, m) PROVE Message(G, L, m)'
  <2>1. CASE m.kind = "list"
    <3>1. m.payload \in Snapshots /\ Payload(H, m.payload)
      BY <1>10, <2>1 DEF Messages, Lists, Updates, Message
    <3>2. Payload(G, m.payload)'
      BY <1>9, <3>1
    <3> QED BY <2>1, <3>2 DEF Message
  <2>2. CASE m.kind # "list"
    <3>1. m.kind = "update" /\ m.seq \in 1..h /\ m.generation = sequence.generation /\ m.change = K[m.seq]
      BY <1>10, <2>2 DEF Messages, Lists, Updates, Message, h
    <3>2. m.change = L[m.seq] /\ m.seq \in 1..(h + 1)
      BY <1>1, <1>5, <3>1
    <3> QED BY <1>1, <3>1, <3>2 DEF Message
  <2> QED BY <2>1, <2>2
<1>11. (\A i \in 1..Len(out) : Message(G, L, out[i]))'
  <2>1. \A i \in 1..Len(out) : out[i] \in Messages /\ Message(H, K, out[i])
    BY DEF TypeInv, Story
  <2>2. CASE out' = out
    <3>1. ASSUME NEW i \in 1..Len(out) PROVE Message(G, L, out[i])'
      <4>1. PICK x : x = out[i]
        OBVIOUS
      <4>2. Message(G, L, x)'
        BY <1>10, <2>1, <4>1
      <4> QED BY <2>2, <4>1, <4>2 DEF Message
    <3> QED BY <2>2, <3>1 DEF Message
  <2>3. CASE out' # out
    <3> DEFINE u == UpdateMessage(entry)
    <3>1. out' = Append(out, u) /\ out \in Seq(Messages)
      <4>1. out' = out \o <<u>> /\ out \in Seq(Messages)
        BY <2>3 DEF Change, Publish, Emit, TypeInv, h
      <4> QED BY <4>1
    <3>2. u = [kind |-> "update", generation |-> sequence.generation, seq |-> h + 1, change |-> ch]
      BY DEF UpdateMessage
    <3>3. u \in Messages /\ h + 1 \in 1..(h + 1)
      BY <1>1, <3>2 DEF Messages, Updates, TypeInv
    <3>4. PICK x : x = u
      OBVIOUS
    <3>5. Message(G, L, x)'
      BY <1>1, <1>5, <3>2, <3>3, <3>4 DEF Message
    <3> HIDE DEF u
    <3>6. /\ Len(out') = Len(out) + 1 /\ Len(out) \in Nat /\ out'[Len(out) + 1] = u
          /\ \A i \in 1..Len(out) : out'[i] = out[i]
      BY <3>1, <3>3, AppendIs
    <3>7. ASSUME NEW i \in 1..Len(out') PROVE Message(G, L, out[i])'
      <4>1. i \in 1..Len(out) \/ i = Len(out) + 1
        BY <3>6
      <4>2. PICK y : y = out'[i]
        OBVIOUS
      <4>3. Message(G, L, y)'
        BY <1>10, <2>1, <3>4, <3>5, <3>6, <4>1, <4>2
      <4> QED BY <4>2, <4>3 DEF Message
    <3> QED BY <3>7
  <2> QED BY <2>2, <2>3
<1>12. /\ Len(handlers') = Len(handlers)
       /\ \A i \in 1..Len(handlers) :
             /\ handlers'[i].pc = handlers[i].pc /\ handlers'[i].snapshot = handlers[i].snapshot
             /\ handlers'[i].pending =
                   IF i = Len(handlers) /\ Synchronized(i) THEN Append(handlers[i].pending, entry)
                   ELSE handlers[i].pending
  <2>1. entry = [generation |-> sequence.generation, seq |-> sequence.head + 1, change |-> ch]
    BY DEF h
  <2> HIDE DEF entry
  <2> QED BY <2>1, ChangeHandlers
<1>13. ASSUME NEW i \in 1..Len(handlers) PROVE Handler(G, L, i)'
  <2>1. Handler(H, K, i) /\ handlers[i] \in Handlers
    BY DEF Story, TypeInv
  <2>2. handlers[i].snapshot \in Snapshots /\ handlers[i].pending \in Seq(Entries)
    BY <2>1 DEF Handlers
  <2>3. CASE ~Synchronized(i)
    BY <1>12, <2>1, <2>3 DEF Handler, Synchronized
  <2>4. CASE Synchronized(i)
    <3> DEFINE a == At(i)
               n == Len(handlers[i].pending)
    <3>1. /\ Payload(H, handlers[i].snapshot) /\ a + n <= h
          /\ \A j \in 1..n : handlers[i].pending[j] = Entry(K, a + j)
          /\ i = Len(handlers) => a + n = h
          /\ n \in Nat /\ a \in Nat
      BY <2>1, <2>2, <2>4 DEF Handler, Snapshots, At, h
    <3>2. PICK p \in Snapshots : p = handlers[i].snapshot
      BY <2>2
    <3>3. Payload(G, p)'
      BY <1>9, <3>1, <3>2
    <3>4. \A s : Entry(L, s)' = Entry(L, s)
      BY <1>1 DEF Entry
    <3>5. ASSUME NEW j \in 1..n PROVE handlers[i].pending[j] = Entry(L, a + j)
      <4> DEFINE s == a + j
      <4>1. s \in 1..h
        BY <1>1, <3>1
      <4> HIDE DEF s
      <4>2. Entry(K, s) = Entry(L, s)
        BY <1>5, <4>1 DEF Entry
      <4> QED BY <3>1, <4>2 DEF s
    <3>6. handlers'[i].pc = "synchronized" /\ At(i)' = a
      BY <1>12, <2>4 DEF Synchronized, At
    <3>7. entry = Entry(L, h + 1)
      BY <1>5 DEF Entry
    <3> HIDE DEF entry, a, n
    <3>8. CASE i = Len(handlers)
      <4>1. handlers'[i].pending = Append(handlers[i].pending, entry) /\ entry \in Entries
        <5>1. handlers'[i].pending = Append(handlers[i].pending, entry)
          BY <1>12, <2>4, <3>8
        <5>2. h + 1 \in Nat /\ sequence.generation \in Nat
          BY <1>1 DEF TypeInv
        <5>3. entry \in Entries
          BY <1>1, <5>2 DEF Entries, entry
        <5> QED BY <5>1, <5>3
      <4>2. /\ Len(handlers'[i].pending) = n + 1 /\ handlers'[i].pending[n + 1] = entry
            /\ \A j \in 1..n : handlers'[i].pending[j] = handlers[i].pending[j]
        BY <2>2, <4>1, AppendIs DEF n
      <4>3. a + (n + 1) = h + 1
        BY <1>1, <3>1, <3>8
      <4>4. ASSUME NEW j \in 1..(n + 1) PROVE handlers'[i].pending[j] = Entry(L, a + j)
        <5>1. CASE j = n + 1
          BY <3>7, <4>2, <4>3, <5>1
        <5>2. CASE j # n + 1
          <6>1. j \in 1..n
            BY <3>1, <5>2
          <6> QED BY <3>5, <4>2, <6>1
        <5> QED BY <5>1, <5>2
      <4> QED BY <1>1, <1>12, <3>2, <3>3, <3>4, <3>6, <4>2, <4>3, <4>4 DEF Handler, Synchronized
    <3>9. CASE i # Len(handlers)
      <4>1. handlers'[i].pending = handlers[i].pending
        BY <1>12, <3>9
      <4>2. a + n <= h + 1
        BY <1>1, <3>1
      <4> QED BY <1>1, <1>12, <3>2, <3>3, <3>4, <3>5, <3>6, <3>9, <4>1, <4>2 DEF Handler, Synchronized, n
    <3> QED BY <3>8, <3>9
  <2> QED BY <2>3, <2>4
<1>14. Story(G, L)'
  BY <1>6, <1>7, <1>8, <1>11, <1>12, <1>13 DEF Story
<1> QED BY <1>14

LEMMA Initially == Init => Inv
<1> SUFFICES ASSUME Init PROVE Inv
  OBVIOUS
<1>1. TypeInv
  BY Empty DEF Init, TypeInv, NoLabels, Labels, NoCursor, Cursors
<1>2. Control
  BY DEF Init, NoCursor, Control, InOrder, Behind, Asked, Epochs, Following
<1>3. \E H, K : Story(H, K)
  <2> DEFINE H == [k \in Nat |-> NoLabels]
  <2>1. History(H, H) /\ Journal(H) /\ Replica(H)
    BY <1>1 DEF Init, NoCursor, History, Journal, Replica, TypeInv
  <2>2. Story(H, H)
    BY <2>1 DEF Init, Story
  <2> HIDE DEF H
  <2> QED BY <2>2
<1> QED BY <1>1, <1>2, <1>3 DEF Inv

LEMMA Stutters == ASSUME Inv, UNCHANGED vars PROVE Inv'
<1>1. PICK H, K : Story(H, K)
  BY DEF Inv
<1>2. /\ UNCHANGED <<catalog, sequence, handlers, live, requests, out, conn, epoch, listed,
                     replica, cursor>>
  BY DEF vars, daemon, session, client
<1>3. Story(H, K)'
  BY <1>1, <1>2, StillStory
<1>4. TypeInv'
  BY <1>2 DEF Inv, TypeInv
<1>5. InOrder' /\ Behind' /\ Asked' /\ Epochs' /\ Following'
  BY <1>2 DEF Inv, Control, InOrder, Behind, Asked, Epochs, Following, Pos, Synchronized, At,
              Reached, CaughtUp
<1> QED BY <1>3, <1>4, <1>5 DEF Inv, Control

LEMMA Steps == Inv /\ [Next]_vars => Inv'
<1> SUFFICES ASSUME Inv, [Next]_vars PROVE Inv'
  OBVIOUS
<1>1. TypeInv /\ Control
  BY DEF Inv
<1>2. PICK H, K : Story(H, K)
  BY DEF Inv
<1>3. ASSUME NEW ch \in Changes, Change(ch) PROVE Inv'
  BY <1>1, <1>2, <1>3, ChangeTyped, ChangeControl, ChangeStory DEF Inv
<1>4. CASE Receive
  BY <1>1, <1>2, <1>4, Receives DEF Inv
<1>5. ASSUME NEW i \in DOMAIN handlers, Subscribe(i) PROVE Inv'
  BY <1>1, <1>2, <1>5, Subscribes DEF Inv
<1>6. CASE Respond
  BY <1>1, <1>2, <1>6, RespondsHeard, RespondsUnheard DEF Inv
<1>7. CASE Deliver
  BY <1>1, <1>2, <1>7, Delivers DEF Inv
<1>8. CASE Refresh
  BY <1>1, <1>2, <1>8, Refreshes DEF Inv
<1>9. CASE Drop
  BY <1>1, <1>2, <1>9, Drops DEF Inv
<1>10. CASE Connect
  BY <1>1, <1>2, <1>10, Connects DEF Inv
<1>11. CASE Restart
  BY <1>1, <1>11, Restarts DEF Inv
<1>12. CASE UNCHANGED vars
  BY <1>12, Stutters
<1> QED BY <1>3, <1>4, <1>5, <1>6, <1>7, <1>8, <1>9, <1>10, <1>11, <1>12 DEF Next, SessionStep

(* The daemon, the session, the connection and the client keep to one story  *)
(* of the catalog, whatever they interleave, lose, repeat or restart.        *)
THEOREM ReplicaInvariant == Spec => []Inv
  BY Initially, Steps, PTL DEF Spec

LEMMA InvMissesNothing == Inv => NothingMissing
<1> SUFFICES ASSUME Inv, CaughtUp, NEW n \in Names, catalog[n] # NoColor
             PROVE  replica[n] = catalog[n]
  BY DEF NothingMissing
<1>1. PICK H, K : Story(H, K)
  BY DEF Inv
<1>2. cursor.generation = sequence.generation /\ cursor.afterSeq = sequence.head
  BY DEF CaughtUp
<1> QED BY <1>1, <1>2 DEF Story, History, Replica

(* A replica whose cursor is the head of the sequence has every label of the *)
(* catalog in its color, for any number of names, changes, drops, restarts   *)
(* and overlapping lists and any length of the journal.                      *)
THEOREM NothingIsMissing == Spec => []NothingMissing
  BY ReplicaInvariant, InvMissesNothing, PTL

LEMMA InvStreams == Inv => StreamUnbroken
<1> SUFFICES ASSUME Inv, listed, out # <<>>, Head(out).kind = "update" PROVE Follows(Head(out))
  BY DEF StreamUnbroken
<1>1. PICK H, K : Story(H, K)
  BY DEF Inv
<1>2. Head(out) = out[1] /\ 1 \in 1..Len(out)
  BY TailIs DEF Inv, TypeInv
<1>3. out[1].generation = sequence.generation
  BY <1>1, <1>2 DEF Story, Message
<1> QED BY <1>2, <1>3 DEF Inv, Control, Following, Follows

(* Once a list of this connection is applied, the next update the client     *)
(* reads follows its cursor: the client need not list again.                 *)
THEOREM StreamIsUnbroken == Spec => []StreamUnbroken
  BY ReplicaInvariant, InvStreams, PTL
=============================================================================
