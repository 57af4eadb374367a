----------------------------- MODULE RelayProofs -----------------------------
(***************************************************************************)
(* Theorems about Relay, for any clients, buffer limit and bounds on data  *)
(* sockets, messages, repeated hellos and failures.                        *)
(*                                                                         *)
(* What a client sends is one stream: hellos, then its messages from the   *)
(* first on.  Frame k of it is message k if k is positive and a hello      *)
(* otherwise, so that the hellos need no numbers of their own.  The        *)
(* inductive invariant says where in the stream each queue is: the link to *)
(* the relay begins behind some position p, the relay's buffer ends there, *)
(* so does what is on its way to the data socket the relay still feeds,    *)
(* and every socket has taken the stream up to the frame before the ones   *)
(* on their way to it.  A close in a queue ends what it says.              *)
(***************************************************************************)
EXTENDS Relay, TLAPS

USE RelayAssumption

Sockets == [far : FarStates, near : NearStates, in : Seq(Frames), out : Seq(Frames),
            early : Seq(Frames), got : Seq(1..MaxSends)]

TypeInv ==
    /\ client \in [Conns -> {"new", "handshaking", "open", "closed"}]
    /\ sent \in [Conns -> 0..MaxSends]
    /\ up \in [Conns -> Seq(Frames)] /\ pending \in [Conns -> Seq(Frames)]
    /\ atRelay \in [Conns -> NearStates]
    /\ data \in [Conns -> [Gens -> Sockets]]
    /\ notices \in Seq([kind : {"attach", "disconnected", "reset"}, ids : SUBSET Conns])

Frame(k) == IF k <= 0 THEN Hello ELSE Cipher(k)
NoClose(q) == \A i \in 1..Len(q) : q[i] # Close

\* Up to its first close, q is the stream from behind position p, and not beyond
\* the s messages sent.
Fits(q, p, s) ==
    \A i \in 1..Len(q) : (\A j \in 1..i : q[j] # Close) => q[i] = Frame(p + i) /\ p + i <= s

Live(d) == d.far \in {"await", "ready", "open"}
Numbered(d, r) ==
    /\ d.far = "ready" => /\ Len(d.early) = IF r > 0 THEN r ELSE 0
                          /\ \A i \in 1..Len(d.early) : d.early[i] = Cipher(i)
    /\ d.far = "open" => Len(d.got) = IF r > 0 THEN r ELSE 0
\* A data socket has taken the stream up to position r.
Sock(d, r, s) ==
    /\ d.far \in {"connecting", "await"} => d.early = <<>>
    /\ d.far \in {"connecting", "await", "ready"} => d.got = <<>>
    /\ Live(d) => r <= s /\ Fits(d.in, r, s)
    /\ Numbered(d, r)
    /\ Len(d.got) <= s /\ \A i \in 1..Len(d.got) : d.got[i] = i
\* The relay still feeds it, and what comes next on the client's link is next.
Fed(d, r, p) == d.near = "open" /\ Live(d) /\ NoClose(d.in) => r + Len(d.in) = p
Taken(d, s, p, listed) == \E r \in Int : Sock(d, r, s) /\ (listed => Fed(d, r, p))

Line(c, p) ==
    Listed(c) =>
        /\ Fits(up[c], p, sent[c]) /\ p <= sent[c]
        /\ client[c] \in {"handshaking", "open"} /\ NoClose(up[c]) => p + Len(up[c]) = sent[c]
        /\ NoClose(pending[c]) /\ Fits(pending[c], p - Len(pending[c]), sent[c])
Stream(c) ==
    \E p \in Int : Line(c, p) /\ \A g \in Gens : Taken(data[c][g], sent[c], p, Listed(c))

Buffered(c) == ~Listed(c) \/ Servers(c) # {} => pending[c] = <<>>
Quiet(c) == client[c] \in {"new", "handshaking"} => sent[c] = 0
Unborn(c) ==
    client[c] = "new" => /\ atRelay[c] = "none" /\ pending[c] = <<>>
                         /\ \A g \in Gens : data[c][g] = NoData
Known == \A i \in 1..Len(notices) : \A c \in notices[i].ids : client[c] # "new"

\* A data socket may become e where it was d: nothing is lost of what holds of it.
Taking(d) == d.near \in {"open", "closing"}
Kept(d, e) ==
    /\ Taking(e) => Taking(d)
    /\ \A s \in 0..MaxSends, p \in Int, l \in BOOLEAN : Taken(d, s, p, l) => Taken(e, s, p, l)

ConnInv(c) == Stream(c) /\ Buffered(c) /\ Quiet(c) /\ Unborn(c)
Inv == TypeInv /\ Known /\ \A c \in Conns : ConnInv(c)

-----------------------------------------------------------------------------
(* The stream *)

LEMMA FrameKinds ==
    /\ Hello # Close /\ Ready # Close /\ Hello # Ready
    /\ \A k \in Int : Cipher(k) # Close /\ Cipher(k) # Hello /\ Cipher(k).n = k /\ Frame(k) # Close
    /\ \A k \in Int : Frame(k) = Hello <=> k <= 0
  BY DEF Hello, Ready, Close, Cipher, Frame

LEMMA FrameTypes == Hello \in Frames /\ Ready \in Frames /\ Close \in Frames
  BY DEF Frames

(* The next frame of the stream, or a close, may be added. *)
LEMMA FitsAppend ==
    ASSUME NEW q \in Seq(Frames), NEW f \in Frames, NEW p \in Int, NEW s \in Nat,
           Fits(q, p, s),
           NoClose(q) => \/ f = Close
                         \/ f = Frame(p + Len(q) + 1) /\ p + Len(q) + 1 <= s
    PROVE  /\ Fits(Append(q, f), p, s) /\ Append(q, f) \in Seq(Frames)
           /\ Len(Append(q, f)) = Len(q) + 1
           /\ NoClose(Append(q, f)) <=> NoClose(q) /\ f # Close
<1> DEFINE a == Append(q, f)
<1>1. /\ a \in Seq(Frames) /\ Len(a) = Len(q) + 1 /\ Len(q) \in Nat /\ a[Len(q) + 1] = f
      /\ \A i \in 1..Len(q) : a[i] = q[i]
  OBVIOUS
<1> HIDE DEF a
<1>2. NoClose(a) <=> NoClose(q) /\ f # Close
  <2>1. ASSUME NoClose(q), f # Close, NEW i \in 1..Len(a) PROVE a[i] # Close
    <3>1. CASE i \in 1..Len(q)
      BY <1>1, <2>1, <3>1 DEF NoClose
    <3>2. CASE i = Len(q) + 1
      BY <1>1, <2>1, <3>2
    <3> QED BY <1>1, <3>1, <3>2
  <2>2. ASSUME NoClose(a) PROVE NoClose(q) /\ f # Close
    <3>1. \A i \in 1..Len(q) : i \in 1..Len(a)
      BY <1>1
    <3>2. Len(q) + 1 \in 1..Len(a)
      BY <1>1
    <3> QED BY <1>1, <2>2, <3>1, <3>2 DEF NoClose
  <2> QED BY <2>1, <2>2 DEF NoClose
<1>3. ASSUME NEW i \in 1..Len(a), \A j \in 1..i : a[j] # Close
      PROVE  a[i] = Frame(p + i) /\ p + i <= s
  <2>1. CASE i \in 1..Len(q)
    <3>1. ASSUME NEW j \in 1..i PROVE q[j] # Close
      <4>1. j \in 1..Len(q)
        BY <1>1, <2>1
      <4> QED BY <1>1, <1>3, <4>1
    <3> QED BY <1>1, <2>1, <3>1 DEF Fits
  <2>2. CASE i = Len(q) + 1
    <3>1. NoClose(q) /\ f # Close
      BY <1>1, <1>3, <2>2 DEF NoClose
    <3> QED BY <1>1, <2>2, <3>1
  <2> QED BY <1>1, <2>1, <2>2
<1> QED BY <1>1, <1>2, <1>3 DEF Fits, a

(* Taking a frame moves on by one. *)
LEMMA FitsTail ==
    ASSUME NEW q \in Seq(Frames), NEW p \in Int, NEW s \in Nat, q # <<>>, Head(q) # Close,
           Fits(q, p, s)
    PROVE  /\ Tail(q) \in Seq(Frames) /\ Fits(Tail(q), p + 1, s) /\ Len(q) = Len(Tail(q)) + 1
           /\ Head(q) = Frame(p + 1) /\ p + 1 <= s
           /\ NoClose(Tail(q)) <=> NoClose(q)
<1> DEFINE t == Tail(q)
<1>1. /\ t \in Seq(Frames) /\ Len(q) = Len(t) + 1 /\ Len(t) \in Nat /\ Head(q) = q[1]
      /\ \A i \in 1..Len(t) : t[i] = q[i + 1]
  OBVIOUS
<1> HIDE DEF t
<1>0. ASSUME NEW j \in Int, 1 <= j, j <= Len(q), j # 1
      PROVE  j - 1 \in 1..Len(t) /\ q[j] = t[j - 1]
  <2>1. j - 1 \in 1..Len(t) /\ (j - 1) + 1 = j
    BY <1>0, <1>1
  <2> QED BY <1>1, <2>1
<1>2. q[1] = Frame(p + 1) /\ p + 1 <= s
  BY <1>1 DEF Fits
<1>3. NoClose(t) <=> NoClose(q)
  <2>1. ASSUME NoClose(t), NEW i \in 1..Len(q) PROVE q[i] # Close
    <3>1. CASE i = 1
      BY <1>1, <3>1
    <3>2. CASE i # 1
      <4>1. i \in Int /\ 1 <= i /\ i <= Len(q)
        BY <1>1
      <4>2. i - 1 \in 1..Len(t) /\ q[i] = t[i - 1]
        BY <1>0, <3>2, <4>1
      <4> QED BY <2>1, <4>2 DEF NoClose
    <3> QED BY <3>1, <3>2
  <2>2. ASSUME NoClose(q), NEW i \in 1..Len(t) PROVE t[i] # Close
    BY <1>1, <2>2 DEF NoClose
  <2> QED BY <2>1, <2>2 DEF NoClose
<1>4. ASSUME NEW i \in 1..Len(t), \A j \in 1..i : t[j] # Close
      PROVE  t[i] = Frame(p + 1 + i) /\ p + 1 + i <= s
  <2>1. ASSUME NEW j \in 1..(i + 1) PROVE q[j] # Close
    <3>1. j <= Len(q) /\ j \in Int /\ 1 <= j
      BY <1>1
    <3>2. j # 1 => j - 1 \in 1..i
      BY <3>1
    <3> QED BY <1>0, <1>1, <1>4, <3>1, <3>2
  <2>2. i + 1 \in 1..Len(q) /\ p + (i + 1) = p + 1 + i
    BY <1>1
  <2>3. q[i + 1] = Frame(p + (i + 1)) /\ p + (i + 1) <= s
    BY <2>1, <2>2 DEF Fits
  <2> QED BY <1>1, <2>2, <2>3
<1> QED BY <1>1, <1>2, <1>3, <1>4 DEF Fits, t

(* Dropping the oldest frames keeps what follows.                            *)
LEMMA FitsSuffix ==
    ASSUME NEW q \in Seq(Frames), NEW p \in Int, NEW s \in Nat, Fits(q, p, s), NoClose(q),
           NEW k \in 0..Len(q), NEW t, t = SubSeq(q, k + 1, Len(q))
    PROVE  t \in Seq(Frames) /\ Len(t) = Len(q) - k /\ NoClose(t) /\ Fits(t, p + k, s)
<1>1. /\ t \in Seq(Frames) /\ Len(t) = Len(q) - k /\ Len(q) \in Nat
      /\ \A i \in 1..Len(t) : t[i] = q[k + i]
  OBVIOUS
<1>2. ASSUME NEW i \in 1..Len(t) PROVE t[i] # Close /\ t[i] = Frame(p + k + i) /\ p + k + i <= s
  <2>1. k + i \in 1..Len(q) /\ p + (k + i) = p + k + i
    BY <1>1
  <2>2. \A j \in 1..(k + i) : q[j] # Close
    BY <2>1 DEF NoClose
  <2>3. q[k + i] = Frame(p + (k + i)) /\ p + (k + i) <= s /\ q[k + i] # Close
    BY <2>1, <2>2 DEF Fits, NoClose
  <2>4. t[i] = q[k + i]
    BY <1>1
  <2> QED BY <2>1, <2>3, <2>4
<1> QED BY <1>1, <1>2 DEF NoClose, Fits

LEMMA FitsMore ==
    ASSUME NEW q \in Seq(Frames), NEW p \in Int, NEW s \in Nat, NEW t \in Nat, s <= t, Fits(q, p, s)
    PROVE  Fits(q, p, t)
  BY DEF Fits

(* Before the first message the stream is hellos, and one more changes nothing. *)
LEMMA FitsHellos ==
    ASSUME NEW q \in Seq(Frames), NEW p \in Int, Fits(q, p, 0)
    PROVE  Fits(q, p - 1, 0)
<1>1. ASSUME NEW i \in 1..Len(q), q[i] = Frame(p + i), p + i <= 0
      PROVE  q[i] = Frame(p - 1 + i) /\ p - 1 + i <= 0
  BY <1>1 DEF Frame
<1> QED BY <1>1 DEF Fits

LEMMA ClosedAppend ==
    ASSUME NEW q \in Seq(Frames) PROVE ~NoClose(Append(q, Close))
<1>1. Len(Append(q, Close)) = Len(q) + 1 /\ Append(q, Close)[Len(q) + 1] = Close /\ Len(q) \in Nat
  OBVIOUS
<1> QED BY <1>1 DEF NoClose

LEMMA AnsweredFrames ==
    ASSUME NEW q \in Seq(Frames)
    PROVE  /\ Answered(q) \in {q, Append(q, Close)} /\ Answered(q) \in Seq(Frames)
           /\ ~NoClose(Answered(q))
<1>1. Append(q, Close) \in Seq(Frames) /\ Append(q, Close)[Len(q) + 1] = Close
      /\ Len(Append(q, Close)) = Len(q) + 1
  BY FrameTypes
<1>2. CASE q # <<>> /\ Last(q) = Close
  BY <1>2 DEF Answered, NoClose, Last
<1>3. CASE ~(q # <<>> /\ Last(q) = Close)
  BY <1>1, <1>3 DEF Answered, NoClose
<1> QED BY <1>2, <1>3

-----------------------------------------------------------------------------
(* A data socket *)

\* What closes, loses or opens a data socket.
Calmer(d, e) ==
    /\ e.near = "open" => d.near = "open"
    /\ Taking(e) => Taking(d)
    /\ \/ /\ e.far = d.far /\ e.early = d.early /\ e.got = d.got
          /\ e.in \in {d.in, Append(d.in, Close), <<Close>>}
       \/ e.far \in {"closing", "closed"} /\ e.got = d.got
       \/ e = [NoData EXCEPT !.far = "connecting"]

LEMMA CalmerKept ==
    ASSUME NEW d \in Sockets, NEW e \in Sockets, Calmer(d, e)
    PROVE  Kept(d, e)
<1> SUFFICES ASSUME NEW s \in 0..MaxSends, NEW p \in Int, NEW l \in BOOLEAN, Taken(d, s, p, l)
             PROVE  Taken(e, s, p, l)
  BY DEF Kept, Calmer
<1>1. PICK r \in Int : Sock(d, r, s) /\ (l => Fed(d, r, p))
  BY DEF Taken
<1>2. CASE /\ e.far = d.far /\ e.early = d.early /\ e.got = d.got
           /\ e.in \in {d.in, Append(d.in, Close), <<Close>>}
  <2>1. Live(e) => Fits(e.in, r, s)
    <3>1. CASE e.in = d.in
      BY <1>1, <1>2, <3>1 DEF Sock, Live
    <3>2. CASE e.in = Append(d.in, Close)
      BY <1>1, <1>2, <3>2, FitsAppend, FrameTypes DEF Sock, Live, Sockets
    <3>3. CASE e.in = <<Close>>
      BY <3>3 DEF Fits
    <3> QED BY <1>2, <3>1, <3>2, <3>3
  <2>2. NoClose(e.in) => e.in = d.in
    <3>1. CASE e.in = Append(d.in, Close)
      <4>1. d.in \in Seq(Frames)
        BY DEF Sockets
      <4> QED BY <3>1, <4>1, ClosedAppend
    <3>2. CASE e.in = <<Close>>
      BY <3>2 DEF NoClose
    <3> QED BY <1>2, <3>1, <3>2
  <2>3. Sock(e, r, s)
    BY <1>1, <1>2, <2>1 DEF Sock, Live, Numbered
  <2>4. l => Fed(e, r, p)
    BY <1>1, <1>2, <2>2 DEF Fed, Live, Calmer
  <2> QED BY <2>3, <2>4 DEF Taken
<1>3. CASE e.far \in {"closing", "closed"} /\ e.got = d.got
  BY <1>1, <1>3 DEF Sock, Live, Numbered, Fed, Taken
<1>4. CASE e = [NoData EXCEPT !.far = "connecting"]
  <2>1. e.far = "connecting" /\ e.early = <<>> /\ e.got = <<>>
    BY <1>4 DEF NoData
  <2> QED BY <1>1, <2>1 DEF Sock, Live, Numbered, Fed, Taken
<1> QED BY <1>2, <1>3, <1>4 DEF Calmer

LEMMA SameKept ==
    ASSUME NEW d PROVE Kept(d, d)
  BY DEF Kept

(* close() at either end *)
LEMMA SocketFields ==
    ASSUME NEW d \in Sockets
    PROVE  /\ d.far \in FarStates /\ d.near \in NearStates
           /\ d.in \in Seq(Frames) /\ d.out \in Seq(Frames) /\ d.early \in Seq(Frames)
           /\ d.got \in Seq(1..MaxSends)
           /\ \A f \in Frames : Append(d.in, f) \in Seq(Frames) /\ Append(d.out, f) \in Seq(Frames)
                                /\ Append(d.early, f) \in Seq(Frames)
           /\ d.in # <<>> => Tail(d.in) \in Seq(Frames) /\ Head(d.in) \in Frames
           /\ d.out # <<>> => Tail(d.out) \in Seq(Frames) /\ Head(d.out) \in Frames
<1>1. /\ d.far \in FarStates /\ d.near \in NearStates
      /\ d.in \in Seq(Frames) /\ d.out \in Seq(Frames) /\ d.early \in Seq(Frames)
      /\ d.got \in Seq(1..MaxSends)
  BY DEF Sockets
<1> QED BY <1>1

LEMMA CloseNearCalm ==
    ASSUME NEW d \in Sockets
    PROVE  CloseNear(d) \in Sockets /\ Calmer(d, CloseNear(d))
<1>1. CASE d.near = "open"
  <2>1. CloseNear(d) = [d EXCEPT !.near = "closing", !.in = Append(@, Close)]
    BY <1>1 DEF CloseNear
  <2>2. Append(d.in, Close) \in Seq(Frames)
    BY SocketFields, FrameTypes
  <2>3. CloseNear(d) \in Sockets
    BY <2>1, <2>2 DEF Sockets, NearStates
  <2> QED BY <1>1, <2>1, <2>3 DEF Calmer, Taking, Sockets
<1>2. CASE d.near # "open"
  BY <1>2 DEF CloseNear, Calmer
<1> QED BY <1>1, <1>2

LEMMA CloseFarCalm ==
    ASSUME NEW d \in Sockets
    PROVE  CloseFar(d) \in Sockets /\ Calmer(d, CloseFar(d))
<1>1. CASE d.far = "connecting"
  BY <1>1 DEF CloseFar, Calmer, Taking, Sockets, FarStates
<1>2. CASE d.far \in {"await", "ready", "open"}
  <2>1. CloseFar(d) = [d EXCEPT !.far = "closing", !.out = Append(@, Close)]
    BY <1>2 DEF CloseFar
  <2>2. Append(d.out, Close) \in Seq(Frames)
    BY SocketFields, FrameTypes
  <2>3. CloseFar(d) \in Sockets
    BY <2>1, <2>2 DEF Sockets, FarStates
  <2> QED BY <1>2, <2>1, <2>3 DEF Calmer, Taking, Sockets
<1>3. CASE d.far \notin {"connecting", "await", "ready", "open"}
  BY <1>3 DEF CloseFar, Calmer, Taking, Sockets
<1> QED BY <1>1, <1>2, <1>3

LEMMA FreshCalm ==
    ASSUME NEW d \in Sockets
    PROVE  /\ [NoData EXCEPT !.far = "connecting"] \in Sockets
           /\ Calmer(d, [NoData EXCEPT !.far = "connecting"])
<1>1. <<>> \in Seq(Frames) /\ <<>> \in Seq(1..MaxSends)
  OBVIOUS
<1>2. [NoData EXCEPT !.far = "connecting"] =
          [far |-> "connecting", near |-> "none", in |-> <<>>, out |-> <<>>, early |-> <<>>, got |-> <<>>]
  BY DEF NoData
<1>3. [NoData EXCEPT !.far = "connecting"] \in Sockets
  BY <1>1, <1>2 DEF Sockets, FarStates, NearStates
<1> QED BY <1>2, <1>3 DEF Calmer, Taking

(* It takes the next frame. *)
Received(d) ==
    LET f == Head(d.in)
        rest == [d EXCEPT !.in = Tail(@)]
    IN  CASE d.far = "await" /\ f = Hello -> [rest EXCEPT !.far = "ready", !.out = Append(@, Ready)]
          [] d.far = "await" /\ f # Hello -> CloseFar(rest)
          [] d.far = "ready" -> [rest EXCEPT !.early = Early(@, f)]
          [] d.far = "open" /\ f = Hello -> [rest EXCEPT !.out = Append(@, Ready)]
          [] d.far = "open" /\ f # Hello -> [rest EXCEPT !.got = Append(@, f.n)]
          [] OTHER -> rest

LEMMA NextFrameTaken ==
    ASSUME NEW d \in Sockets, d.in # <<>>, Head(d.in) # Close,
           NEW s \in 0..MaxSends, NEW p \in Int, NEW l \in BOOLEAN, Taken(d, s, p, l)
    PROVE  Received(d) \in Sockets /\ Taken(Received(d), s, p, l)
<1> DEFINE f == Head(d.in)
           rest == [d EXCEPT !.in = Tail(@)]
           e == Received(d)
<1>1. PICK r \in Int : Sock(d, r, s) /\ (l => Fed(d, r, p))
  BY DEF Taken
<1>2. /\ f \in Frames /\ d.in \in Seq(Frames) /\ Tail(d.in) \in Seq(Frames)
      /\ d.early \in Seq(Frames) /\ d.got \in Seq(1..MaxSends)
      /\ Append(d.out, Ready) \in Seq(Frames) /\ Append(d.early, f) \in Seq(Frames)
  BY SocketFields, FrameTypes
<1>3. rest \in Sockets /\ rest.in = Tail(d.in) /\ rest.far = d.far /\ rest.near = d.near
      /\ rest.early = d.early /\ rest.got = d.got /\ rest.out = d.out
  BY <1>2 DEF Sockets
<1>4. ASSUME Live(d)
      PROVE  /\ Fits(rest.in, r + 1, s) /\ Len(d.in) = Len(rest.in) + 1 /\ Len(rest.in) \in Nat
             /\ NoClose(rest.in) <=> NoClose(d.in)
             /\ f = Frame(r + 1) /\ r + 1 <= s
  <2>1. Fits(d.in, r, s) /\ s \in Nat
    BY <1>1, <1>4 DEF Sock
  <2>2. Len(Tail(d.in)) \in Nat
    BY <1>2
  <2> HIDE DEF f, rest
  <2> QED BY <1>2, <1>3, <2>1, <2>2, FitsTail DEF f
<1> HIDE DEF f, rest
<1>5. ASSUME NEW x, x.in = rest.in, x.near = d.near, Live(d), Sock(x, r + 1, s)
      PROVE  Taken(x, s, p, l)
  <2>1. ASSUME l, d.near = "open", NoClose(x.in) PROVE r + 1 + Len(x.in) = p
    <3>1. NoClose(d.in) /\ Len(d.in) = Len(x.in) + 1 /\ Len(x.in) \in Nat
      BY <1>4, <1>5, <2>1
    <3>2. r + Len(d.in) = p
      BY <1>1, <1>5, <2>1, <3>1 DEF Fed
    <3>3. \A a, b \in Int : a = b + 1 /\ r + a = p => r + 1 + b = p
      OBVIOUS
    <3>4. Len(d.in) \in Int
      BY <1>2
    <3>5. Len(d.in) = Len(x.in) + 1
      BY <3>1
    <3>6. Len(x.in) \in Int
      BY <3>1
    <3>7. r + 1 + Len(x.in) = p
      BY <3>2, <3>3, <3>4, <3>5, <3>6
    <3> QED BY <3>7
  <2>2. l => Fed(x, r + 1, p)
    BY <1>5, <2>1 DEF Fed
  <2> QED BY <1>5, <2>2 DEF Taken
<1>6. CASE d.far = "await" /\ f = Hello
  <2>1. e = [rest EXCEPT !.far = "ready", !.out = Append(@, Ready)]
    BY <1>6 DEF Received, f, rest
  <2>2. e \in Sockets
    BY <1>2, <1>3, <2>1 DEF Sockets, FarStates
  <2>3. /\ e.far = "ready" /\ e.near = d.near /\ e.in = rest.in /\ e.early = d.early /\ e.got = d.got
    BY <1>3, <2>1 DEF Sockets
  <2>4. r + 1 <= 0
    BY <1>4, <1>6, FrameKinds DEF Live
  <2>5. d.early = <<>> /\ d.got = <<>>
    BY <1>1, <1>6 DEF Sock
  <2> HIDE DEF e
  <2>6. Sock(e, r + 1, s)
    BY <1>4, <1>6, <2>3, <2>4, <2>5 DEF Sock, Live, Numbered
  <2> QED BY <1>5, <1>6, <2>2, <2>3, <2>6 DEF Live, e
<1>7. CASE d.far = "await" /\ f # Hello
  <2>1. e = CloseFar(rest)
    BY <1>7 DEF Received, f, rest
  <2>2. e \in Sockets /\ e = [rest EXCEPT !.far = "closing", !.out = Append(@, Close)]
    BY <1>3, <1>7, <2>1, CloseFarCalm DEF CloseFar
  <2>3. e.far = "closing" /\ e.got = d.got
    BY <1>3, <2>2 DEF Sockets
  <2> HIDE DEF e
  <2> QED BY <1>1, <2>2, <2>3 DEF Sock, Live, Numbered, Fed, Taken, e
<1>8. CASE d.far = "ready"
  <2>1. e = [rest EXCEPT !.early = Early(@, f)]
    BY <1>8 DEF Received, f, rest
  <2>2. Early(d.early, f) = IF f = Hello THEN d.early ELSE Append(d.early, f)
    BY DEF Early
  <2>0. Early(d.early, f) \in Seq(Frames)
    BY <1>2, <2>2
  <2>3. e \in Sockets
    BY <1>3, <2>0, <2>1 DEF Sockets
  <2>4. /\ e.far = "ready" /\ e.near = d.near /\ e.in = rest.in /\ e.got = d.got
        /\ e.early = Early(d.early, f)
    BY <1>3, <1>8, <2>1 DEF Sockets
  <2>5. /\ Len(d.early) = IF r > 0 THEN r ELSE 0
        /\ \A i \in 1..Len(d.early) : d.early[i] = Cipher(i)
    BY <1>1, <1>8 DEF Sock, Numbered
  <2> HIDE DEF e
  <2>6. Numbered(e, r + 1)
    <3>1. CASE f = Hello
      <4>1. r + 1 <= 0 /\ e.early = d.early
        BY <1>4, <1>8, <2>2, <2>4, <3>1, FrameKinds DEF Live
      <4> QED BY <2>4, <2>5, <4>1 DEF Numbered
    <3>2. CASE f # Hello
      <4>1. r + 1 > 0 /\ f = Cipher(r + 1) /\ e.early = Append(d.early, f)
        BY <1>4, <1>8, <2>2, <2>4, <3>2 DEF Live, Frame
      <4>2. Len(d.early) = r
        BY <2>5, <4>1
      <4>3. Len(e.early) = r + 1
        BY <1>2, <4>1, <4>2
      <4>4. ASSUME NEW i \in 1..Len(e.early) PROVE e.early[i] = Cipher(i)
        <5>1. CASE i = r + 1
          BY <1>2, <4>1, <4>2, <5>1
        <5>2. CASE i # r + 1
          <6>1. i \in 1..Len(d.early)
            BY <4>1, <4>2, <4>3, <5>2
          <6> QED BY <1>2, <2>5, <4>1, <6>1
        <5> QED BY <5>1, <5>2
      <4> QED BY <2>4, <4>1, <4>3, <4>4 DEF Numbered
    <3> QED BY <3>1, <3>2
  <2>7. Sock(e, r + 1, s)
    BY <1>1, <1>4, <1>8, <2>4, <2>6 DEF Sock, Live
  <2> QED BY <1>5, <1>8, <2>3, <2>4, <2>7 DEF Live, e
<1>9. CASE d.far = "open" /\ f = Hello
  <2>1. e = [rest EXCEPT !.out = Append(@, Ready)]
    BY <1>9 DEF Received, f, rest
  <2>2. e \in Sockets
    BY <1>2, <1>3, <2>1 DEF Sockets
  <2>3. /\ e.far = "open" /\ e.near = d.near /\ e.in = rest.in /\ e.early = d.early /\ e.got = d.got
    BY <1>3, <1>9, <2>1 DEF Sockets
  <2>4. r + 1 <= 0
    BY <1>4, <1>9, FrameKinds DEF Live
  <2> HIDE DEF e
  <2>5. Sock(e, r + 1, s)
    BY <1>1, <1>4, <1>9, <2>3, <2>4 DEF Sock, Live, Numbered
  <2> QED BY <1>5, <1>9, <2>2, <2>3, <2>5 DEF Live, e
<1>10. CASE d.far = "open" /\ f # Hello
  <2>1. e = [rest EXCEPT !.got = Append(@, f.n)]
    BY <1>10 DEF Received, f, rest
  <2>2. r + 1 > 0 /\ f.n = r + 1 /\ r + 1 \in 1..MaxSends /\ r + 1 <= s
    BY <1>4, <1>10, FrameKinds DEF Live, Frame
  <2>3. Append(d.got, f.n) \in Seq(1..MaxSends)
    BY <1>2, <2>2
  <2>4. e \in Sockets
    BY <1>2, <1>3, <2>1, <2>3 DEF Sockets
  <2>5. /\ e.far = "open" /\ e.near = d.near /\ e.in = rest.in /\ e.early = d.early
        /\ e.got = Append(d.got, r + 1)
    BY <1>3, <1>10, <2>1, <2>2 DEF Sockets
  <2>6. Len(d.got) = r /\ \A i \in 1..Len(d.got) : d.got[i] = i
    BY <1>1, <1>10, <2>2 DEF Sock, Numbered
  <2> HIDE DEF e
  <2>7. Len(e.got) = r + 1
    BY <1>2, <2>5, <2>6
  <2>8. ASSUME NEW i \in 1..Len(e.got) PROVE e.got[i] = i
    <3>1. CASE i = r + 1
      BY <1>2, <2>5, <2>6, <3>1
    <3>2. CASE i # r + 1
      <4>1. i \in 1..Len(d.got)
        BY <2>2, <2>6, <2>7, <3>2
      <4> QED BY <1>2, <2>5, <2>6, <4>1
    <3> QED BY <3>1, <3>2
  <2>9. Sock(e, r + 1, s)
    BY <1>1, <1>4, <1>10, <2>2, <2>5, <2>7, <2>8 DEF Sock, Live, Numbered
  <2> QED BY <1>5, <1>10, <2>4, <2>5, <2>9 DEF Live, e
<1>11. CASE ~Live(d)
  <2>1. e = rest
    BY <1>11 DEF Received, f, rest, Live
  <2> QED BY <1>1, <1>3, <1>11, <2>1 DEF Sock, Live, Numbered, Fed, Taken
<1> QED BY <1>6, <1>7, <1>8, <1>9, <1>10, <1>11 DEF Live

(* The channel opens. *)
Opened(d) == [d EXCEPT !.far = "open", !.early = <<>>, !.got = [i \in 1..Len(d.early) |-> d.early[i].n]]

LEMMA KeptFramesTaken ==
    ASSUME NEW d \in Sockets, d.far = "ready",
           NEW s \in 0..MaxSends, NEW p \in Int, NEW l \in BOOLEAN, Taken(d, s, p, l)
    PROVE  Opened(d) \in Sockets /\ Taken(Opened(d), s, p, l)
<1> DEFINE got == [i \in 1..Len(d.early) |-> d.early[i].n]
           e == Opened(d)
<1>1. PICK r \in Int : Sock(d, r, s) /\ (l => Fed(d, r, p))
  BY DEF Taken
<1>2. d.early \in Seq(Frames) /\ Len(d.early) \in Nat
  BY SocketFields
<1>3. /\ Len(d.early) = IF r > 0 THEN r ELSE 0
      /\ \A i \in 1..Len(d.early) : d.early[i] = Cipher(i)
      /\ r <= s
  BY <1>1 DEF Sock, Numbered, Live
<1>4. \A i \in 1..Len(d.early) : got[i] = i /\ i \in 1..MaxSends
  BY <1>3, FrameKinds
<1>5. got \in Seq(1..MaxSends) /\ Len(got) = Len(d.early)
  <2>1. got \in [1..Len(d.early) -> 1..MaxSends]
    BY <1>4
  <2> HIDE DEF got
  <2> QED BY <1>2, <2>1
<1> HIDE DEF got
<1>6. e = [d EXCEPT !.far = "open", !.early = <<>>, !.got = got]
  BY DEF Opened, got
<1>7. <<>> \in Seq(Frames)
  OBVIOUS
<1>8. e \in Sockets
  BY <1>5, <1>6, <1>7 DEF Sockets, FarStates
<1>9. e.far = "open" /\ e.near = d.near /\ e.in = d.in /\ e.early = <<>> /\ e.got = got
  BY <1>6 DEF Sockets
<1> HIDE DEF e
<1>10. Sock(e, r, s)
  BY <1>1, <1>3, <1>4, <1>5, <1>9 DEF Sock, Live, Numbered
<1>11. l => Fed(e, r, p)
  BY <1>1, <1>9 DEF Fed, Live
<1> QED BY <1>8, <1>10, <1>11 DEF Taken, e

(* What the others of its client do to it. *)
LEMMA TakenMore ==
    ASSUME NEW d, d.in \in Seq(Frames), NEW s \in Nat, NEW p \in Int, NEW l \in BOOLEAN, Taken(d, s, p, l)
    PROVE  Taken(d, s + 1, p, l)
<1>1. PICK r \in Int : Sock(d, r, s) /\ (l => Fed(d, r, p))
  BY DEF Taken
<1>2. Live(d) => r <= s + 1 /\ Fits(d.in, r, s + 1)
  BY <1>1, FitsMore DEF Sock
<1>3. Len(d.got) <= s + 1
  <2>1. Len(d.got) <= s
    BY <1>1 DEF Sock
  <2> QED BY <2>1
<1> QED BY <1>1, <1>2, <1>3 DEF Sock, Taken

LEMMA TakenHellos ==
    ASSUME NEW d, d.in \in Seq(Frames), NEW p \in Int, NEW l \in BOOLEAN, Taken(d, 0, p, l)
    PROVE  Taken(d, 0, p - 1, l)
<1>1. PICK r \in Int : Sock(d, r, 0) /\ (l => Fed(d, r, p))
  BY DEF Taken
<1>2. Live(d) => r - 1 <= 0 /\ Fits(d.in, r - 1, 0)
  BY <1>1, FitsHellos DEF Sock
<1>3. Numbered(d, r - 1)
  BY <1>1 DEF Sock, Numbered, Live
<1>4. l => Fed(d, r - 1, p - 1)
  <2>1. Len(d.in) \in Nat
    OBVIOUS
  <2> QED BY <1>1, <2>1 DEF Fed
<1> QED BY <1>1, <1>2, <1>3, <1>4 DEF Sock, Taken

LEMMA TakenAnywhere ==
    ASSUME NEW d, NEW s, NEW p, NEW q, NEW l, d.near # "open", Taken(d, s, p, l)
    PROVE  Taken(d, s, q, l)
  BY DEF Taken, Fed

LEMMA TakenFed ==
    ASSUME NEW d \in Sockets, NEW f \in Frames, NEW s \in Nat, NEW p \in Int,
           f = Frame(p + 1), p + 1 <= s, d.near = "open", Taken(d, s, p, TRUE)
    PROVE  /\ [d EXCEPT !.in = Append(@, f)] \in Sockets
           /\ Taken([d EXCEPT !.in = Append(@, f)], s, p + 1, TRUE)
<1> DEFINE e == [d EXCEPT !.in = Append(@, f)]
<1>1. PICK r \in Int : Sock(d, r, s) /\ Fed(d, r, p)
  BY DEF Taken
<1>2. Append(d.in, f) \in Seq(Frames) /\ d.in \in Seq(Frames) /\ Len(d.in) \in Nat
  BY SocketFields
<1>3. e \in Sockets
  BY <1>2 DEF Sockets
<1>4. /\ e.far = d.far /\ e.near = d.near /\ e.in = Append(d.in, f)
      /\ e.early = d.early /\ e.got = d.got
  BY DEF Sockets
<1> HIDE DEF e
<1>5. f # Close
  BY FrameKinds
<1>6. ASSUME Live(d)
      PROVE  /\ Fits(e.in, r, s)
             /\ NoClose(e.in) => r + Len(e.in) = p + 1
  <2>1. Fits(d.in, r, s)
    BY <1>1, <1>6 DEF Sock
  <2>2. NoClose(d.in) => r + Len(d.in) = p
    BY <1>1, <1>6 DEF Fed
  <2>3. NoClose(d.in) => f = Frame(r + Len(d.in) + 1) /\ r + Len(d.in) + 1 <= s
    BY <2>2
  <2>4. /\ Fits(Append(d.in, f), r, s) /\ Len(Append(d.in, f)) = Len(d.in) + 1
        /\ NoClose(Append(d.in, f)) <=> NoClose(d.in) /\ f # Close
    BY <1>2, <2>1, <2>3, FitsAppend
  <2>5. NoClose(e.in) => r + Len(d.in) = p /\ Len(e.in) = Len(d.in) + 1
    BY <1>4, <2>2, <2>4
  <2>6. NoClose(e.in) => r + Len(e.in) = p + 1
    BY <1>2, <2>5
  <2> QED BY <1>4, <2>4, <2>6
<1>7. Sock(e, r, s)
  BY <1>1, <1>4, <1>6 DEF Sock, Live, Numbered
<1>8. Fed(e, r, p + 1)
  BY <1>4, <1>6 DEF Fed, Live
<1> QED BY <1>3, <1>7, <1>8 DEF Taken, e

-----------------------------------------------------------------------------
(* A client *)

\* Nothing happens to its stream but a close.
Calm(c) ==
    /\ sent'[c] = sent[c]
    /\ client'[c] \in {client[c], "closed"} \/ (client[c] = "handshaking" /\ client'[c] = "open")
    /\ \/ /\ Listed(c)' <=> Listed(c)
          /\ pending'[c] = pending[c]
          /\ Listed(c) => up'[c] \in {up[c], Append(up[c], Close), <<Close>>}
       \/ ~Listed(c)' /\ pending'[c] = <<>>
    /\ \A g \in Gens : Kept(data[c][g], data'[c][g])

LEMMA Typed ==
    ASSUME TypeInv, NEW c \in Conns
    PROVE  /\ sent[c] \in 0..MaxSends /\ sent[c] \in Nat /\ Listed(c) \in BOOLEAN
           /\ up[c] \in Seq(Frames) /\ pending[c] \in Seq(Frames)
           /\ Len(up[c]) \in Nat /\ Len(pending[c]) \in Nat
           /\ \A g \in Gens : data[c][g] \in Sockets
<1>1. up[c] \in Seq(Frames) /\ pending[c] \in Seq(Frames) /\ sent[c] \in 0..MaxSends
  BY DEF TypeInv
<1>2. \A g \in Gens : data[c][g] \in Sockets
  BY DEF TypeInv
<1> QED BY <1>1, <1>2 DEF Listed

LEMMA CalmKeeps ==
    ASSUME TypeInv, NEW c \in Conns, ConnInv(c), Calm(c), Unborn(c)'
    PROVE  ConnInv(c)'
<1>1. PICK p \in Int : Line(c, p) /\ \A g \in Gens : Taken(data[c][g], sent[c], p, Listed(c))
  BY DEF ConnInv, Stream
<1>2. /\ sent'[c] = sent[c] /\ sent[c] \in 0..MaxSends /\ sent[c] \in Nat
      /\ up[c] \in Seq(Frames) /\ Listed(c) \in BOOLEAN
  BY Typed DEF Calm
<1>3. Listed(c)' => Listed(c)
  BY DEF Calm
<1>4. \A g \in Gens : Taken(data'[c][g], sent'[c], p, Listed(c)')
  <2> TAKE g \in Gens
  <2>1. Taken(data'[c][g], sent[c], p, Listed(c))
    BY <1>1, <1>2 DEF Calm, Kept
  <2>2. Taken(data'[c][g], sent[c], p, Listed(c)')
    BY <1>3, <2>1 DEF Taken
  <2> QED BY <1>2, <2>2
<1>5. Line(c, p)'
  <2> SUFFICES ASSUME Listed(c)'
               PROVE  /\ Fits(up'[c], p, sent'[c]) /\ p <= sent'[c]
                      /\ client'[c] \in {"handshaking", "open"} /\ NoClose(up'[c])
                            => p + Len(up'[c]) = sent'[c]
                      /\ NoClose(pending'[c]) /\ Fits(pending'[c], p - Len(pending'[c]), sent'[c])
    BY DEF Line
  <2>1. /\ pending'[c] = pending[c] /\ Listed(c)
        /\ up'[c] \in {up[c], Append(up[c], Close), <<Close>>}
    BY DEF Calm
  <2>2. Fits(up[c], p, sent[c]) /\ p <= sent[c]
        /\ NoClose(pending[c]) /\ Fits(pending[c], p - Len(pending[c]), sent[c])
    BY <1>1, <2>1 DEF Line
  <2>3. client[c] \in {"handshaking", "open"} /\ NoClose(up[c]) => p + Len(up[c]) = sent[c]
    BY <1>1, <2>1 DEF Line
  <2>4. client'[c] \in {"handshaking", "open"} => client[c] \in {"handshaking", "open"}
    BY DEF Calm
  <2>5. CASE up'[c] = up[c]
    BY <1>2, <2>1, <2>2, <2>3, <2>4, <2>5
  <2>6. CASE up'[c] = Append(up[c], Close)
    <3>1. ~NoClose(up'[c])
      BY <1>2, <2>6, ClosedAppend
    <3>2. Fits(up'[c], p, sent[c])
      BY <1>2, <2>2, <2>6, FitsAppend, FrameTypes
    <3> QED BY <1>2, <2>1, <2>2, <3>1, <3>2
  <2>7. CASE up'[c] = <<Close>>
    <3>1. ~NoClose(up'[c]) /\ Fits(up'[c], p, sent[c])
      BY <2>7 DEF NoClose, Fits
    <3> QED BY <1>2, <2>1, <2>2, <3>1
  <2> QED BY <2>1, <2>5, <2>6, <2>7
<1>6. Stream(c)'
  BY <1>4, <1>5 DEF Stream
<1>7. Buffered(c)'
  <2>1. Servers(c)' # {} => Servers(c) # {}
    BY DEF Calm, Kept, Taking, Servers
  <2> QED BY <2>1 DEF Calm, ConnInv, Buffered
<1>8. Quiet(c)'
  BY <1>2 DEF Calm, ConnInv, Quiet
<1> QED BY <1>6, <1>7, <1>8 DEF ConnInv

\* The other clients see nothing of it.
Apart(x) ==
    /\ client'[x] = client[x] /\ sent'[x] = sent[x] /\ up'[x] = up[x]
    /\ atRelay'[x] = atRelay[x] /\ pending'[x] = pending[x]
    /\ \A g \in Gens : data'[x][g] = data[x][g]

LEMMA ApartKeeps ==
    ASSUME TypeInv, NEW x \in Conns, ConnInv(x), Apart(x)
    PROVE  ConnInv(x)'
<1>1. \A g \in Gens : Kept(data[x][g], data'[x][g])
  BY SameKept DEF Apart
<1>2. Calm(x)
  BY <1>1 DEF Apart, Calm, Listed
<1>3. Unborn(x)'
  BY DEF ConnInv, Unborn, Apart
<1> QED BY <1>2, <1>3, CalmKeeps

LEMMA OneClient ==
    ASSUME Inv, NEW c \in Conns, TypeInv', Known', ConnInv(c)', \A x \in Conns \ {c} : Apart(x)
    PROVE  Inv'
  BY ApartKeeps DEF Inv

(* Data sockets that only close, open or take what is on its way. *)
LEMMA SocketsKeep ==
    ASSUME Inv, TypeInv', Known', UNCHANGED <<client, sent, up, pending>>,
           NEW h \in [Conns -> [Gens -> Sockets]], data' = h,
           \A x \in Conns, g \in Gens : Kept(data[x][g], h[x][g]),
           \A x \in Conns : client[x] = "new" =>
               atRelay'[x] = atRelay[x] /\ \A g \in Gens : h[x][g] = data[x][g],
           \A x \in Conns : Listed(x)' <=> Listed(x)
    PROVE  Inv'
<1> SUFFICES ASSUME NEW x \in Conns PROVE ConnInv(x)'
  BY DEF Inv
<1>1. Calm(x)
  BY DEF Calm
<1>2. Unborn(x)'
  BY DEF Inv, ConnInv, Unborn
<1> QED BY <1>1, <1>2, CalmKeeps DEF Inv

LEMMA DataPut ==
    ASSUME TypeInv, NEW c \in Conns, NEW g \in Gens, NEW e \in Sockets
    PROVE  /\ [data EXCEPT ![c][g] = e] \in [Conns -> [Gens -> Sockets]]
           /\ [data EXCEPT ![c][g] = e][c][g] = e
           /\ \A x \in Conns, k \in Gens : x # c \/ k # g => [data EXCEPT ![c][g] = e][x][k] = data[x][k]
  BY DEF TypeInv

LEMMA OneSocket ==
    ASSUME Inv, NEW c \in Conns, NEW g \in Gens, NEW e \in Sockets, data[c][g] # NoData,
           Kept(data[c][g], e), data' = [data EXCEPT ![c][g] = e],
           UNCHANGED <<client, sent, up, pending, notices>>,
           UNCHANGED atRelay \/ CloseClient(c)
    PROVE  Inv'
<1> DEFINE h == [data EXCEPT ![c][g] = e]
<1>1. /\ h \in [Conns -> [Gens -> Sockets]] /\ h[c][g] = e
      /\ \A x \in Conns, k \in Gens : x # c \/ k # g => h[x][k] = data[x][k]
  BY DataPut DEF Inv
<1> HIDE DEF h
<1>2. /\ atRelay' \in [Conns -> NearStates] /\ \A x \in Conns : Listed(x)' <=> Listed(x)
      /\ \A x \in Conns \ {c} : atRelay'[x] = atRelay[x]
  BY DEF Inv, TypeInv, CloseClient, Listed, NearStates
<1>3. client[c] # "new"
  BY DEF Inv, ConnInv, Unborn
<1>4. data' = h
  BY DEF h
<1>5. TypeInv'
  BY <1>1, <1>2, <1>4 DEF Inv, TypeInv
<1>6. Known'
  BY DEF Inv, Known
<1>7. \A x \in Conns, k \in Gens : Kept(data[x][k], h[x][k])
  BY <1>1, SameKept
<1>8. \A x \in Conns : client[x] = "new" =>
          atRelay'[x] = atRelay[x] /\ \A k \in Gens : h[x][k] = data[x][k]
  BY <1>1, <1>2, <1>3
<1> QED BY <1>1, <1>2, <1>4, <1>5, <1>6, <1>7, <1>8, SocketsKeep

-----------------------------------------------------------------------------
(* Notices *)

NoticeType == [kind : {"attach", "disconnected", "reset"}, ids : SUBSET Conns]

LEMMA NoticesKnown ==
    ASSUME TypeInv, Known, notices' = notices, \A x \in Conns : client[x] # "new" => client'[x] # "new"
    PROVE  Known'
<1> SUFFICES ASSUME NEW i \in 1..Len(notices), NEW x \in notices[i].ids PROVE client'[x] # "new"
  BY DEF Known
<1>1. notices[i] \in NoticeType
  <2>1. notices \in Seq(NoticeType)
    BY DEF TypeInv, NoticeType
  <2> QED BY <2>1
<1>2. x \in Conns
  BY <1>1 DEF NoticeType
<1> QED BY <1>2 DEF Known

LEMMA NotifyKnown ==
    ASSUME TypeInv, Known, NEW kind \in {"attach", "disconnected", "reset"}, NEW ids \in SUBSET Conns,
           notices' \in {notices, Append(notices, [kind |-> kind, ids |-> ids])},
           \A x \in ids : client'[x] # "new",
           \A x \in Conns : client[x] # "new" => client'[x] # "new"
    PROVE  notices' \in Seq(NoticeType) /\ Known'
<1> DEFINE m == [kind |-> kind, ids |-> ids]
<1>1. notices \in Seq(NoticeType) /\ m \in NoticeType
  BY DEF TypeInv, NoticeType
<1>2. \A i \in 1..Len(notices) : notices[i].ids \subseteq Conns
  <2> TAKE i \in 1..Len(notices)
  <2>1. notices[i] \in NoticeType
    BY <1>1
  <2> QED BY <2>1 DEF NoticeType
<1>3. CASE notices' = notices
  BY <1>1, <1>3, NoticesKnown
<1>4. CASE notices' = Append(notices, m)
  <2>1. m.ids = ids
    OBVIOUS
  <2> HIDE DEF m
  <2>2. /\ notices' \in Seq(NoticeType) /\ Len(notices') = Len(notices) + 1 /\ Len(notices) \in Nat
        /\ notices'[Len(notices) + 1] = m
        /\ \A i \in 1..Len(notices) : notices'[i] = notices[i]
    BY <1>1, <1>4
  <2>3. ASSUME NEW i \in 1..Len(notices'), NEW x \in notices'[i].ids PROVE client'[x] # "new"
    <3>1. CASE i = Len(notices) + 1
      BY <2>1, <2>2, <2>3, <3>1
    <3>2. CASE i # Len(notices) + 1
      <4>1. i \in 1..Len(notices)
        BY <2>2, <3>2
      <4>2. x \in notices[i].ids /\ x \in Conns /\ client[x] # "new"
        BY <1>2, <2>2, <2>3, <4>1 DEF Known
      <4> QED BY <4>2
    <3> QED BY <3>1, <3>2
  <2> QED BY <2>2, <2>3 DEF Known
<1> QED BY <1>3, <1>4

LEMMA NextNotice ==
    ASSUME TypeInv, Known, notices # <<>>
    PROVE  /\ Head(notices) \in NoticeType /\ \A x \in Head(notices).ids : x \in Conns /\ client[x] # "new"
           /\ Tail(notices) \in Seq(NoticeType)
           /\ \A i \in 1..Len(Tail(notices)) : \A x \in Tail(notices)[i].ids : client[x] # "new"
<1>1. notices \in Seq(NoticeType) /\ Len(notices) \in Nat
  BY DEF TypeInv, NoticeType
<1>2. /\ Head(notices) = notices[1] /\ 1 \in 1..Len(notices) /\ Head(notices) \in NoticeType
      /\ Tail(notices) \in Seq(NoticeType) /\ Len(Tail(notices)) = Len(notices) - 1
      /\ \A i \in 1..Len(Tail(notices)) : Tail(notices)[i] = notices[i + 1] /\ i + 1 \in 1..Len(notices)
  BY <1>1
<1>3. \A x \in Head(notices).ids : client[x] # "new"
  BY <1>2 DEF Known
<1>4. \A i \in 1..Len(Tail(notices)) : \A x \in Tail(notices)[i].ids : client[x] # "new"
  <2> TAKE i \in 1..Len(Tail(notices))
  <2>1. Tail(notices)[i] = notices[i + 1] /\ i + 1 \in 1..Len(notices)
    BY <1>2
  <2> QED BY <2>1 DEF Known
<1>5. Head(notices).ids \subseteq Conns
  BY <1>2 DEF NoticeType
<1> QED BY <1>2, <1>3, <1>4, <1>5

LEMMA OnlyNotices ==
    ASSUME Inv, notices' \in Seq(NoticeType), Known',
           UNCHANGED <<client, sent, up, pending, atRelay, data>>
    PROVE  Inv'
<1>1. TypeInv'
  BY DEF Inv, TypeInv, NoticeType
<1>2. \A x \in Conns : Apart(x)
  BY DEF Apart
<1> QED BY <1>1, <1>2, ApartKeeps DEF Inv

-----------------------------------------------------------------------------
(* The client's end of the channel *)

LEMMA ClientTyped ==
    ASSUME TypeInv
    PROVE  /\ client \in [Conns -> {"new", "handshaking", "open", "closed"}]
           /\ sent \in [Conns -> 0..MaxSends]
           /\ up \in [Conns -> Seq(Frames)] /\ pending \in [Conns -> Seq(Frames)]
           /\ atRelay \in [Conns -> NearStates]
           /\ data \in [Conns -> [Gens -> Sockets]]
           /\ notices \in Seq(NoticeType)
           /\ MaxSends \in Nat
  BY DEF TypeInv, NoticeType

LEMMA ConnectKeeps ==
    ASSUME Inv, NEW c \in Conns, Connect(c)
    PROVE  Inv'
<1>1. /\ client[c] = "new" /\ client' = [client EXCEPT ![c] = "handshaking"]
      /\ up' = [up EXCEPT ![c] = <<Hello>>] /\ atRelay' = [atRelay EXCEPT ![c] = "open"]
      /\ sent' = sent /\ pending' = pending /\ data' = data
      /\ Notify("attach", {c})
  BY DEF Connect
<1>2. <<Hello>> \in Seq(Frames) /\ Len(<<Hello>>) = 1 /\ <<Hello>>[1] = Hello
  BY FrameTypes
<1>3. notices' \in Seq(NoticeType) /\ Known'
  <2>1. /\ \A x \in {c} : client'[x] # "new"
        /\ \A x \in Conns : client[x] # "new" => client'[x] # "new"
    BY <1>1, ClientTyped DEF Inv
  <2>2. notices' \in {notices, Append(notices, [kind |-> "attach", ids |-> {c}])}
    BY <1>1 DEF Notify
  <2> QED BY <2>1, <2>2, NotifyKnown DEF Inv
<1>4. TypeInv'
  BY <1>1, <1>2, <1>3, ClientTyped DEF Inv, TypeInv, NearStates, NoticeType
<1>5. /\ up'[c] = <<Hello>> /\ client'[c] = "handshaking" /\ sent'[c] = 0 /\ pending'[c] = <<>>
      /\ \A g \in Gens : data'[c][g] = NoData
  BY <1>1, ClientTyped DEF Inv, ConnInv, Unborn, Quiet
<1>6. Line(c, -1)'
  <2>1. Fits(<<Hello>>, -1, 0)
    BY <1>2 DEF Fits, Frame
  <2>2. NoClose(<<>>) /\ Fits(<<>>, -1 - Len(<<>>), 0)
    BY DEF NoClose, Fits
  <2> QED BY <1>2, <1>5, <2>1, <2>2 DEF Line
<1>7. \A g \in Gens : Taken(data'[c][g], sent'[c], -1, Listed(c)')
  <2>1. Sock(NoData, 0, 0) /\ Fed(NoData, 0, -1)
    BY DEF Sock, Fed, NoData, Numbered, Live
  <2> QED BY <1>5, <2>1 DEF Taken
<1>8. ConnInv(c)'
  BY <1>5, <1>6, <1>7 DEF ConnInv, Stream, Buffered, Quiet, Unborn
<1>9. \A x \in Conns \ {c} : Apart(x)
  BY <1>1, ClientTyped DEF Inv, Apart
<1> QED BY <1>3, <1>4, <1>8, <1>9, OneClient

LEMMA HelloRetryKeeps ==
    ASSUME Inv, NEW c \in Conns, HelloRetry(c)
    PROVE  Inv'
<1>1. /\ client[c] = "handshaking" /\ up' = [up EXCEPT ![c] = Append(@, Hello)]
      /\ UNCHANGED <<client, sent, pending, atRelay, data, notices>>
  BY DEF HelloRetry, RetryWhile, clientVars, controlVars
<1>2. Append(up[c], Hello) \in Seq(Frames) /\ up[c] \in Seq(Frames) /\ sent[c] = 0
  BY <1>1, Typed, FrameTypes DEF Inv, ConnInv, Quiet
<1>3. TypeInv' /\ Known'
  BY <1>1, <1>2, ClientTyped DEF Inv, TypeInv, Known
<1>4. up'[c] = Append(up[c], Hello)
  BY <1>1, ClientTyped DEF Inv
<1>5. PICK p \in Int : Line(c, p) /\ \A g \in Gens : Taken(data[c][g], sent[c], p, Listed(c))
  BY DEF Inv, ConnInv, Stream
<1>6. Line(c, p - 1)'
  <2> SUFFICES ASSUME Listed(c)
               PROVE  /\ Fits(up'[c], p - 1, 0) /\ p - 1 <= 0
                      /\ NoClose(up'[c]) => p - 1 + Len(up'[c]) = 0
                      /\ NoClose(pending[c]) /\ Fits(pending[c], p - 1 - Len(pending[c]), 0)
    BY <1>1, <1>2 DEF Line, Listed
  <2>1. /\ Fits(up[c], p, 0) /\ p <= 0
        /\ NoClose(up[c]) => p + Len(up[c]) = 0
        /\ NoClose(pending[c]) /\ Fits(pending[c], p - Len(pending[c]), 0)
    BY <1>1, <1>2, <1>5 DEF Line
  <2>2. Fits(up[c], p - 1, 0)
    BY <1>2, <2>1, FitsHellos
  <2>3. Len(up[c]) \in Nat
    BY <1>2
  <2>4. NoClose(up[c]) => Hello = Frame(p - 1 + Len(up[c]) + 1) /\ p - 1 + Len(up[c]) + 1 <= 0
    BY <2>1, <2>3 DEF Frame
  <2>5. /\ Fits(up'[c], p - 1, 0) /\ Len(up'[c]) = Len(up[c]) + 1
        /\ NoClose(up'[c]) => NoClose(up[c])
    <3>1. p - 1 \in Int /\ 0 \in Nat
      OBVIOUS
    <3>2. /\ Fits(Append(up[c], Hello), p - 1, 0)
          /\ Len(Append(up[c], Hello)) = Len(up[c]) + 1
          /\ NoClose(Append(up[c], Hello)) => NoClose(up[c])
      BY <1>2, <2>2, <2>4, <3>1, FitsAppend, FrameTypes
    <3> QED BY <1>4, <3>2
  <2>6. NoClose(up'[c]) => p - 1 + Len(up'[c]) = 0
    BY <2>1, <2>3, <2>5
  <2>7. Len(pending[c]) \in Nat /\ pending[c] \in Seq(Frames)
    BY Typed DEF Inv
  <2>8. p - 1 - Len(pending[c]) = (p - Len(pending[c])) - 1 /\ p - Len(pending[c]) \in Int
    BY <2>7
  <2>9. Fits(pending[c], p - 1 - Len(pending[c]), 0)
    BY <2>1, <2>7, <2>8, FitsHellos
  <2>10. p - 1 <= 0
    BY <2>1
  <2> QED BY <2>1, <2>5, <2>6, <2>9, <2>10
<1>7. \A g \in Gens : Taken(data'[c][g], sent'[c], p - 1, Listed(c)')
  <2> TAKE g \in Gens
  <2>1. data[c][g].in \in Seq(Frames) /\ Listed(c) \in BOOLEAN
    BY Typed, SocketFields DEF Inv
  <2>2. Taken(data[c][g], 0, p - 1, Listed(c))
    BY <1>2, <1>5, <2>1, TakenHellos
  <2> QED BY <1>1, <1>2, <2>2 DEF Listed
<1>8. ConnInv(c)'
  BY <1>1, <1>6, <1>7 DEF Inv, ConnInv, Stream, Buffered, Quiet, Unborn, Listed, Servers
<1>9. \A x \in Conns \ {c} : Apart(x)
  BY <1>1, ClientTyped DEF Inv, Apart
<1> QED BY <1>3, <1>8, <1>9, OneClient

LEMMA ClientSendKeeps ==
    ASSUME Inv, NEW c \in Conns, ClientSend(c)
    PROVE  Inv'
<1> DEFINE f == Cipher(sent[c] + 1)
<1>1. /\ client[c] = "open" /\ sent[c] < MaxSends
      /\ sent' = [sent EXCEPT ![c] = @ + 1] /\ up' = [up EXCEPT ![c] = Append(@, f)]
      /\ UNCHANGED <<client, pending, atRelay, data, notices>>
  BY DEF ClientSend, controlVars
<1>2. /\ sent[c] \in Nat /\ sent[c] + 1 \in 1..MaxSends /\ f \in Frames /\ up[c] \in Seq(Frames)
      /\ f = Frame(sent[c] + 1)
  <2>1. sent[c] \in Nat /\ up[c] \in Seq(Frames) /\ MaxSends \in Nat
    BY Typed, ClientTyped DEF Inv
  <2>2. sent[c] + 1 \in 1..MaxSends
    BY <1>1, <2>1
  <2>3. f \in Frames
    BY <2>2 DEF Frames
  <2>4. f = Frame(sent[c] + 1)
    BY <2>1 DEF Frame
  <2> QED BY <2>1, <2>2, <2>3, <2>4
<1> HIDE DEF f
<1>3. Append(up[c], f) \in Seq(Frames)
  BY <1>2
<1>4. TypeInv' /\ Known'
  BY <1>1, <1>2, <1>3, ClientTyped DEF Inv, TypeInv, Known
<1>5. up'[c] = Append(up[c], f) /\ sent'[c] = sent[c] + 1
  BY <1>1, ClientTyped DEF Inv
<1>6. PICK p \in Int : Line(c, p) /\ \A g \in Gens : Taken(data[c][g], sent[c], p, Listed(c))
  BY DEF Inv, ConnInv, Stream
<1>7. Line(c, p)'
  <2> DEFINE s == sent[c]
  <2> SUFFICES ASSUME Listed(c)
               PROVE  /\ Fits(up'[c], p, s + 1) /\ p <= s + 1
                      /\ NoClose(up'[c]) => p + Len(up'[c]) = s + 1
                      /\ NoClose(pending[c]) /\ Fits(pending[c], p - Len(pending[c]), s + 1)
    BY <1>1, <1>5 DEF Line, Listed
  <2>1. /\ Fits(up[c], p, s) /\ p <= s
        /\ NoClose(up[c]) => p + Len(up[c]) = s
        /\ NoClose(pending[c]) /\ Fits(pending[c], p - Len(pending[c]), s)
    BY <1>1, <1>6 DEF Line
  <2>2. s \in Nat /\ s + 1 \in Nat /\ f = Frame(s + 1)
    BY <1>2
  <2> HIDE DEF s
  <2>3. Len(up[c]) \in Nat
    BY <1>2
  <2>4. Fits(up[c], p, s + 1)
    BY <1>2, <2>1, <2>2, FitsMore
  <2>5. NoClose(up[c]) => f = Frame(p + Len(up[c]) + 1) /\ p + Len(up[c]) + 1 <= s + 1
    BY <2>1, <2>2
  <2>6. /\ Fits(up'[c], p, s + 1) /\ Len(up'[c]) = Len(up[c]) + 1
        /\ NoClose(up'[c]) => NoClose(up[c])
    <3>1. /\ Fits(Append(up[c], f), p, s + 1)
          /\ Len(Append(up[c], f)) = Len(up[c]) + 1
          /\ NoClose(Append(up[c], f)) => NoClose(up[c])
      BY <1>2, <2>2, <2>4, <2>5, FitsAppend
    <3> QED BY <1>5, <3>1
  <2>7. NoClose(up'[c]) => p + Len(up'[c]) = s + 1
    BY <2>1, <2>3, <2>6
  <2>8. Len(pending[c]) \in Nat /\ pending[c] \in Seq(Frames) /\ p - Len(pending[c]) \in Int
    BY Typed DEF Inv
  <2>9. Fits(pending[c], p - Len(pending[c]), s + 1)
    BY <2>1, <2>2, <2>8, FitsMore
  <2> QED BY <2>1, <2>2, <2>6, <2>7, <2>9
<1>8. \A g \in Gens : Taken(data'[c][g], sent'[c], p, Listed(c)')
  <2> TAKE g \in Gens
  <2>1. data[c][g].in \in Seq(Frames) /\ Listed(c) \in BOOLEAN
    BY Typed, SocketFields DEF Inv
  <2>2. Taken(data[c][g], sent[c] + 1, p, Listed(c))
    BY <1>2, <1>6, <2>1, TakenMore
  <2> QED BY <1>1, <1>5, <2>2 DEF Listed
<1>9. ConnInv(c)'
  BY <1>1, <1>7, <1>8 DEF Inv, ConnInv, Stream, Buffered, Quiet, Unborn, Listed, Servers
<1>10. \A x \in Conns \ {c} : Apart(x)
  BY <1>1, ClientTyped DEF Inv, Apart
<1> QED BY <1>4, <1>9, <1>10, OneClient

(* A client that closes, or whose link is lost *)
LEMMA ClosingKeeps ==
    ASSUME Inv, NEW c \in Conns, NEW u \in {up[c], Append(up[c], Close), <<Close>>},
           NEW k \in {"new", "handshaking", "open", "closed"},
           k \in {client[c], "closed"} \/ (client[c] = "handshaking" /\ k = "open"),
           client' = [client EXCEPT ![c] = k], up' = [up EXCEPT ![c] = u],
           UNCHANGED <<sent, pending, atRelay, data, notices>>
    PROVE  Inv'
<1>1. u \in Seq(Frames)
  <2>1. up[c] \in Seq(Frames) /\ Close \in Frames
    BY Typed, FrameTypes DEF Inv
  <2>2. Append(up[c], Close) \in Seq(Frames) /\ <<Close>> \in Seq(Frames)
    BY <2>1
  <2> QED BY <2>1, <2>2
<1>2. TypeInv' /\ client'[c] = k /\ up'[c] = u
  BY <1>1, ClientTyped DEF Inv, TypeInv
<1>3. \A x \in Conns : client[x] # "new" => client'[x] # "new"
  BY ClientTyped DEF Inv
<1>4. Known'
  BY <1>3, NoticesKnown DEF Inv
<1>5. Calm(c)
  BY <1>2, SameKept DEF Calm, Listed
<1>6. Unborn(c)'
  BY <1>2 DEF Inv, ConnInv, Unborn
<1>7. ConnInv(c)'
  BY <1>5, <1>6, CalmKeeps DEF Inv
<1>8. \A x \in Conns \ {c} : Apart(x)
  BY ClientTyped DEF Inv, Apart
<1> QED BY <1>2, <1>4, <1>7, <1>8, OneClient

LEMMA AnsweredIs ==
    ASSUME NEW q PROVE Answered(q) \in {q, Append(q, Close)}
  BY DEF Answered

LEMMA ClientCloseKeeps ==
    ASSUME Inv, NEW c \in Conns, ClientClose(c)
    PROVE  Inv'
<1>1. /\ client' = [client EXCEPT ![c] = "closed"] /\ up' = [up EXCEPT ![c] = Answered(up[c])]
      /\ UNCHANGED <<sent, pending, atRelay, data, notices>>
  BY DEF ClientClose, controlVars
<1> QED BY <1>1, AnsweredIs, ClosingKeeps

LEMMA ClientReceiveKeeps ==
    ASSUME Inv, NEW c \in Conns, ClientReceive(c)
    PROVE  Inv'
<1> DEFINE opened == IF client[c] = "handshaking" THEN "open" ELSE client[c]
           u == IF client[c] = "closed" THEN up[c] ELSE Answered(up[c])
<1>1. UNCHANGED <<sent, pending, atRelay, data, notices>>
  BY DEF ClientReceive, controlVars
<1>2. CASE client' = [client EXCEPT ![c] = opened] /\ up' = up
  <2>1. opened \in {"new", "handshaking", "open", "closed"}
        /\ (opened \in {client[c], "closed"} \/ (client[c] = "handshaking" /\ opened = "open"))
    BY ClientTyped DEF Inv
  <2>2. up' = [up EXCEPT ![c] = up[c]]
    BY <1>2, ClientTyped DEF Inv
  <2> HIDE DEF opened
  <2> QED BY <1>1, <1>2, <2>1, <2>2, ClosingKeeps
<1>3. CASE client' = [client EXCEPT ![c] = "closed"] /\ up' = [up EXCEPT ![c] = u]
  <2>1. u \in {up[c], Append(up[c], Close), <<Close>>}
    BY AnsweredIs
  <2> HIDE DEF u
  <2> QED BY <1>1, <1>3, <2>1, ClosingKeeps
<1> QED BY <1>2, <1>3 DEF ClientReceive

LEMMA ClientLinkLostKeeps ==
    ASSUME Inv, NEW c \in Conns, ClientLinkLost(c)
    PROVE  Inv'
<1>1. /\ up' = [up EXCEPT ![c] = <<Close>>] /\ client[c] \in {"handshaking", "open"}
      /\ UNCHANGED <<client, sent, pending, atRelay, data, notices>>
  BY DEF ClientLinkLost, clientVars, controlVars
<1>2. client' = [client EXCEPT ![c] = client[c]]
  BY <1>1, ClientTyped DEF Inv
<1> QED BY <1>1, <1>2, ClosingKeeps

-----------------------------------------------------------------------------
(* The relay *)

LEMMA BufferedFrames ==
    ASSUME NEW q \in Seq(Frames), NEW f \in Frames, NEW p \in Int, NEW s \in Nat,
           NoClose(q), Fits(q, p - Len(q), s), f = Frame(p + 1), p + 1 <= s
    PROVE  /\ BufferFrame(q, f) \in Seq(Frames) /\ NoClose(BufferFrame(q, f))
           /\ Fits(BufferFrame(q, f), p + 1 - Len(BufferFrame(q, f)), s)
<1> DEFINE a == Append(q, f)
           k == Len(a) - BufferLimit
           t == SubSeq(a, k + 1, Len(a))
<1>1. Len(q) \in Nat /\ p - Len(q) \in Int /\ f # Close /\ (p - Len(q)) + Len(q) + 1 = p + 1
  BY FrameKinds
<1>2. /\ Fits(a, p - Len(q), s) /\ a \in Seq(Frames) /\ Len(a) = Len(q) + 1 /\ NoClose(a)
  BY <1>1, FitsAppend
<1>3. Len(a) \in Nat /\ BufferLimit \in Nat
  BY <1>2 DEF RelayAssumption
<1> HIDE DEF a
<1>4. CASE k > 0
  <2>1. k \in 0..Len(a) /\ p - Len(q) + k \in Int
    BY <1>1, <1>3, <1>4
  <2> HIDE DEF k
  <2>2. t \in Seq(Frames) /\ Len(t) = Len(a) - k /\ NoClose(t) /\ Fits(t, p - Len(q) + k, s)
    BY <1>1, <1>2, <2>1, FitsSuffix
  <2>3. p - Len(q) + k = p + 1 - Len(t)
    BY <1>1, <1>2, <1>3, <2>1, <2>2
  <2>4. BufferFrame(q, f) = t
    BY <1>4 DEF BufferFrame, a, k
  <2> QED BY <2>2, <2>3, <2>4
<1>5. CASE ~(k > 0)
  <2>1. BufferFrame(q, f) = a
    BY <1>5 DEF BufferFrame, a, k
  <2>2. p - Len(q) = p + 1 - Len(a)
    BY <1>1, <1>2
  <2> QED BY <1>2, <2>1, <2>2
<1> QED BY <1>4, <1>5

LEMMA RelayFromClientKeeps ==
    ASSUME Inv, NEW c \in Conns, RelayFromClient(c)
    PROVE  Inv'
<1> DEFINE f == Head(up[c])
<1>1. /\ up[c] # <<>> /\ f # Close /\ up' = [up EXCEPT ![c] = Tail(@)]
      /\ UNCHANGED <<client, sent, atRelay, notices>>
  BY DEF RelayFromClient, clientVars, controlVars
<1>2. /\ up[c] \in Seq(Frames) /\ Tail(up[c]) \in Seq(Frames) /\ f \in Frames /\ sent[c] \in Nat
      /\ pending[c] \in Seq(Frames)
  BY <1>1, Typed DEF Inv
<1>3. up'[c] = Tail(up[c])
  BY <1>1, ClientTyped DEF Inv
<1>4. Known'
  BY <1>1, NoticesKnown DEF Inv
<1>5. \A x \in Conns \ {c} : up'[x] = up[x]
  BY <1>1, ClientTyped DEF Inv
<1>6. PICK p \in Int : Line(c, p) /\ \A g \in Gens : Taken(data[c][g], sent[c], p, Listed(c))
  BY DEF Inv, ConnInv, Stream
<1>7. ASSUME Listed(c)
      PROVE  /\ Fits(up'[c], p + 1, sent[c]) /\ p + 1 <= sent[c] /\ f = Frame(p + 1)
             /\ client[c] \in {"handshaking", "open"} /\ NoClose(up'[c]) => p + 1 + Len(up'[c]) = sent[c]
             /\ NoClose(pending[c]) /\ Fits(pending[c], p - Len(pending[c]), sent[c])
  <2>1. /\ Fits(up[c], p, sent[c])
        /\ client[c] \in {"handshaking", "open"} /\ NoClose(up[c]) => p + Len(up[c]) = sent[c]
        /\ NoClose(pending[c]) /\ Fits(pending[c], p - Len(pending[c]), sent[c])
    BY <1>6, <1>7 DEF Line
  <2> HIDE DEF f
  <2>2. /\ Fits(Tail(up[c]), p + 1, sent[c]) /\ Len(up[c]) = Len(Tail(up[c])) + 1
        /\ NoClose(Tail(up[c])) <=> NoClose(up[c])
        /\ f = Frame(p + 1) /\ p + 1 <= sent[c]
    BY <1>1, <1>2, <2>1, FitsTail DEF f
  <2>3. Len(Tail(up[c])) \in Nat
    BY <1>2
  <2>4. client[c] \in {"handshaking", "open"} /\ NoClose(up'[c]) => p + 1 + Len(up'[c]) = sent[c]
    <3> SUFFICES ASSUME client[c] \in {"handshaking", "open"}, NoClose(up'[c])
                 PROVE  p + 1 + Len(up'[c]) = sent[c]
      OBVIOUS
    <3>1. p + Len(up[c]) = sent[c]
      BY <1>3, <2>1, <2>2
    <3>2. Len(up[c]) = Len(up'[c]) + 1
      BY <1>3, <2>2
    <3>3. Len(up'[c]) \in Int
      BY <1>3, <2>3
    <3>4. sent[c] \in Int /\ Len(up[c]) \in Int
      BY <1>2
    <3>5. \A a, b, t \in Int : p + a = t /\ a = b + 1 => p + 1 + b = t
      OBVIOUS
    <3> QED BY <3>1, <3>2, <3>3, <3>4, <3>5
  <2> QED BY <1>3, <2>1, <2>2, <2>4
<1> HIDE DEF f
<1>11. ASSUME NEW q \in Int, Fits(up'[c], q, sent[c]), q <= sent[c],
              client[c] \in {"handshaking", "open"} /\ NoClose(up'[c]) => q + Len(up'[c]) = sent[c],
              NoClose(pending'[c]), Fits(pending'[c], q - Len(pending'[c]), sent[c])
       PROVE  Line(c, q)'
  BY <1>1, <1>11 DEF Line
<1>8. CASE ~Listed(c)
  <2>1. UNCHANGED <<pending, data>>
    BY <1>8 DEF RelayFromClient
  <2>2. TypeInv'
    BY <1>1, <1>2, <2>1, ClientTyped DEF Inv, TypeInv
  <2>3. Calm(c) /\ Unborn(c)'
    BY <1>1, <1>8, <2>1, SameKept DEF Calm, Listed, Inv, ConnInv, Unborn
  <2>4. ConnInv(c)'
    BY <2>3, CalmKeeps DEF Inv
  <2>5. \A x \in Conns \ {c} : Apart(x)
    BY <1>1, <1>5, <2>1 DEF Apart
  <2> QED BY <1>4, <2>2, <2>4, <2>5, OneClient
<1>9. CASE Listed(c) /\ Servers(c) = {}
  <2> DEFINE b == BufferFrame(pending[c], f)
  <2>1. pending' = [pending EXCEPT ![c] = b] /\ data' = data
    BY <1>9 DEF RelayFromClient, f
  <2>2. b \in Seq(Frames) /\ NoClose(b) /\ Fits(b, p + 1 - Len(b), sent[c])
    BY <1>2, <1>7, <1>9, BufferedFrames
  <2> HIDE DEF b
  <2>3. TypeInv' /\ pending'[c] = b
    BY <1>1, <1>2, <2>1, <2>2, ClientTyped DEF Inv, TypeInv
  <2>4. Line(c, p + 1)'
    <3>1. PICK q \in Int : q = p + 1
      OBVIOUS
    <3>2. /\ Fits(up'[c], q, sent[c]) /\ q <= sent[c]
          /\ client[c] \in {"handshaking", "open"} /\ NoClose(up'[c]) => q + Len(up'[c]) = sent[c]
      BY <1>7, <1>9, <3>1
    <3>3. NoClose(pending'[c]) /\ Fits(pending'[c], q - Len(pending'[c]), sent[c])
      BY <2>2, <2>3, <3>1
    <3>4. Line(c, q)'
      BY <1>11, <3>2, <3>3
    <3> QED BY <3>1, <3>4
  <2>5. \A g \in Gens : Taken(data'[c][g], sent'[c], p + 1, Listed(c)')
    BY <1>1, <1>6, <1>9, <2>1, TakenAnywhere DEF Servers, Listed
  <2>6. Stream(c)'
    BY <2>4, <2>5 DEF Stream
  <2>7. Buffered(c)' /\ Quiet(c)' /\ Unborn(c)'
    BY <1>1, <1>9, <2>1 DEF Buffered, Quiet, Unborn, Listed, Servers, Inv, ConnInv
  <2>8. ConnInv(c)'
    BY <2>6, <2>7 DEF ConnInv
  <2>9. \A x \in Conns \ {c} : Apart(x)
    BY <1>1, <1>5, <2>1, ClientTyped DEF Apart, Inv
  <2> QED BY <1>4, <2>3, <2>8, <2>9, OneClient
<1>10. CASE Listed(c) /\ Servers(c) # {}
  <2> DEFINE h == [g \in Gens |-> Feed(data[c][g], Head(up[c]))]
  <2>0. pending[c] = <<>>
    BY <1>10 DEF Inv, ConnInv, Buffered
  <2>1. data' = [data EXCEPT ![c] = h] /\ pending' = pending /\ pending[c] = <<>>
    <3>1. data' = [data EXCEPT ![c] = h]
      BY <1>10 DEF RelayFromClient
    <3>2. pending' = pending
      BY <1>10 DEF RelayFromClient
    <3> QED BY <2>0, <3>1, <3>2
  <2>2. ASSUME NEW g \in Gens
        PROVE  /\ h[g] \in Sockets /\ h[g].near = data[c][g].near
               /\ Taken(h[g], sent[c], p + 1, TRUE)
    <3>1. data[c][g] \in Sockets /\ Taken(data[c][g], sent[c], p, TRUE)
      BY <1>6, <1>10, Typed DEF Inv, Taken
    <3>2. CASE data[c][g].near = "open"
      <4>1. /\ [data[c][g] EXCEPT !.in = Append(@, f)] \in Sockets
            /\ Taken([data[c][g] EXCEPT !.in = Append(@, f)], sent[c], p + 1, TRUE)
        BY <1>2, <1>7, <1>10, <3>1, <3>2, TakenFed
      <4>2. h[g] = [data[c][g] EXCEPT !.in = Append(@, f)]
        BY <3>2 DEF f, Feed
      <4>3. h[g].near = data[c][g].near
        BY <3>1, <4>2 DEF Sockets
      <4> QED BY <4>1, <4>2, <4>3
    <3>3. CASE data[c][g].near # "open"
      BY <3>1, <3>3, TakenAnywhere DEF Feed
    <3> QED BY <3>2, <3>3
  <2> HIDE DEF h
  <2>3. h \in [Gens -> Sockets]
    <3>1. DOMAIN h = Gens /\ h = [g \in Gens |-> h[g]]
      BY DEF h
    <3> QED BY <2>2, <3>1
  <2>4. TypeInv' /\ data'[c] = h
    BY <1>1, <1>2, <2>1, <2>3, ClientTyped DEF Inv, TypeInv
  <2>5. Line(c, p + 1)'
    <3>1. \A q \in Int : NoClose(pending'[c]) /\ Fits(pending'[c], q - Len(pending'[c]), sent[c])
      BY <2>1 DEF NoClose, Fits
    <3>2. PICK q \in Int : q = p + 1
      OBVIOUS
    <3>3. /\ Fits(up'[c], q, sent[c]) /\ q <= sent[c]
          /\ client[c] \in {"handshaking", "open"} /\ NoClose(up'[c]) => q + Len(up'[c]) = sent[c]
      BY <1>7, <1>10, <3>2
    <3>4. Line(c, q)'
      BY <1>11, <3>1, <3>3
    <3> QED BY <3>2, <3>4
  <2>6. \A g \in Gens : Taken(data'[c][g], sent'[c], p + 1, Listed(c)')
    BY <1>1, <2>2, <2>4 DEF Taken
  <2>7. Stream(c)'
    BY <2>5, <2>6 DEF Stream
  <2>8. client[c] # "new"
    BY <1>10 DEF Inv, ConnInv, Unborn, Listed
  <2>9. Buffered(c)' /\ Quiet(c)' /\ Unborn(c)'
    BY <1>1, <2>1, <2>8 DEF Buffered, Quiet, Unborn, Inv, ConnInv
  <2>10. ConnInv(c)'
    BY <2>7, <2>9 DEF ConnInv
  <2>11. \A x \in Conns \ {c} : Apart(x)
    BY <1>1, <1>5, <2>1, ClientTyped DEF Apart, Inv
  <2> QED BY <1>4, <2>4, <2>10, <2>11, OneClient
<1> QED BY <1>8, <1>9, <1>10

LEMMA RelayClientClosedKeeps ==
    ASSUME Inv, NEW c \in Conns, RelayClientClosed(c)
    PROVE  Inv'
<1>1. /\ up[c] # <<>> /\ up' = [up EXCEPT ![c] = Tail(@)] /\ UNCHANGED <<client, sent>>
  BY DEF RelayClientClosed, clientVars
<1>2. Tail(up[c]) \in Seq(Frames)
  <2>1. up[c] \in Seq(Frames)
    BY Typed DEF Inv
  <2> QED BY <1>1, <2>1
<1>3. \A x \in Conns \ {c} : up'[x] = up[x]
  BY <1>1, ClientTyped DEF Inv
<1>4. CASE ~Listed(c)
  <2>1. UNCHANGED <<pending, data, atRelay, notices>>
    BY <1>4 DEF RelayClientClosed, controlVars
  <2>2. TypeInv'
    BY <1>1, <1>2, <2>1, ClientTyped DEF Inv, TypeInv
  <2>3. Calm(c) /\ Unborn(c)'
    BY <1>1, <1>4, <2>1, SameKept DEF Calm, Listed, Inv, ConnInv, Unborn
  <2>4. ConnInv(c)'
    BY <2>3, CalmKeeps DEF Inv
  <2>5. \A x \in Conns \ {c} : Apart(x)
    BY <1>1, <1>3, <2>1 DEF Apart
  <2>6. Known'
    BY <1>1, <2>1, NoticesKnown DEF Inv
  <2> QED BY <2>2, <2>4, <2>5, <2>6, OneClient
<1>5. CASE Listed(c)
  <2> DEFINE h == [g \in Gens |-> CloseNear(data[c][g])]
  <2>1. /\ atRelay' = [atRelay EXCEPT ![c] = "gone"] /\ pending' = [pending EXCEPT ![c] = <<>>]
        /\ data' = [data EXCEPT ![c] = h] /\ Notify("disconnected", {c})
    BY <1>5 DEF RelayClientClosed
  <2>2. \A g \in Gens : data[c][g] \in Sockets /\ h[g] \in Sockets /\ Kept(data[c][g], h[g])
    BY Typed, CloseNearCalm, CalmerKept DEF Inv
  <2> HIDE DEF h
  <2>3. h \in [Gens -> Sockets]
    <3>1. DOMAIN h = Gens /\ h = [g \in Gens |-> h[g]]
      BY DEF h
    <3> QED BY <2>2, <3>1
  <2>4. client[c] # "new"
    BY <1>5 DEF Inv, ConnInv, Unborn, Listed
  <2>5. notices' \in Seq(NoticeType) /\ Known'
    <3>1. notices' \in {notices, Append(notices, [kind |-> "disconnected", ids |-> {c}])}
      BY <2>1 DEF Notify
    <3> QED BY <1>1, <2>4, <3>1, NotifyKnown DEF Inv
  <2>6. TypeInv'
    <3>1. <<>> \in Seq(Frames)
      OBVIOUS
    <3> QED BY <1>1, <1>2, <2>1, <2>3, <2>5, <3>1, ClientTyped DEF Inv, TypeInv, NoticeType, NearStates
  <2>7. atRelay'[c] = "gone" /\ pending'[c] = <<>> /\ data'[c] = h
    BY <2>1, ClientTyped DEF Inv
  <2>8. Calm(c)
    BY <1>1, <2>2, <2>7 DEF Calm, Listed
  <2>9. ConnInv(c)'
    BY <1>1, <2>4, <2>8, CalmKeeps DEF Inv, Unborn
  <2>10. \A x \in Conns \ {c} : Apart(x)
    BY <1>1, <1>3, <2>1, ClientTyped DEF Apart, Inv
  <2> QED BY <2>5, <2>6, <2>9, <2>10, OneClient
<1> QED BY <1>4, <1>5

LEMMA RelayAcceptKeeps ==
    ASSUME Inv, NEW c \in Conns, NEW g \in Gens, RelayAccept(c, g)
    PROVE  Inv'
<1> DEFINE d == data[c][g]
           e == [d EXCEPT !.far = "await", !.near = "open", !.in = pending[c]]
           h == [k \in Gens |-> IF k = g THEN e ELSE CloseNear(data[c][k])]
<1>1. /\ d.far = "connecting" /\ data' = [data EXCEPT ![c] = h]
      /\ pending' = [pending EXCEPT ![c] = <<>>]
      /\ UNCHANGED <<client, sent, up, atRelay, notices>>
  BY DEF RelayAccept, clientVars, controlVars
<1>2. /\ d \in Sockets /\ pending[c] \in Seq(Frames) /\ Len(pending[c]) \in Nat /\ sent[c] \in 0..MaxSends
      /\ Listed(c) \in BOOLEAN
  BY Typed DEF Inv
<1>3. e \in Sockets
  BY <1>2 DEF Sockets, FarStates, NearStates
<1>4. \A k \in Gens : h[k] \in Sockets /\ (k # g => Kept(data[c][k], h[k]))
  BY <1>3, Typed, CloseNearCalm, CalmerKept DEF Inv
<1>5. PICK p \in Int : Line(c, p) /\ \A k \in Gens : Taken(data[c][k], sent[c], p, Listed(c))
  BY DEF Inv, ConnInv, Stream
<1>6. Taken(e, sent[c], p, Listed(c))
  <2>1. PICK q \in Int : Sock(d, q, sent[c])
    BY <1>5 DEF Taken
  <2>2. d.early = <<>> /\ d.got = <<>>
    BY <1>1, <2>1 DEF Sock
  <2>3. /\ e.far = "await" /\ e.near = "open" /\ e.in = pending[c] /\ e.early = <<>> /\ e.got = <<>>
    BY <1>2, <2>2 DEF Sockets
  <2> HIDE DEF e
  <2>4. CASE Listed(c)
    <3> DEFINE r == p - Len(pending[c])
    <3>1. r \in Int /\ r <= sent[c] /\ Fits(pending[c], r, sent[c]) /\ r + Len(pending[c]) = p
      BY <1>2, <1>5, <2>4 DEF Line
    <3> HIDE DEF r
    <3>2. Sock(e, r, sent[c])
      BY <1>2, <2>3, <3>1 DEF Sock, Live, Numbered
    <3>3. Fed(e, r, p)
      BY <2>3, <3>1 DEF Fed
    <3> QED BY <3>1, <3>2, <3>3 DEF Taken
  <2>5. CASE ~Listed(c)
    <3>1. pending[c] = <<>>
      BY <2>5 DEF Inv, ConnInv, Buffered
    <3>2. Fits(<<>>, 0, sent[c])
      BY DEF Fits
    <3>3. Sock(e, 0, sent[c])
      BY <1>2, <2>3, <3>1, <3>2 DEF Sock, Live, Numbered
    <3> QED BY <2>5, <3>3 DEF Taken
  <2> QED BY <2>4, <2>5
<1>7. client[c] # "new"
  BY <1>1 DEF Inv, ConnInv, Unborn, NoData
<1>8. h[g] = e
  OBVIOUS
<1> HIDE DEF h, e, d
<1>9. h \in [Gens -> Sockets]
  <2>1. DOMAIN h = Gens /\ h = [k \in Gens |-> h[k]]
    BY DEF h
  <2> QED BY <1>4, <2>1
<1>10. TypeInv' /\ Known' /\ data'[c] = h /\ pending'[c] = <<>>
  <2>1. <<>> \in Seq(Frames)
    OBVIOUS
  <2> QED BY <1>1, <1>9, <2>1, ClientTyped DEF Inv, TypeInv, Known
<1>11. Line(c, p)'
  <2>1. NoClose(<<>>) /\ Fits(<<>>, p - Len(<<>>), sent[c])
    BY DEF NoClose, Fits
  <2> QED BY <1>1, <1>5, <1>10, <2>1 DEF Line, Listed
<1>12. \A k \in Gens : Taken(data'[c][k], sent'[c], p, Listed(c)')
  <2> TAKE k \in Gens
  <2>1. Taken(h[k], sent[c], p, Listed(c))
    BY <1>2, <1>4, <1>5, <1>6, <1>8 DEF Kept
  <2> QED BY <1>1, <1>10, <2>1 DEF Listed
<1>13. ConnInv(c)'
  BY <1>1, <1>7, <1>10, <1>11, <1>12 DEF Inv, ConnInv, Stream, Buffered, Quiet, Unborn
<1>14. \A x \in Conns \ {c} : Apart(x)
  BY <1>1, ClientTyped DEF Inv, Apart
<1> QED BY <1>10, <1>13, <1>14, OneClient

LEMMA SocketOfClient ==
    ASSUME Inv, NEW c \in Conns, NEW g \in Gens
    PROVE  data[c][g] \in Sockets
  BY Typed DEF Inv

LEMMA RelayFromDataKeeps ==
    ASSUME Inv, NEW c \in Conns, NEW g \in Gens, RelayFromData(c, g)
    PROVE  Inv'
<1> DEFINE d == data[c][g]
           e == [d EXCEPT !.out = Tail(@)]
<1>1. d \in Sockets /\ d.out # <<>> /\ d # NoData
  BY SocketOfClient DEF RelayFromData, NoData
<1>2. e \in Sockets
  <2>1. Tail(d.out) \in Seq(Frames)
    BY <1>1, SocketFields
  <2> QED BY <1>1, <2>1 DEF Sockets
<1>3. Calmer(d, e)
  BY <1>1 DEF Calmer, Taking, Sockets
<1>4. data' = [data EXCEPT ![c][g] = e]
  BY DEF RelayFromData
<1>5. UNCHANGED <<client, sent, up, pending, notices, atRelay>>
  BY DEF RelayFromData, clientVars, controlVars
<1> QED BY <1>1, <1>2, <1>3, <1>4, <1>5, CalmerKept, OneSocket

LEMMA RelayDataClosedKeeps ==
    ASSUME Inv, NEW c \in Conns, NEW g \in Gens, RelayDataClosed(c, g)
    PROVE  Inv'
<1> DEFINE d == data[c][g]
           q == IF d.near = "open" /\ d.far # "closed" THEN Answered(d.in) ELSE d.in
           e == [d EXCEPT !.out = Tail(@), !.near = "gone", !.in = q]
<1>1. d \in Sockets /\ d.out # <<>> /\ d # NoData
  BY SocketOfClient DEF RelayDataClosed, NoData
<1>2. q \in Seq(Frames) /\ q \in {d.in, Append(d.in, Close)}
  BY <1>1, SocketFields, AnsweredIs, FrameTypes
<1>3. data' = [data EXCEPT ![c][g] = e]
  BY DEF RelayDataClosed
<1> HIDE DEF q
<1>4. e \in Sockets
  <2>1. Tail(d.out) \in Seq(Frames)
    BY <1>1, SocketFields
  <2> QED BY <1>1, <1>2, <2>1 DEF Sockets, NearStates
<1>5. Calmer(d, e)
  BY <1>1, <1>2 DEF Calmer, Taking, Sockets
<1>6. UNCHANGED <<client, sent, up, pending, notices>>
  BY DEF RelayDataClosed, clientVars, controlVars
<1>7. UNCHANGED atRelay \/ CloseClient(c)
  BY DEF RelayDataClosed, DaemonWentAway
<1> QED BY <1>1, <1>3, <1>4, <1>5, <1>6, <1>7, CalmerKept, OneSocket

LEMMA NudgeKeeps ==
    ASSUME Inv, NEW c \in Conns, Nudge(c)
    PROVE  Inv'
<1> DEFINE listed == {x \in Conns : Listed(x)}
<1>1. UNCHANGED <<client, sent, up, pending, atRelay, data>>
  BY DEF Nudge, clientVars
<1>2. notices' \in {notices, Append(notices, [kind |-> "attach", ids |-> listed])}
  BY DEF Nudge, Notify, controlVars
<1>3. \A x \in listed : client[x] # "new"
  BY DEF Inv, ConnInv, Unborn, Listed
<1>4. listed \in SUBSET Conns
  OBVIOUS
<1> HIDE DEF listed
<1>5. notices' \in Seq(NoticeType) /\ Known'
  BY <1>1, <1>2, <1>3, <1>4, NotifyKnown DEF Inv
<1> QED BY <1>1, <1>5, OnlyNotices

LEMMA ResetKeeps ==
    ASSUME Inv, NEW c \in Conns, Reset(c)
    PROVE  Inv'
<1>1. UNCHANGED <<client, sent, up, pending, atRelay, data>>
  BY DEF Reset, clientVars
<1>2. notices' \in {notices, Append(notices, [kind |-> "reset", ids |-> {}])}
  BY DEF Reset, controlVars
<1>3. notices' \in Seq(NoticeType) /\ Known'
  <2>1. \A x \in {} : client'[x] # "new"
    OBVIOUS
  <2>2. {} \in SUBSET Conns /\ "reset" \in {"attach", "disconnected", "reset"}
    OBVIOUS
  <2> QED BY <1>1, <1>2, <2>1, <2>2, NotifyKnown DEF Inv
<1> QED BY <1>1, <1>3, OnlyNotices

-----------------------------------------------------------------------------
(* The daemon *)

LEMMA ClosingHeld ==
    ASSUME Inv, NEW ids \in SUBSET Conns, CloseHeld(ids),
           UNCHANGED <<client, sent, up, pending, atRelay>>,
           notices' \in Seq(NoticeType), Known'
    PROVE  Inv'
<1> DEFINE h == [x \in Conns |-> [g \in Gens |->
                    IF x \in ids /\ g = held[x] THEN CloseFar(data[x][g]) ELSE data[x][g]]]
<1>1. data' = h
  BY DEF CloseHeld
<1>2. \A x \in Conns, g \in Gens : h[x][g] \in {data[x][g], CloseFar(data[x][g])}
  OBVIOUS
<1>3. \A x \in Conns, g \in Gens : h[x][g] \in Sockets /\ Kept(data[x][g], h[x][g])
  BY <1>2, SocketOfClient, CloseFarCalm, CalmerKept, SameKept
<1>4. \A x \in Conns : client[x] = "new" => \A g \in Gens : h[x][g] = data[x][g]
  <2>1. CloseFar(NoData) = NoData
    BY DEF CloseFar, NoData
  <2> QED BY <1>2, <2>1 DEF Inv, ConnInv, Unborn
<1>5. h \in [Conns -> [Gens -> Sockets]]
  BY <1>3
<1> HIDE DEF h
<1>6. TypeInv'
  BY <1>1, <1>5 DEF Inv, TypeInv, NoticeType
<1>7. \A x \in Conns : Listed(x)' <=> Listed(x)
  BY DEF Listed
<1> QED BY <1>1, <1>3, <1>4, <1>5, <1>6, <1>7, SocketsKeep

LEMMA Attaching ==
    ASSUME Inv, NEW ids \in SUBSET Conns, EnsureDataSockets(ids), \A x \in ids : client[x] # "new",
           UNCHANGED <<client, sent, up, pending, atRelay>>,
           notices' \in Seq(NoticeType), Known'
    PROVE  Inv'
<1> DEFINE connecting == [NoData EXCEPT !.far = "connecting"]
           new == {c \in ids : held[c] = 0}
           h == [c \in Conns |-> [g \in Gens |->
                    IF c \in new /\ g = Min(Fresh(c)) THEN connecting ELSE data[c][g]]]
<1>1. data' = h
  BY DEF EnsureDataSockets
<1>2. \A x \in Conns, g \in Gens : h[x][g] \in {data[x][g], connecting} /\ (x \notin ids => h[x][g] = data[x][g])
  OBVIOUS
<1>3. \A x \in Conns, g \in Gens : h[x][g] \in Sockets /\ Kept(data[x][g], h[x][g])
  BY <1>2, SocketOfClient, FreshCalm, CalmerKept, SameKept
<1>4. \A x \in Conns : client[x] = "new" => \A g \in Gens : h[x][g] = data[x][g]
  BY <1>2
<1>5. h \in [Conns -> [Gens -> Sockets]]
  BY <1>3
<1> HIDE DEF h
<1>6. TypeInv'
  BY <1>1, <1>5 DEF Inv, TypeInv, NoticeType
<1>7. \A x \in Conns : Listed(x)' <=> Listed(x)
  BY DEF Listed
<1> QED BY <1>1, <1>3, <1>4, <1>5, <1>6, <1>7, SocketsKeep

LEMMA ControlReceiveKeeps ==
    ASSUME Inv, ControlReceive
    PROVE  Inv'
<1> DEFINE m == Head(notices)
<1>1. UNCHANGED <<client, sent, up, pending, atRelay>> /\ notices' = Tail(notices) /\ notices # <<>>
  BY DEF ControlReceive, clientVars
<1>2. /\ m \in NoticeType /\ \A x \in m.ids : x \in Conns /\ client[x] # "new"
      /\ notices' \in Seq(NoticeType)
  BY <1>1, NextNotice DEF Inv
<1>3. Known'
  BY <1>1, NextNotice DEF Inv, Known
<1>4. CASE EnsureDataSockets(m.ids)
  BY <1>1, <1>2, <1>3, <1>4, Attaching
<1>5. CASE CloseHeld(m.ids)
  BY <1>1, <1>2, <1>3, <1>5, ClosingHeld
<1>6. CASE UNCHANGED data
  BY <1>1, <1>2, <1>3, <1>6, OnlyNotices
<1> QED BY <1>4, <1>5, <1>6 DEF ControlReceive, OnDisconnected

LEMMA ControlReconnectKeeps ==
    ASSUME Inv, ControlReconnect
    PROVE  Inv'
<1> DEFINE m == [kind |-> "attach", ids |-> {c \in Conns : Listed(c)}]
<1>1. UNCHANGED <<client, sent, up, pending, atRelay, data>> /\ notices' = <<m>>
  BY DEF ControlReconnect, clientVars
<1>2. m \in NoticeType /\ \A x \in m.ids : client[x] # "new"
  BY DEF NoticeType, Inv, ConnInv, Unborn, Listed
<1> HIDE DEF m
<1>3. notices' \in Seq(NoticeType) /\ Len(notices') = 1 /\ notices'[1] = m
  BY <1>1, <1>2
<1>4. Known'
  BY <1>1, <1>2, <1>3 DEF Known
<1> QED BY <1>1, <1>3, <1>4, OnlyNotices

LEMMA NoNotices ==
    ASSUME notices' = <<>>
    PROVE  notices' \in Seq(NoticeType) /\ Known'
  BY DEF Known

LEMMA StopKeeps ==
    ASSUME Inv, Stop
    PROVE  Inv'
<1>1. UNCHANGED <<client, sent, up, pending, atRelay>> /\ notices' = <<>> /\ CloseHeld(Conns)
  BY DEF Stop, clientVars
<1>2. Conns \in SUBSET Conns
  OBVIOUS
<1> QED BY <1>1, <1>2, NoNotices, ClosingHeld

LEMMA ControlLostKeeps ==
    ASSUME Inv, ControlLost
    PROVE  Inv'
<1>1. UNCHANGED <<client, sent, up, pending, atRelay, data>> /\ notices' = <<>>
  BY DEF ControlLost, clientVars
<1> QED BY <1>1, NoNotices, OnlyNotices

LEMMA DataReceiveKeeps ==
    ASSUME Inv, NEW c \in Conns, NEW g \in Gens, DataReceive(c, g)
    PROVE  Inv'
<1> DEFINE d == data[c][g]
<1>1. d \in Sockets /\ d.in # <<>> /\ Head(d.in) # Close /\ d # NoData
  BY SocketOfClient DEF DataReceive, NoData
<1>2. data' = [data EXCEPT ![c][g] = Received(d)]
  BY DEF DataReceive, Received
<1>3. UNCHANGED <<client, sent, up, pending, notices, atRelay>>
  BY DEF DataReceive, clientVars, controlVars
<1>4. Received(d) \in Sockets
  <2>1. PICK p \in Int : Taken(d, sent[c], p, Listed(c))
    BY DEF Inv, ConnInv, Stream
  <2>2. sent[c] \in 0..MaxSends /\ Listed(c) \in BOOLEAN
    BY Typed DEF Inv
  <2> HIDE DEF d
  <2> QED BY <1>1, <2>1, <2>2, NextFrameTaken
<1>5. Kept(d, Received(d))
  <2>1. Taking(Received(d)) => Taking(d)
    <3>1. Received(d).near = d.near
      BY <1>1 DEF Received, CloseFar, Early, Sockets
    <3> QED BY <3>1 DEF Taking
  <2> HIDE DEF d
  <2>2. \A s \in 0..MaxSends, p \in Int, l \in BOOLEAN : Taken(d, s, p, l) => Taken(Received(d), s, p, l)
    BY <1>1, NextFrameTaken
  <2> QED BY <2>1, <2>2 DEF Kept
<1> HIDE DEF d
<1>6. /\ data[c][g] # NoData /\ Kept(data[c][g], Received(d))
      /\ data' = [data EXCEPT ![c][g] = Received(d)]
  BY <1>1, <1>2, <1>5 DEF d
<1> QED BY <1>3, <1>4, <1>6, OneSocket

LEMMA DataReadyKeeps ==
    ASSUME Inv, NEW c \in Conns, NEW g \in Gens, DataReady(c, g)
    PROVE  Inv'
<1> DEFINE d == data[c][g]
<1>1. d \in Sockets /\ d.far = "ready" /\ d # NoData
  BY SocketOfClient DEF DataReady, NoData
<1>2. data' = [data EXCEPT ![c][g] = Opened(d)]
  BY DEF DataReady, Opened
<1>3. UNCHANGED <<client, sent, up, pending, notices, atRelay>>
  BY DEF DataReady, clientVars, controlVars
<1>4. Opened(d) \in Sockets
  <2>1. PICK p \in Int : Taken(d, sent[c], p, Listed(c))
    BY DEF Inv, ConnInv, Stream
  <2>2. sent[c] \in 0..MaxSends /\ Listed(c) \in BOOLEAN
    BY Typed DEF Inv
  <2> HIDE DEF d
  <2> QED BY <1>1, <2>1, <2>2, KeptFramesTaken
<1>5. Kept(d, Opened(d))
  <2>1. Taking(Opened(d)) => Taking(d)
    BY <1>1 DEF Opened, Taking, Sockets
  <2> HIDE DEF d
  <2>2. \A s \in 0..MaxSends, p \in Int, l \in BOOLEAN : Taken(d, s, p, l) => Taken(Opened(d), s, p, l)
    BY <1>1, KeptFramesTaken
  <2> QED BY <2>1, <2>2 DEF Kept
<1> HIDE DEF d
<1>6. /\ data[c][g] # NoData /\ Kept(data[c][g], Opened(d))
      /\ data' = [data EXCEPT ![c][g] = Opened(d)]
  BY <1>1, <1>2, <1>5 DEF d
<1> QED BY <1>3, <1>4, <1>6, OneSocket

LEMMA DataClosedKeeps ==
    ASSUME Inv, NEW c \in Conns, NEW g \in Gens, DataClosed(c, g)
    PROVE  Inv'
<1> DEFINE d == data[c][g]
           q == IF d.far = "closed" THEN d.out ELSE Answered(d.out)
           e == [d EXCEPT !.in = Tail(@), !.far = "closed", !.early = <<>>, !.out = q]
<1>1. d \in Sockets /\ d.in # <<>> /\ d # NoData
  BY SocketOfClient DEF DataClosed, NoData
<1>2. q \in Seq(Frames)
  BY <1>1, SocketFields, AnsweredIs, FrameTypes
<1>3. data' = [data EXCEPT ![c][g] = e]
  BY DEF DataClosed
<1> HIDE DEF q
<1>4. e \in Sockets
  <2>1. Tail(d.in) \in Seq(Frames) /\ <<>> \in Seq(Frames)
    BY <1>1, SocketFields
  <2> QED BY <1>1, <1>2, <2>1 DEF Sockets, FarStates
<1>5. Calmer(d, e)
  BY <1>1 DEF Calmer, Taking, Sockets
<1>6. UNCHANGED <<client, sent, up, pending, notices, atRelay>>
  BY DEF DataClosed, clientVars, controlVars
<1> QED BY <1>1, <1>3, <1>4, <1>5, <1>6, CalmerKept, OneSocket

LEMMA SessionClosedKeeps ==
    ASSUME Inv, NEW c \in Conns, NEW g \in Gens, SessionClosed(c, g)
    PROVE  Inv'
<1> DEFINE d == data[c][g]
<1>1. d \in Sockets /\ d # NoData
  BY SocketOfClient DEF SessionClosed, NoData
<1>2. data' = [data EXCEPT ![c][g] = CloseFar(d)]
  BY DEF SessionClosed
<1>3. CloseFar(d) \in Sockets /\ Kept(d, CloseFar(d))
  BY <1>1, CloseFarCalm, CalmerKept
<1>4. UNCHANGED <<client, sent, up, pending, notices, atRelay>>
  BY DEF SessionClosed, clientVars, controlVars
<1> QED BY <1>1, <1>2, <1>3, <1>4, OneSocket

LEMMA DataLinkLostKeeps ==
    ASSUME Inv, NEW c \in Conns, NEW g \in Gens, DataLinkLost(c, g)
    PROVE  Inv'
<1> DEFINE d == data[c][g]
           e == [d EXCEPT !.in = <<Close>>, !.out = <<Close>>]
<1>1. d \in Sockets /\ d # NoData
  BY SocketOfClient DEF DataLinkLost, NoData
<1>2. data' = [data EXCEPT ![c][g] = e]
  BY DEF DataLinkLost
<1>3. e \in Sockets
  <2>1. <<Close>> \in Seq(Frames)
    BY FrameTypes
  <2> QED BY <1>1, <2>1 DEF Sockets
<1>4. Calmer(d, e)
  BY <1>1 DEF Calmer, Taking, Sockets
<1>5. UNCHANGED <<client, sent, up, pending, notices, atRelay>>
  BY DEF DataLinkLost, clientVars, controlVars
<1> QED BY <1>1, <1>2, <1>3, <1>4, <1>5, CalmerKept, OneSocket

LEMMA DataRefusedKeeps ==
    ASSUME Inv, NEW c \in Conns, NEW g \in Gens, DataRefused(c, g)
    PROVE  Inv'
<1> DEFINE d == data[c][g]
           e == [d EXCEPT !.far = "closed"]
<1>1. d \in Sockets /\ d # NoData
  BY SocketOfClient DEF DataRefused, NoData
<1>2. data' = [data EXCEPT ![c][g] = e]
  BY DEF DataRefused
<1>3. e \in Sockets /\ Calmer(d, e)
  BY <1>1 DEF Calmer, Taking, Sockets, FarStates
<1>4. UNCHANGED <<client, sent, up, pending, notices, atRelay>>
  BY DEF DataRefused, clientVars, controlVars
<1> QED BY <1>1, <1>2, <1>3, <1>4, CalmerKept, OneSocket

-----------------------------------------------------------------------------
(* The theorems *)

LEMMA InitInv == Init => Inv
<1> SUFFICES ASSUME Init PROVE Inv
  OBVIOUS
<1>1. NoData \in Sockets
  <2>1. <<>> \in Seq(Frames) /\ <<>> \in Seq(1..MaxSends)
    OBVIOUS
  <2> QED BY <2>1 DEF NoData, Sockets, FarStates, NearStates
<1>2. MaxSends \in Nat
  BY DEF RelayAssumption
<1>3. TypeInv
  <2>1. <<>> \in Seq(Frames) /\ <<>> \in Seq(NoticeType)
    OBVIOUS
  <2> QED BY <1>1, <1>2, <2>1 DEF Init, TypeInv, NearStates, NoticeType
<1>4. Known
  BY DEF Init, Known
<1>5. ASSUME NEW c \in Conns PROVE ConnInv(c)
  <2>1. ~Listed(c)
    BY DEF Init, Listed
  <2>2. \A g \in Gens : Taken(data[c][g], sent[c], 0, Listed(c))
    <3>1. Sock(NoData, 0, 0)
      BY DEF Sock, NoData, Numbered, Live
    <3> QED BY <2>1, <3>1 DEF Init, Taken
  <2>3. Stream(c)
    BY <2>1, <2>2 DEF Stream, Line
  <2> QED BY <2>3 DEF Init, ConnInv, Buffered, Quiet, Unborn
<1> QED BY <1>3, <1>4, <1>5 DEF Inv

LEMMA SystemStepKeeps ==
    ASSUME Inv, SystemStep
    PROVE  Inv'
<1>1. CASE ControlReceive \/ ControlReconnect
  BY <1>1, ControlReceiveKeeps, ControlReconnectKeeps
<1>2. ASSUME NEW c \in Conns,
             \/ ClientReceive(c) \/ RelayFromClient(c) \/ RelayClientClosed(c)
             \/ Nudge(c) \/ Reset(c)
      PROVE  Inv'
  BY <1>2, ClientReceiveKeeps, RelayFromClientKeeps, RelayClientClosedKeeps, NudgeKeeps, ResetKeeps
<1>3. ASSUME NEW c \in Conns, NEW g \in Gens,
             \/ RelayAccept(c, g) \/ RelayFromData(c, g) \/ RelayDataClosed(c, g)
             \/ DataReceive(c, g) \/ DataReady(c, g) \/ DataClosed(c, g)
      PROVE  Inv'
  BY <1>3, RelayAcceptKeeps, RelayFromDataKeeps, RelayDataClosedKeeps,
     DataReceiveKeeps, DataReadyKeeps, DataClosedKeeps
<1> QED BY <1>1, <1>2, <1>3 DEF SystemStep

LEMMA StepKeeps ==
    ASSUME Inv, [Next]_vars
    PROVE  Inv'
<1>1. CASE SystemStep
  BY <1>1, SystemStepKeeps
<1>2. CASE Stop \/ ControlLost
  BY <1>2, StopKeeps, ControlLostKeeps
<1>3. ASSUME NEW c \in Conns,
             Connect(c) \/ HelloRetry(c) \/ ClientSend(c) \/ ClientClose(c) \/ ClientLinkLost(c)
      PROVE  Inv'
  BY <1>3, ConnectKeeps, HelloRetryKeeps, ClientSendKeeps, ClientCloseKeeps, ClientLinkLostKeeps
<1>4. ASSUME NEW c \in Conns, NEW g \in Gens,
             SessionClosed(c, g) \/ DataLinkLost(c, g) \/ DataRefused(c, g)
      PROVE  Inv'
  BY <1>4, SessionClosedKeeps, DataLinkLostKeeps, DataRefusedKeeps
<1>5. CASE UNCHANGED vars
  <2>1. UNCHANGED <<client, sent, up, pending, atRelay, data, notices>>
    BY <1>5 DEF vars, clientVars, controlVars
  <2>2. notices' \in Seq(NoticeType) /\ Known'
    BY <2>1, ClientTyped DEF Inv, Known
  <2> QED BY <2>1, <2>2, OnlyNotices
<1> QED BY <1>1, <1>2, <1>3, <1>4, <1>5 DEF Next

(* In every reachable state each queue between a client and the sessions of  *)
(* its data sockets holds a piece of the one stream it sent, and the pieces  *)
(* meet: what the relay buffers, feeds and hands over, and what a channel    *)
(* keeps while it shakes hands.                                              *)
THEOREM StreamIsWhole == Spec => []Inv
<1>1. Inv /\ [Next]_vars => Inv'
  BY StepKeeps
<1> QED BY InitInv, <1>1, PTL DEF Spec

(* The session of any data socket has received the client's messages from    *)
(* the first on, in order and without a gap: whatever was buffered, dropped  *)
(* or lost, and whichever data socket took over.                             *)
THEOREM SessionsReceivePrefixes == Spec => []SessionReceivesPrefix
<1>1. Inv => SessionReceivesPrefix
  BY DEF Inv, ConnInv, Stream, Taken, Sock, SessionReceivesPrefix
<1> QED BY <1>1, StreamIsWhole, PTL

=============================================================================
