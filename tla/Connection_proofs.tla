------------------------- MODULE Connection_proofs -------------------------
(***************************************************************************)
(* Proofs about module Connection, for any number of messages: every message  *)
(* arrives whole, once and in order, as MessageStream says.                  *)
(*                                                                          *)
(* After a chunk there is only one that may follow it in a stream (After).  The *)
(* invariant says that what is on the wire is a chain of such chunks from the   *)
(* one that the reader awaits to the one that the writer will write next.  Only *)
(* a client that sends before it has answered breaks the chain, and then the    *)
(* server finds something else in the place of the answer (Early).           *)
(***************************************************************************)
EXTENDS Connection, SequenceTheorems, TLAPS

(* The chunk that follows another one in the stream from e.                    *)
After(e, c) ==
    IF c.kind = "header" /\ HasBody(e, c.msg) THEN Body(c.msg) ELSE Header(c.msg + 1)

(* A stretch of the stream that begins with "first" and is followed by "last".  *)
Linked(e, w, first) ==
    /\ w # <<>> => w[1] = first
    /\ \A i \in 1 .. Len(w) : i < Len(w) => w[i + 1] = After(e, w[i])

Ends(e, w, first, last) ==
    /\ w = <<>> => first = last
    /\ w # <<>> => After(e, w[Len(w)]) = last

(* How many messages were taken over from the application's thread, and written. *)
Queued(e)  == Len(sent[e]) - Len(posted[e])
Written(e) == Queued(e) - Len(out[e])

Unanswered == reading["client"] \in {"connecting", "validation"}

(* What e will write next, once the handshake was written.                      *)
NextWrite(e) ==
    IF writing[e] = "none" THEN Header(Written(e) + 1)
    ELSE IF writing[e] = "header" THEN After(e, Header(Written(e) + 1))
    ELSE Header(Written(e) + 2)

(* What e reads next.                                                        *)
Awaited(e) ==
    IF e = "client" /\ Unanswered THEN Hello
    ELSE IF reading[e] = "validation" THEN Answer
    ELSE IF reading[e] = "body" THEN Body(Len(in[e]) + 1)
    ELSE Header(Len(in[e]) + 1)

Chain(e) ==
    /\ Linked(e, wire[e], Awaited(Peer(e)))
    /\ e \in alive => Ends(e, wire[e], Awaited(Peer(e)), NextWrite(e))

Early ==
    /\ reading["server"] \in {"validation", "none"}
    /\ wire["client"] # <<>>
    /\ wire["client"][1] # Answer

-----------------------------------------------------------------------------
(* The invariant.                                                            *)

Types ==
    /\ sent \in [End -> Seq(BOOLEAN)]
    /\ posted \in [End -> Seq(Nat)] /\ out \in [End -> Seq(Nat)]
    /\ writing \in [End -> {"none", "header", "body"}]
    /\ wire \in [End -> Seq(Chunk)]
    /\ reading \in [End -> {"connecting", "validation", "answering", "header", "body", "none"}]
    /\ tmp \in [End -> [header : Nat, body : Nat]]
    /\ in \in [End -> Seq([header : Nat, body : Nat])]
    /\ alive \subseteq End

(* The messages of a living writer are numbered through.                      *)
WriterInv(e) ==
    /\ Written(e) \in Nat
    /\ \A i \in 1 .. Len(posted[e]) : posted[e][i] = Queued(e) + i
    /\ \A i \in 1 .. Len(out[e]) : out[e][i] = Written(e) + i
    /\ writing[e] = "none" <=> out[e] = <<>>
    /\ writing[e] = "body" => HasBody(e, Written(e) + 1)

ReaderInv(e) ==
    /\ Len(in[e]) <= Len(sent[Peer(e)])
    /\ \A i \in 1 .. Len(in[e]) :
           /\ in[e][i].header = i
           /\ HasBody(Peer(e), i) => in[e][i].body = i
    /\ reading[e] = "body" =>
           /\ tmp[e].header = Len(in[e]) + 1
           /\ HasBody(Peer(e), Len(in[e]) + 1)
    /\ reading[e] \in {"connecting", "validation"} => in[e] = <<>>

WireInv(e) == \A i \in 1 .. Len(wire[e]) : wire[e][i].msg <= Len(sent[e])

(* Before it has answered a client has written nothing, or too early.          *)
AnswerInv ==
    Unanswered /\ "server" \in alive =>
        /\ reading["server"] = "validation"
        /\ \/ /\ wire["client"] = <<>>
              /\ "client" \in alive => writing["client"] = "none" /\ Written("client") = 0
           \/ Early

ChainInv ==
    /\ "client" \in alive => Chain("server")
    /\ "server" \in alive /\ ~Unanswered => Chain("client") \/ Early

Roles == reading["server"] \notin {"connecting", "answering"}

IInv ==
    /\ Types
    /\ Roles
    /\ \A e \in End : (e \in alive => WriterInv(e)) /\ ReaderInv(e) /\ WireInv(e)
    /\ AnswerInv
    /\ ChainInv

-----------------------------------------------------------------------------
(* Chains.                                                                   *)

LEMMA AppendLinked ==
    ASSUME NEW e, NEW w \in Seq(Chunk), NEW first \in Chunk, NEW last \in Chunk,
           Linked(e, w, first), Ends(e, w, first, last)
    PROVE  /\ Append(w, last) \in Seq(Chunk)
           /\ Linked(e, Append(w, last), first)
           /\ Ends(e, Append(w, last), first, After(e, last))
<1> DEFINE v == Append(w, last)
<1>1. /\ v \in Seq(Chunk) /\ Len(v) = Len(w) + 1 /\ v[Len(v)] = last /\ v # <<>>
      /\ Len(w) \in Nat /\ (w = <<>> <=> Len(w) = 0)
      /\ \A i \in 1 .. Len(w) : v[i] = w[i]
  OBVIOUS
<1> HIDE DEF v
<1>2. v[1] = first
  BY <1>1 DEF Linked, Ends
<1>3. ASSUME NEW i \in 1 .. Len(v), i < Len(v)
      PROVE  v[i + 1] = After(e, v[i])
  <2>1. i \in 1 .. Len(w) /\ v[i] = w[i]
    BY <1>1, <1>3
  <2>2. CASE i < Len(w)
    BY <1>1, <2>1, <2>2 DEF Linked
  <2>3. CASE i = Len(w)
    BY <1>1, <2>1, <2>3 DEF Ends
  <2> QED
    BY <1>1, <2>1, <2>2, <2>3
<1>4. Linked(e, v, first) /\ Ends(e, v, first, After(e, last))
  BY <1>1, <1>2, <1>3 DEF Linked, Ends
<1> QED
  BY <1>1, <1>4 DEF v

LEMMA TailLinked ==
    ASSUME NEW e, NEW w \in Seq(Chunk), w # <<>>, NEW first, Linked(e, w, first)
    PROVE  /\ Head(w) = first
           /\ Tail(w) \in Seq(Chunk)
           /\ Linked(e, Tail(w), After(e, first))
           /\ \A last : Ends(e, w, first, last) => Ends(e, Tail(w), After(e, first), last)
<1> DEFINE v == Tail(w)
<1>1. /\ v \in Seq(Chunk) /\ Len(v) = Len(w) - 1 /\ Len(w) \in Nat \ {0}
      /\ \A i \in 1 .. Len(v) : v[i] = w[i + 1]
      /\ Head(w) = w[1] /\ (v = <<>> <=> Len(v) = 0)
  <2>1. v \in Seq(Chunk) /\ Len(v) = Len(w) - 1 /\ Len(w) \in Nat \ {0} /\ Head(w) = w[1]
    OBVIOUS
  <2>2. \A i \in 1 .. Len(v) : v[i] = w[i + 1]
    BY HeadTailProperties, <2>1
  <2> HIDE DEF v
  <2>3. v = <<>> <=> Len(v) = 0
    BY <2>1, EmptySeq
  <2> QED
    BY <2>1, <2>2, <2>3
<1> HIDE DEF v
<1>2. Head(w) = first
  BY <1>1 DEF Linked
<1>3. Linked(e, v, After(e, first))
  <2>1. v # <<>> => v[1] = After(e, first)
    BY <1>1, <1>2 DEF Linked
  <2>2. ASSUME NEW i \in 1 .. Len(v), i < Len(v)
        PROVE  v[i + 1] = After(e, v[i])
    <3>1. i + 1 \in 1 .. Len(w) /\ i + 1 < Len(w) /\ i + 1 \in 1 .. Len(v)
      BY <1>1, <2>2
    <3> QED
      BY <1>1, <3>1 DEF Linked
  <2> QED
    BY <2>1, <2>2 DEF Linked
<1>4. ASSUME NEW last, Ends(e, w, first, last)
      PROVE  Ends(e, v, After(e, first), last)
  <2>1. CASE v = <<>>
    <3>1. Len(w) = 1 /\ w # <<>> /\ w[1] = first
      BY <1>1, <1>2, <2>1
    <3>2. After(e, w[Len(w)]) = last
      BY <1>4, <3>1 DEF Ends
    <3> QED
      BY <2>1, <3>1, <3>2 DEF Ends
  <2>2. CASE v # <<>>
    <3>1. Len(v) \in 1 .. Len(v) /\ v[Len(v)] = w[Len(w)]
      BY <1>1, <2>2
    <3> QED
      BY <1>4, <2>2, <3>1 DEF Ends
  <2> QED
    BY <2>1, <2>2
<1> QED
  BY <1>1, <1>2, <1>3, <1>4 DEF v

LEMMA AfterChunk ==
    ASSUME NEW e, NEW c \in Chunk
    PROVE  After(e, c) \in Chunk
  BY DEF After, Body, Header, Chunk

LEMMA PeerOf ==
    /\ Peer("server") = "client" /\ Peer("client") = "server"
    /\ "server" \in End /\ "client" \in End
    /\ \A e \in End : Peer(e) \in End /\ Peer(e) # e /\ Peer(Peer(e)) = e
  BY DEF Peer, End

LEMMA AwaitedChunk ==
    ASSUME Types, NEW e \in End
    PROVE  Awaited(e) \in Chunk
<1>1. Len(in[e]) \in Nat
  BY DEF Types
<1> QED
  BY <1>1 DEF Awaited, Hello, Answer, Header, Body, Chunk

LEMMA NextWriteChunk ==
    ASSUME Types, NEW e \in End, WriterInv(e)
    PROVE  NextWrite(e) \in Chunk /\ NextWrite(e) # Answer
<1>1. Written(e) + 1 \in Nat /\ Written(e) + 2 \in Nat
  BY DEF WriterInv
<1> QED
  BY <1>1 DEF NextWrite, After, Answer, Header, Body, Chunk

-----------------------------------------------------------------------------
(* The steps of a writer: it leaves the wire alone and will write what it would  *)
(* have written, or it writes that.                                          *)

LEMMA OtherWriter ==
    ASSUME NEW d \in End, sent'[d] = sent[d],
           posted'[d] = posted[d], out'[d] = out[d], writing'[d] = writing[d]
    PROVE  /\ Written(d)' = Written(d) /\ NextWrite(d)' = NextWrite(d)
           /\ WriterInv(d) => WriterInv(d)'
           /\ \A n : HasBody(d, n)' <=> HasBody(d, n)
<1>1. Queued(d)' = Queued(d)
  BY DEF Queued
<1>2. Written(d)' = Written(d)
  BY <1>1 DEF Written
<1>3. \A n : HasBody(d, n)' <=> HasBody(d, n)
  BY DEF HasBody
<1>4. NextWrite(d)' = NextWrite(d)
  BY <1>2, <1>3 DEF NextWrite, After, Header, Body
<1>5. WriterInv(d) => WriterInv(d)'
  BY <1>1, <1>2, <1>3 DEF WriterInv
<1> QED
  BY <1>2, <1>3, <1>4, <1>5

LEMMA QuietWriter ==
    ASSUME IInv, NEW e \in End, e \in alive, Types', WriterInv(e)',
           UNCHANGED <<sent, reading, tmp, in, alive, wire>>,
           \A d \in End \ {e} : posted'[d] = posted[d] /\ out'[d] = out[d]
                                 /\ writing'[d] = writing[d],
           NextWrite(e)' = NextWrite(e),
           writing[e] = "none" /\ Written(e) = 0
               => writing'[e] = "none" /\ Written(e)' = 0
    PROVE  IInv'
<1>1. \A d \in End \ {e} : /\ Written(d)' = Written(d) /\ NextWrite(d)' = NextWrite(d)
                            /\ (WriterInv(d) => WriterInv(d)')
  BY OtherWriter
<1>2. \A d \in End : NextWrite(d)' = NextWrite(d) /\ (d \in alive' => WriterInv(d)')
  BY <1>1 DEF IInv
<1>3. \A d \in End : Awaited(d)' = Awaited(d)
  BY DEF Awaited, Unanswered
<1>4. \A d \in End : Chain(d) => Chain(d)'
  BY <1>2, <1>3, PeerOf DEF Chain, Linked, Ends, After, HasBody
<1>5. (Unanswered' <=> Unanswered) /\ (Early' <=> Early)
  BY DEF Unanswered, Early
<1>6. ChainInv'
  BY <1>4, <1>5, PeerOf DEF IInv, ChainInv
<1>7. AnswerInv'
  BY <1>1, <1>5, PeerOf DEF IInv, AnswerInv
<1>8. \A d \in End : ReaderInv(d)' /\ WireInv(d)'
  BY DEF IInv, ReaderInv, WireInv, HasBody
<1> QED
  BY <1>2, <1>6, <1>7, <1>8 DEF IInv, Roles

LEMMA BusyWriter ==
    ASSUME IInv, NEW e \in End, e \in alive, Types', WriterInv(e)',
           UNCHANGED <<sent, reading, tmp, in, alive>>,
           \A d \in End \ {e} : posted'[d] = posted[d] /\ out'[d] = out[d]
                                 /\ writing'[d] = writing[d],
           wire' = [wire EXCEPT ![e] = Append(@, NextWrite(e))],
           NextWrite(e).msg <= Len(sent[e]),
           NextWrite(e)' = After(e, NextWrite(e))
    PROVE  IInv'
<1> DEFINE c == NextWrite(e)
<1>1. c \in Chunk /\ c # Answer /\ Types
  BY NextWriteChunk DEF IInv
<1>2. /\ wire[e] \in Seq(Chunk) /\ wire'[e] = Append(wire[e], c)
      /\ \A d \in End \ {e} : wire'[d] = wire[d]
  BY <1>1 DEF Types
<1>3. \A d \in End \ {e} : /\ Written(d)' = Written(d) /\ NextWrite(d)' = NextWrite(d)
                            /\ (WriterInv(d) => WriterInv(d)')
  BY OtherWriter
<1>4. \A d \in End : d \in alive' => WriterInv(d)'
  BY <1>3 DEF IInv
<1>5. \A d \in End : Awaited(d)' = Awaited(d)
  BY DEF Awaited, Unanswered
<1>6. \A d \in End \ {e} : Chain(d) => Chain(d)'
  BY <1>2, <1>3, <1>5, PeerOf DEF Chain, Linked, Ends, After, HasBody
<1>7. Chain(e) => Chain(e)'
  <2> SUFFICES ASSUME Chain(e) PROVE Chain(e)'
    OBVIOUS
  <2>1. Awaited(Peer(e)) \in Chunk
    BY <1>1, AwaitedChunk, PeerOf
  <2>2. Linked(e, wire[e], Awaited(Peer(e))) /\ Ends(e, wire[e], Awaited(Peer(e)), c)
    BY DEF Chain
  <2> HIDE DEF c
  <2>3. /\ Linked(e, Append(wire[e], c), Awaited(Peer(e)))
        /\ Ends(e, Append(wire[e], c), Awaited(Peer(e)), After(e, c))
    BY <1>1, <1>2, <2>1, <2>2, AppendLinked
  <2>4. /\ Linked(e, wire'[e], Awaited(Peer(e)))
        /\ Ends(e, wire'[e], Awaited(Peer(e)), After(e, c))
    BY <1>2, <2>3
  <2>5. NextWrite(e)' = After(e, c)
    BY DEF c
  <2>6. Awaited(Peer(e))' = Awaited(Peer(e))
    BY <1>5, PeerOf
  <2> QED
    BY <2>4, <2>5, <2>6 DEF Chain, Linked, Ends, After, HasBody
<1>8. wire'[e] # <<>> /\ (wire'[e][1] = IF wire[e] = <<>> THEN c ELSE wire[e][1])
  BY <1>1, <1>2
<1>9. (Unanswered' <=> Unanswered) /\ (Early => Early')
  <2>1. Unanswered' <=> Unanswered
    BY DEF Unanswered
  <2>2. Early => Early'
    BY <1>2, <1>8, PeerOf DEF Early, End
  <2> QED
    BY <2>1, <2>2
<1>10. ChainInv'
  BY <1>6, <1>7, <1>9, PeerOf DEF IInv, ChainInv
<1>11. AnswerInv'
  <2> SUFFICES ASSUME Unanswered, "server" \in alive
               PROVE  /\ reading'["server"] = "validation"
                      /\ \/ /\ wire'["client"] = <<>>
                            /\ "client" \in alive' =>
                                   writing'["client"] = "none" /\ Written("client")' = 0
                         \/ Early'
    BY <1>9 DEF AnswerInv
  <2>1. reading["server"] = "validation" /\ reading' = reading
    BY DEF IInv, AnswerInv
  <2>2. CASE e = "client"
    <3>1. wire["client"] = <<>> \/ Early
      BY DEF IInv, AnswerInv
    <3>2. Early'
      BY <1>1, <1>8, <1>9, <2>1, <2>2, <3>1 DEF Early
    <3> QED
      BY <2>1, <3>2
  <2>3. CASE e # "client"
    BY <1>2, <1>3, <1>9, <2>1, <2>3, PeerOf DEF IInv, AnswerInv
  <2> QED
    BY <2>2, <2>3
<1>12. \A d \in End : ReaderInv(d)'
  BY DEF IInv, ReaderInv, HasBody
<1>13. \A d \in End : WireInv(d)'
  <2>1. \A d \in End \ {e} : WireInv(d)'
    BY <1>2 DEF IInv, WireInv
  <2>2. WireInv(e)'
    <3>1. ASSUME NEW i \in 1 .. Len(wire'[e])
          PROVE  wire'[e][i].msg <= Len(sent'[e])
      <4>1. (i \in 1 .. Len(wire[e]) /\ wire'[e][i] = wire[e][i]) \/ wire'[e][i] = c
        BY <1>1, <1>2
      <4> QED
        BY <4>1 DEF IInv, WireInv
    <3> QED
      BY <3>1 DEF WireInv
  <2> QED
    BY <2>1, <2>2
<1> QED
  BY <1>4, <1>10, <1>11, <1>12, <1>13 DEF IInv, Roles

LEMMA Sizes ==
    ASSUME Types, NEW e \in End
    PROVE  /\ Len(sent[e]) \in Nat /\ Len(posted[e]) \in Nat /\ Len(out[e]) \in Nat
           /\ Queued(e) \in Int /\ Written(e) \in Int
           /\ Queued(e) = Written(e) + Len(out[e])
           /\ Len(sent[e]) = Queued(e) + Len(posted[e])
           /\ out[e] = <<>> <=> Len(out[e]) = 0
<1>1. sent[e] \in Seq(BOOLEAN) /\ posted[e] \in Seq(Nat) /\ out[e] \in Seq(Nat)
  BY DEF Types
<1>2. Len(sent[e]) \in Nat /\ Len(posted[e]) \in Nat /\ Len(out[e]) \in Nat
      /\ (out[e] = <<>> <=> Len(out[e]) = 0)
  BY <1>1
<1> QED
  BY <1>2 DEF Queued, Written

(* A table of queues with something appended to one of them.                   *)
LEMMA AppendAt ==
    ASSUME NEW S, NEW f \in [End -> Seq(S)], NEW e \in End, NEW x \in S
    PROVE  LET g == [f EXCEPT ![e] = Append(@, x)]
           IN  /\ g \in [End -> Seq(S)] /\ g[e] = Append(f[e], x)
               /\ Len(g[e]) = Len(f[e]) + 1 /\ g[e][Len(f[e]) + 1] = x
               /\ \A i \in 1 .. Len(f[e]) + 1 :
                      i = Len(f[e]) + 1 \/ (i \in 1 .. Len(f[e]) /\ g[e][i] = f[e][i])
               /\ \A d \in End \ {e} : g[d] = f[d]
<1> DEFINE q == Append(f[e], x)
           g == [f EXCEPT ![e] = q]
<1>1. f[e] \in Seq(S) /\ Len(f[e]) \in Nat
  <2>1. f[e] \in Seq(S)
    OBVIOUS
  <2> QED
    BY <2>1, LenProperties
<1>2. /\ q \in Seq(S) /\ Len(q) = Len(f[e]) + 1 /\ q[Len(f[e]) + 1] = x
      /\ \A i \in 1 .. Len(f[e]) : q[i] = f[e][i]
  BY <1>1, AppendProperties
<1> HIDE DEF q
<1>3. g \in [End -> Seq(S)] /\ g[e] = q /\ \A d \in End \ {e} : g[d] = f[d]
  BY <1>2
<1>4. \A i \in 1 .. Len(f[e]) + 1 : i = Len(f[e]) + 1 \/ i \in 1 .. Len(f[e])
  BY <1>1
<1> HIDE DEF g
<1>5. /\ Len(g[e]) = Len(f[e]) + 1 /\ g[e][Len(f[e]) + 1] = x
      /\ \A i \in 1 .. Len(f[e]) + 1 :
             i = Len(f[e]) + 1 \/ (i \in 1 .. Len(f[e]) /\ g[e][i] = f[e][i])
  BY <1>2, <1>3, <1>4
<1> QED
  BY <1>3, <1>5 DEF q, g

LEMMA SendStep ==
    ASSUME IInv, NEW e \in End, NEW body \in BOOLEAN, Send(e, body)
    PROVE  IInv'
<1>1. /\ e \in alive /\ Types /\ WriterInv(e)
      /\ UNCHANGED <<out, writing, wire, reading, tmp, in, alive>>
      /\ sent' = [sent EXCEPT ![e] = Append(@, body)]
      /\ posted' = [posted EXCEPT ![e] = Append(@, Len(sent[e]) + 1)]
  BY DEF Send, readVars, IInv
<1>2. /\ sent[e] \in Seq(BOOLEAN) /\ posted[e] \in Seq(Nat)
      /\ sent'[e] = Append(sent[e], body) /\ posted'[e] = Append(posted[e], Len(sent[e]) + 1)
      /\ \A d \in End \ {e} : sent'[d] = sent[d] /\ posted'[d] = posted[d]
  BY <1>1 DEF Types
<1>3. Types'
  <2>1. sent' \in [End -> Seq(BOOLEAN)]
    BY <1>1, AppendAt DEF Types
  <2>2. posted' \in [End -> Seq(Nat)]
    BY <1>1, Sizes, AppendAt DEF Types
  <2> QED
    BY <1>1, <2>1, <2>2 DEF Types
<1>4. /\ Len(sent'[e]) = Len(sent[e]) + 1 /\ Len(posted'[e]) = Len(posted[e]) + 1
      /\ Queued(e)' = Queued(e) /\ Written(e)' = Written(e)
  <2>1. Len(sent'[e]) = Len(sent[e]) + 1 /\ Len(posted'[e]) = Len(posted[e]) + 1
    BY <1>2
  <2>2. Queued(e)' = Queued(e)
    <3>1. Len(sent[e]) \in Nat /\ Len(posted[e]) \in Nat
      BY <1>1, Sizes
    <3> QED
      BY <2>1, <3>1 DEF Queued
  <2> QED
    BY <1>1, <2>1, <2>2 DEF Written
<1>5. /\ \A n : HasBody(e, n) => HasBody(e, n)'
      /\ \A n \in Nat : n <= Len(sent[e]) => (HasBody(e, n)' <=> HasBody(e, n))
  <2>1. DOMAIN sent[e] = 1 .. Len(sent[e]) /\ DOMAIN sent'[e] = 1 .. Len(sent[e]) + 1
        /\ \A n \in DOMAIN sent[e] : sent'[e][n] = sent[e][n]
    BY <1>2
  <2>2. Len(sent[e]) \in Nat
    BY <1>1, Sizes
  <2> QED
    BY <2>1, <2>2 DEF HasBody
<1>6. WriterInv(e)'
  <2>1. \A i \in 1 .. Len(posted'[e]) : posted'[e][i] = Queued(e)' + i
    <3>1. Len(sent[e]) + 1 = Queued(e) + Len(posted'[e])
      BY <1>1, <1>4, Sizes
    <3> QED
      BY <1>1, <1>2, <1>4, <3>1 DEF WriterInv
  <2> QED
    BY <1>1, <1>4, <1>5, <2>1 DEF WriterInv
<1>7. NextWrite(e)' = NextWrite(e)
  <2>1. CASE writing[e] = "header"
    <3>1. Written(e) + 1 \in Nat /\ Written(e) + 1 <= Len(sent[e])
      <4>1. Written(e) \in Nat /\ out[e] # <<>>
        BY <1>1, <2>1 DEF WriterInv
      <4> QED
        BY <1>1, <4>1, Sizes
    <3>2. Header(Written(e) + 1).msg = Written(e) + 1
      BY DEF Header
    <3> QED
      BY <1>1, <1>4, <1>5, <2>1, <3>1, <3>2 DEF NextWrite, After, Header, Body
  <2>2. CASE writing[e] # "header"
    BY <1>1, <1>4, <2>2 DEF NextWrite, Header
  <2> QED
    BY <2>1, <2>2
<1>8. \A d \in End \ {e} : /\ Written(d)' = Written(d) /\ NextWrite(d)' = NextWrite(d)
                            /\ (WriterInv(d) => WriterInv(d)')
                            /\ \A n : HasBody(d, n)' <=> HasBody(d, n)
  BY <1>1, <1>2, OtherWriter
<1>9. \A d \in End : Awaited(d)' = Awaited(d)
  BY <1>1 DEF Awaited, Unanswered
<1>10. \A d \in End : WireInv(d) => WireInv(d)'
  <2>1. Len(sent[e]) \in Nat /\ \A i \in 1 .. Len(wire[e]) : wire[e][i].msg \in Nat
    <3>1. wire[e] \in Seq(Chunk)
      BY <1>1 DEF Types
    <3>2. \A i \in 1 .. Len(wire[e]) : wire[e][i] \in Chunk
      BY <3>1
    <3> QED
      BY <1>1, <3>2, Sizes DEF Chunk
  <2> QED
    BY <1>1, <1>2, <1>4, <2>1 DEF WireInv
<1>11. \A d \in End : Chain(d) /\ WireInv(d) => Chain(d)'
  <2>1. ASSUME NEW d \in End, WireInv(d), NEW i \in 1 .. Len(wire[d])
        PROVE  After(d, wire[d][i])' = After(d, wire[d][i])
    <3>1. wire[d] \in Seq(Chunk)
      BY <1>1 DEF Types
    <3>2. wire[d][i] \in Chunk /\ wire[d][i].msg <= Len(sent[d])
      BY <2>1, <3>1 DEF WireInv
    <3>3. wire[d][i].msg \in Nat
      BY <3>2 DEF Chunk
    <3>4. HasBody(d, wire[d][i].msg)' <=> HasBody(d, wire[d][i].msg)
      BY <1>1, <1>5, <1>8, <3>2, <3>3
    <3> QED
      BY <1>1, <3>4 DEF After, Body, Header
  <2>2. ASSUME NEW d \in End, Chain(d), WireInv(d)
        PROVE  Chain(d)'
    <3>1. wire[d] \in Seq(Chunk) /\ wire'[d] = wire[d]
      BY <1>1 DEF Types
    <3>2. NextWrite(d)' = NextWrite(d) /\ Awaited(Peer(d))' = Awaited(Peer(d))
      BY <1>7, <1>8, <1>9, PeerOf
    <3>3. wire[d] # <<>> => Len(wire[d]) \in 1 .. Len(wire[d])
      BY <3>1
    <3> QED
      BY <1>1, <2>1, <2>2, <3>1, <3>2, <3>3 DEF Chain, Linked, Ends
  <2> QED
    BY <2>2
<1>12. (Unanswered' <=> Unanswered) /\ (Early' <=> Early)
  BY <1>1 DEF Unanswered, Early
<1>13. ChainInv'
  BY <1>1, <1>11, <1>12, PeerOf DEF IInv, ChainInv
<1>14. AnswerInv'
  BY <1>1, <1>4, <1>8, <1>12, PeerOf DEF IInv, AnswerInv
<1>15. ASSUME NEW d \in End
       PROVE  ReaderInv(d)'
  <2>1. ReaderInv(d) /\ Peer(d) \in End
    BY PeerOf DEF IInv
  <2>2. Len(in[d]) \in Nat /\ Len(sent[Peer(d)]) \in Nat
    <3>1. in[d] \in Seq([header : Nat, body : Nat])
      BY <1>1 DEF Types
    <3> QED
      BY <1>1, <2>1, <3>1, Sizes
  <2>3. Len(in[d]) <= Len(sent'[Peer(d)])
    <3>1. CASE Peer(d) = e
      BY <1>4, <2>1, <2>2, <3>1 DEF ReaderInv
    <3>2. CASE Peer(d) # e
      BY <1>2, <2>1, <3>2 DEF ReaderInv
    <3> QED
      BY <3>1, <3>2
  <2>4. \A i \in 1 .. Len(in[d]) : HasBody(Peer(d), i)' => HasBody(Peer(d), i)
    BY <1>5, <1>8, <2>1, <2>2 DEF ReaderInv
  <2>5. \A n : HasBody(Peer(d), n) => HasBody(Peer(d), n)'
    BY <1>5, <1>8, <2>1
  <2> QED
    BY <1>1, <2>1, <2>3, <2>4, <2>5 DEF ReaderInv
<1> QED
  BY <1>1, <1>3, <1>6, <1>8, <1>10, <1>13, <1>14, <1>15 DEF IInv, Roles

LEMMA DisconnectStep ==
    ASSUME IInv, NEW e \in End, Disconnect(e)
    PROVE  IInv'
<1>1. /\ UNCHANGED <<sent, posted, out, writing, wire, reading, tmp, in>>
      /\ alive' = alive \ {e}
  BY DEF Disconnect, writeVars, readVars
<1>2. Types'
  BY <1>1 DEF IInv, Types
<1>3. \A d \in End : d \in alive' => WriterInv(d)'
  BY <1>1, OtherWriter DEF IInv
<1>4. \A d \in End : ReaderInv(d)' /\ WireInv(d)'
  BY <1>1 DEF IInv, ReaderInv, WireInv, HasBody
<1>5. /\ \A d \in End : Chain(d) => Chain(d)'
      /\ (Unanswered' <=> Unanswered) /\ (Early' <=> Early)
  <2>1. \A d \in End : NextWrite(d)' = NextWrite(d) /\ Awaited(d)' = Awaited(d)
    BY <1>1, OtherWriter DEF Awaited, Unanswered
  <2> QED
    BY <1>1, <2>1, PeerOf DEF Chain, Linked, Ends, After, HasBody, Unanswered, Early
<1>6. ChainInv' /\ AnswerInv'
  BY <1>1, <1>5, PeerOf, OtherWriter DEF IInv, ChainInv, AnswerInv
<1> QED
  BY <1>1, <1>2, <1>3, <1>4, <1>6 DEF IInv, Roles

-----------------------------------------------------------------------------
(* Taking over a message and writing.                                        *)

LEMMA RunPostedStep ==
    ASSUME IInv, NEW e \in End, RunPosted(e)
    PROVE  IInv'
<1>1. /\ Types /\ posted[e] # <<>> /\ posted' = [posted EXCEPT ![e] = Tail(@)]
      /\ UNCHANGED <<sent, reading, tmp, in>>
      /\ posted[e] \in Seq(Nat) /\ posted'[e] = Tail(posted[e])
      /\ Len(posted'[e]) = Len(posted[e]) - 1 /\ Len(posted[e]) \in Nat \ {0}
      /\ posted' \in [End -> Seq(Nat)]
  <2>1. /\ Types /\ posted[e] # <<>> /\ posted' = [posted EXCEPT ![e] = Tail(@)]
        /\ UNCHANGED <<sent, reading, tmp, in>>
        /\ posted[e] \in Seq(Nat) /\ posted'[e] = Tail(posted[e])
    BY DEF RunPosted, readVars, IInv, Types
  <2>2. /\ Tail(posted[e]) \in Seq(Nat) /\ Len(Tail(posted[e])) = Len(posted[e]) - 1
        /\ Len(posted[e]) \in Nat \ {0}
    BY <2>1
  <2>3. posted' \in [End -> Seq(Nat)]
    BY <2>1, <2>2 DEF Types
  <2> QED
    BY <2>1, <2>2, <2>3
<1>2. CASE /\ e \in alive
           /\ Enqueue(e, Head(posted[e]))
           /\ UNCHANGED alive
  <2> DEFINE n == Head(posted[e])
  <2>1. /\ WriterInv(e) /\ n = Queued(e) + 1 /\ n \in Nat
        /\ Queued(e) \in Nat /\ Len(out[e]) \in Nat /\ out[e] \in Seq(Nat)
        /\ n <= Len(sent[e])
    <3>1. WriterInv(e) /\ Len(posted[e]) >= 1 /\ posted[e][1] = n /\ n \in Nat
      BY <1>1, <1>2 DEF IInv
    <3>2. n = Queued(e) + 1
      BY <1>1, <3>1 DEF WriterInv
    <3>3. Queued(e) \in Nat /\ Len(out[e]) \in Nat /\ n <= Len(sent[e])
      BY <1>1, <3>1, <3>2, Sizes DEF WriterInv
    <3> QED
      BY <1>1, <3>1, <3>2, <3>3 DEF Types
  <2> HIDE DEF n
  <2>2. /\ out' = [out EXCEPT ![e] = Append(@, n)] /\ out'[e] = Append(out[e], n)
        /\ Len(out'[e]) = Len(out[e]) + 1 /\ out'[e] # <<>>
        /\ out' \in [End -> Seq(Nat)]
    <3>1. out' = [out EXCEPT ![e] = Append(@, n)]
      BY <1>2 DEF Enqueue, n
    <3>2. out'[e] = Append(out[e], n)
      BY <1>1, <3>1 DEF Types
    <3>3. /\ Append(out[e], n) \in Seq(Nat) /\ Len(Append(out[e], n)) = Len(out[e]) + 1
          /\ Append(out[e], n) # <<>>
      BY <2>1
    <3>4. out' \in [End -> Seq(Nat)]
      BY <1>1, <3>1, <3>3 DEF Types
    <3> QED
      BY <3>1, <3>2, <3>3, <3>4
  <2>3. Queued(e)' = Queued(e) + 1 /\ Written(e)' = Written(e)
    <3>1. Len(sent[e]) \in Nat /\ Len(posted[e]) \in Nat
      BY <1>1, Sizes
    <3>2. Queued(e)' = Queued(e) + 1
      BY <1>1, <2>2, <3>1 DEF Queued
    <3> QED
      BY <2>1, <2>2, <3>2 DEF Written
  <2>4. /\ \A i \in 1 .. Len(posted'[e]) : posted'[e][i] = Queued(e)' + i
        /\ \A i \in 1 .. Len(out'[e]) : out'[e][i] = Written(e)' + i
    <3>1. ASSUME NEW i \in 1 .. Len(posted'[e])
          PROVE  posted'[e][i] = Queued(e)' + i
      <4>1. i + 1 \in 1 .. Len(posted[e]) /\ posted'[e][i] = posted[e][i + 1]
        BY <1>1, <2>2
      <4>2. posted[e][i + 1] = Queued(e) + (i + 1)
        BY <2>1, <4>1 DEF WriterInv
      <4> QED
        BY <2>1, <2>3, <4>1, <4>2
    <3>2. ASSUME NEW i \in 1 .. Len(out'[e])
          PROVE  out'[e][i] = Written(e)' + i
      <4>1. CASE i \in 1 .. Len(out[e])
        BY <2>1, <2>2, <2>3, <4>1 DEF WriterInv
      <4>2. CASE i = Len(out[e]) + 1
        <5>1. out'[e][i] = n
          BY <2>1, <2>2, <4>2
        <5>2. Queued(e) = Written(e) + Len(out[e])
          BY <1>1, Sizes
        <5> QED
          BY <2>1, <2>3, <4>2, <5>1, <5>2 DEF WriterInv
      <4> QED
        BY <2>1, <2>2, <4>1, <4>2
    <3> QED
      BY <3>1, <3>2
  <2>5. \A d \in End \ {e} : posted'[d] = posted[d] /\ out'[d] = out[d]
    BY <1>1, <2>2 DEF Types
  <2>6. CASE out[e] = <<>>
    <3>1. /\ wire' = [wire EXCEPT ![e] = Append(@, Header(n))]
          /\ writing' = [writing EXCEPT ![e] = "header"]
      BY <1>2, <2>6 DEF Enqueue, WriteHeader, Write, n
    <3>2. Written(e) = Queued(e) /\ writing[e] = "none" /\ NextWrite(e) = Header(n)
      BY <2>1, <1>1, <2>6, Sizes DEF WriterInv, NextWrite
    <3>3. /\ writing'[e] = "header" /\ \A d \in End \ {e} : writing'[d] = writing[d]
      BY <1>1, <3>1 DEF Types
    <3>4. Types'
      <4>1. Header(n) \in Chunk
        BY <2>1 DEF Header, Chunk
      <4>2. wire' \in [End -> Seq(Chunk)]
        BY <1>1, <3>1, <4>1 DEF Types
      <4> QED
        BY <1>1, <1>2, <2>2, <3>1, <4>2 DEF Types
    <3>5. WriterInv(e)'
      BY <2>1, <2>2, <2>3, <2>4, <3>3 DEF WriterInv
    <3>6. NextWrite(e)' = After(e, NextWrite(e))
      BY <1>1, <2>1, <2>3, <3>2, <3>3 DEF NextWrite, After, HasBody, Header, Body
    <3>7. NextWrite(e).msg <= Len(sent[e])
      BY <2>1, <3>2 DEF Header
    <3> QED
      BY <1>1, <1>2, <2>5, <3>1, <3>2, <3>3, <3>4, <3>5, <3>6, <3>7, BusyWriter
  <2>7. CASE out[e] # <<>>
    <3>1. wire' = wire /\ writing' = writing
      BY <1>2, <2>7 DEF Enqueue
    <3>2. Types'
      BY <1>1, <1>2, <2>1, <2>2, <3>1 DEF Types
    <3>3. WriterInv(e)'
      BY <1>1, <2>1, <2>2, <2>3, <2>4, <2>7, <3>1 DEF WriterInv, HasBody
    <3>4. NextWrite(e)' = NextWrite(e)
      BY <1>1, <2>3, <3>1 DEF NextWrite, After, HasBody, Header, Body
    <3> QED
      BY <1>1, <1>2, <2>3, <2>5, <3>1, <3>2, <3>3, <3>4, QuietWriter
  <2> QED
    BY <2>6, <2>7
<1>3. CASE e \notin alive' /\ alive' \subseteq alive /\ alive \subseteq alive' \cup {e}
           /\ UNCHANGED <<writing, wire>> /\ out' \in [End -> Seq(Nat)]
           /\ \A d \in End \ {e} : out'[d] = out[d]
  <2>1. Types'
    BY <1>1, <1>3 DEF Types
  <2>2. \A d \in End \ {e} : /\ Written(d)' = Written(d) /\ NextWrite(d)' = NextWrite(d)
                              /\ (WriterInv(d) => WriterInv(d)')
    BY <1>1, <1>3, OtherWriter DEF Types
  <2>3. \A d \in End : d \in alive' => WriterInv(d)'
    BY <1>3, <2>2 DEF IInv
  <2>4. \A d \in End : ReaderInv(d)' /\ WireInv(d)'
    <3>1. \A d \in End : ReaderInv(d)'
      BY <1>1 DEF IInv, ReaderInv, HasBody
    <3>2. \A d \in End : WireInv(d)'
      BY <1>1, <1>3 DEF IInv, WireInv
    <3> QED
      BY <3>1, <3>2
  <2>5. \A d \in End : Awaited(d)' = Awaited(d)
    BY <1>1 DEF Awaited, Unanswered
  <2>6. \A d \in End : Chain(d) => Chain(d)'
    BY <1>1, <1>3, <2>2, <2>5, PeerOf DEF Chain, Linked, Ends, After, HasBody
  <2>7. (Unanswered' <=> Unanswered) /\ (Early' <=> Early)
    BY <1>1, <1>3 DEF Unanswered, Early
  <2>8. ChainInv' /\ AnswerInv'
    BY <1>1, <1>3, <2>2, <2>6, <2>7, PeerOf DEF IInv, ChainInv, AnswerInv
  <2> QED
    BY <1>1, <2>1, <2>3, <2>4, <2>8 DEF IInv, Roles
<1>4. CASE e \in alive /\ out' = [out EXCEPT ![e] = Append(@, Head(posted[e]))]
           /\ alive' = alive \ {e} /\ UNCHANGED <<writing, wire>>
  <2>1. Head(posted[e]) \in Nat
    BY <1>1
  <2> QED
    BY <1>1, <1>3, <1>4, <2>1 DEF Types
<1>5. CASE e \notin alive /\ UNCHANGED <<out, writing, wire, alive>>
  BY <1>1, <1>3, <1>5 DEF Types
<1> QED
  BY <1>2, <1>4, <1>5 DEF RunPosted

(* The front of the queue is the first message that is not written.             *)
LEMMA Front ==
    ASSUME IInv, NEW e \in End, e \in alive, writing[e] # "none"
    PROVE  /\ out[e] \in Seq(Nat) /\ out[e] # <<>> /\ Head(out[e]) = Written(e) + 1
           /\ Written(e) \in Nat /\ Written(e) + Len(out[e]) <= Len(sent[e])
           /\ Len(Tail(out[e])) = Len(out[e]) - 1 /\ Tail(out[e]) \in Seq(Nat)
           /\ Len(out[e]) \in Nat \ {0} /\ Len(sent[e]) \in Nat
           /\ \A i \in 1 .. Len(Tail(out[e])) : Tail(out[e])[i] = Written(e) + 1 + i
<1>1. WriterInv(e) /\ Types
  BY DEF IInv
<1>2. /\ out[e] \in Seq(Nat) /\ out[e] # <<>> /\ Written(e) \in Nat
      /\ Written(e) + Len(out[e]) <= Len(sent[e]) /\ Len(sent[e]) \in Nat
  <2>1. out[e] \in Seq(Nat) /\ out[e] # <<>> /\ Written(e) \in Nat
    BY <1>1 DEF Types, WriterInv
  <2>2. /\ Len(sent[e]) \in Nat /\ Len(posted[e]) \in Nat /\ Queued(e) \in Int
        /\ Queued(e) = Written(e) + Len(out[e]) /\ Len(sent[e]) = Queued(e) + Len(posted[e])
    BY <1>1, Sizes
  <2>3. Written(e) + Len(out[e]) <= Len(sent[e])
    BY <2>2
  <2> QED
    BY <2>1, <2>2, <2>3
<1>3. /\ Len(out[e]) \in Nat \ {0} /\ Head(out[e]) = out[e][1]
      /\ Len(Tail(out[e])) = Len(out[e]) - 1 /\ Tail(out[e]) \in Seq(Nat)
  BY <1>2
<1>4. \A i \in 1 .. Len(Tail(out[e])) : Tail(out[e])[i] = out[e][i + 1]
  BY <1>2, HeadTailProperties
<1>5. ASSUME NEW i \in 1 .. Len(Tail(out[e]))
      PROVE  Tail(out[e])[i] = Written(e) + 1 + i
  <2>1. i + 1 \in 1 .. Len(out[e])
    BY <1>3
  <2>2. out[e][i + 1] = Written(e) + (i + 1)
    BY <1>1, <2>1 DEF WriterInv
  <2> QED
    BY <1>2, <1>4, <2>2
<1> QED
  BY <1>1, <1>2, <1>3, <1>5 DEF WriterInv

LEMMA MessageWrittenStep ==
    ASSUME IInv, NEW e \in End, e \in alive, writing[e] # "none", MessageWritten(e),
           NextWrite(e) = Header(Written(e) + 2),
           UNCHANGED <<sent, posted, reading, tmp, in, alive>>
    PROVE  IInv'
<1> DEFINE w == Written(e)
           q == Tail(out[e])
<1>1. /\ Types /\ WriterInv(e)
      /\ w \in Nat /\ q \in Seq(Nat) /\ Len(q) = Len(out[e]) - 1 /\ w + Len(out[e]) <= Len(sent[e])
      /\ Len(out[e]) \in Nat \ {0} /\ Len(sent[e]) \in Nat
      /\ \A i \in 1 .. Len(q) : q[i] = w + 1 + i
  BY Front DEF IInv
<1>2. /\ out' = [out EXCEPT ![e] = q] /\ out' \in [End -> Seq(Nat)] /\ out'[e] = q
      /\ \A d \in End \ {e} : out'[d] = out[d]
  BY <1>1 DEF MessageWritten, Types
<1>3. Queued(e)' = Queued(e) /\ Written(e)' = w + 1
  <2>1. Queued(e)' = Queued(e)
    BY DEF Queued
  <2>2. Queued(e) \in Int
    BY <1>1, Sizes
  <2> HIDE DEF q
  <2> QED
    BY <1>1, <1>2, <2>1, <2>2 DEF Written
<1>4. \A i \in 1 .. Len(out'[e]) : out'[e][i] = Written(e)' + i
  BY <1>1, <1>2, <1>3
<1> HIDE DEF w
<1>5. CASE q # <<>>
  <2>1. Head(q) = w + 2 /\ Len(q) >= 1
    <3> HIDE DEF q
    <3>1. Len(q) >= 1 /\ Head(q) = q[1]
      BY <1>1, <1>5
    <3> QED
      BY <1>1, <3>1
  <2>2. /\ wire' = [wire EXCEPT ![e] = Append(@, NextWrite(e))]
        /\ writing' = [writing EXCEPT ![e] = "header"]
    BY <1>5, <2>1 DEF MessageWritten, WriteHeader, Write, w
  <2>3. /\ writing'[e] = "header" /\ \A d \in End \ {e} : writing'[d] = writing[d]
    BY <1>1, <2>2 DEF Types
  <2>4. Types'
    <3>1. NextWrite(e) \in Chunk
      BY <1>1, NextWriteChunk
    <3>2. wire' \in [End -> Seq(Chunk)]
      BY <1>1, <2>2, <3>1 DEF Types
    <3> QED
      BY <1>1, <1>2, <2>2, <3>2 DEF Types
  <2>5. WriterInv(e)'
    <3>1. out'[e] # <<>>
      BY <1>2, <1>5
    <3> QED
      BY <1>1, <1>3, <1>4, <2>3, <3>1 DEF WriterInv
  <2>6. NextWrite(e)' = After(e, NextWrite(e))
    BY <1>1, <1>3, <2>3 DEF NextWrite, After, HasBody, Header, Body, w
  <2>7. NextWrite(e).msg <= Len(sent[e])
    BY <1>1, <2>1 DEF Header, w
  <2> HIDE DEF q
  <2> QED
    BY <1>2, <2>2, <2>3, <2>4, <2>5, <2>6, <2>7, BusyWriter
<1>6. CASE q = <<>>
  <2>1. wire' = wire /\ writing' = [writing EXCEPT ![e] = "none"]
    BY <1>6 DEF MessageWritten
  <2>2. /\ writing'[e] = "none" /\ \A d \in End \ {e} : writing'[d] = writing[d]
    BY <1>1, <2>1 DEF Types
  <2>3. Types'
    BY <1>1, <1>2, <2>1 DEF Types
  <2>4. WriterInv(e)'
    BY <1>1, <1>2, <1>3, <1>4, <1>6, <2>2 DEF WriterInv
  <2>5. NextWrite(e)' = NextWrite(e)
    BY <1>1, <1>3, <2>2 DEF NextWrite, Header, w
  <2> HIDE DEF q
  <2> QED
    BY <1>2, <2>1, <2>2, <2>3, <2>4, <2>5, QuietWriter
<1> QED
  BY <1>5, <1>6

LEMMA HeaderWrittenStep ==
    ASSUME IInv, NEW e \in End, HeaderWritten(e)
    PROVE  IInv'
<1>1. /\ writing[e] = "header" /\ e \in alive /\ Types /\ WriterInv(e)
      /\ UNCHANGED <<sent, posted, reading, tmp, in, alive>>
      /\ Head(out[e]) = Written(e) + 1 /\ Written(e) \in Nat
      /\ Written(e) + 1 <= Len(sent[e])
  BY Front DEF HeaderWritten, readVars, IInv
<1>2. CASE HasBody(e, Head(out[e]))
  <2>1. NextWrite(e) = Body(Written(e) + 1)
    BY <1>1, <1>2 DEF NextWrite, After, Header
  <2>2. /\ wire' = [wire EXCEPT ![e] = Append(@, NextWrite(e))] /\ out' = out
        /\ writing' = [writing EXCEPT ![e] = "body"]
    BY <1>1, <1>2, <2>1 DEF HeaderWritten, Write
  <2>3. writing'[e] = "body" /\ \A d \in End \ {e} : writing'[d] = writing[d]
    BY <1>1, <2>2 DEF Types
  <2>4. Types'
    <3>1. NextWrite(e) \in Chunk
      BY <1>1, NextWriteChunk
    <3>2. wire' \in [End -> Seq(Chunk)]
      BY <1>1, <2>2, <3>1 DEF Types
    <3> QED
      BY <1>1, <2>2, <3>2 DEF Types
  <2>5. Queued(e)' = Queued(e) /\ Written(e)' = Written(e)
    BY <1>1, <2>2 DEF Queued, Written
  <2>6. WriterInv(e)'
    BY <1>1, <1>2, <2>2, <2>3, <2>5 DEF WriterInv, HasBody
  <2>7. NextWrite(e)' = After(e, NextWrite(e))
    <3>1. After(e, Body(Written(e) + 1)) = Header(Written(e) + 1 + 1)
      BY DEF After, Body
    <3>2. Written(e) + 1 + 1 = Written(e) + 2
      BY <1>1
    <3> QED
      BY <2>1, <2>3, <2>5, <3>1, <3>2 DEF NextWrite, Header
  <2>8. NextWrite(e).msg <= Len(sent[e])
    BY <1>1, <2>1 DEF Body
  <2> QED
    BY <1>1, <2>2, <2>3, <2>4, <2>6, <2>7, <2>8, BusyWriter
<1>3. CASE ~HasBody(e, Head(out[e]))
  <2>1. After(e, Header(Written(e) + 1)) = Header(Written(e) + 1 + 1)
    BY <1>1, <1>3 DEF After, Header
  <2>2. NextWrite(e) = Header(Written(e) + 2)
    BY <1>1, <2>1 DEF NextWrite, Header
  <2> QED
    BY <1>1, <1>3, <2>2, MessageWrittenStep DEF HeaderWritten
<1> QED
  BY <1>2, <1>3

LEMMA BodyWrittenStep ==
    ASSUME IInv, NEW e \in End, BodyWritten(e)
    PROVE  IInv'
<1>1. /\ writing[e] = "body" /\ e \in alive /\ MessageWritten(e)
      /\ UNCHANGED <<sent, posted, reading, tmp, in, alive>>
  BY DEF BodyWritten, readVars
<1>2. NextWrite(e) = Header(Written(e) + 2)
  BY <1>1 DEF NextWrite
<1> QED
  BY <1>1, <1>2, MessageWrittenStep

-----------------------------------------------------------------------------
(* Reading.                                                                  *)

(* A living reader past the handshake finds what it awaits.                     *)
LEMMA ReadHead ==
    ASSUME IInv, NEW e \in End, e \in alive, reading[e] \in {"header", "body"},
           Incoming(e) # <<>>
    PROVE  /\ Chain(Peer(e)) /\ (e = "server" => ~Unanswered /\ ~Early)
           /\ Head(Incoming(e)) = Awaited(e)
           /\ Awaited(e).msg <= Len(sent[Peer(e)])
           /\ Awaited(e) = IF reading[e] = "body" THEN Body(Len(in[e]) + 1)
                                                 ELSE Header(Len(in[e]) + 1)
<1> DEFINE p == Peer(e)
<1>1. p \in End /\ Peer(p) = e /\ Types
  BY PeerOf DEF IInv
<1>2. wire[p] \in Seq(Chunk) /\ wire[p] # <<>>
  BY <1>1 DEF Types, Incoming
<1>3. e = "server" => ~Unanswered /\ ~Early
  BY DEF IInv, AnswerInv, Early
<1>4. Chain(p)
  BY <1>1, <1>3, PeerOf DEF IInv, ChainInv, End
<1>5. Head(wire[p]) = Awaited(e)
  BY <1>1, <1>2, <1>4, TailLinked DEF Chain
<1>6. Awaited(e).msg <= Len(sent[p])
  <2>1. 1 \in 1 .. Len(wire[p]) /\ wire[p][1] = Head(wire[p])
    BY <1>2
  <2> QED
    BY <1>1, <1>5, <2>1 DEF IInv, WireInv
<1>7. e = "client" => ~Unanswered
  BY DEF Unanswered
<1>8. Awaited(e) = IF reading[e] = "body" THEN Body(Len(in[e]) + 1) ELSE Header(Len(in[e]) + 1)
  BY <1>7 DEF Awaited
<1> QED
  BY <1>3, <1>4, <1>5, <1>6, <1>8 DEF Incoming

LEMMA ReadStep ==
    ASSUME IInv, NEW e \in End, e \in alive, reading[e] \in {"header", "body"},
           Incoming(e) # <<>>, wire' = Consumed(e), Types', ReaderInv(e)',
           UNCHANGED <<sent, posted, out, writing, alive>>,
           \A d \in End \ {e} : reading'[d] = reading[d] /\ tmp'[d] = tmp[d] /\ in'[d] = in[d],
           reading'[e] \in {"header", "body"},
           Awaited(e)' = After(Peer(e), Awaited(e))
    PROVE  IInv'
<1> DEFINE p == Peer(e)
<1>1. /\ p \in End /\ Peer(p) = e /\ p # e /\ Types
      /\ \A d \in End : d = e \/ d = p
  BY PeerOf DEF IInv, End
<1>2. /\ wire[p] \in Seq(Chunk) /\ wire[p] # <<>> /\ wire'[p] = Tail(wire[p])
      /\ wire'[e] = wire[e]
  BY <1>1 DEF Types, Incoming, Consumed
<1>3. Chain(p) /\ (e = "server" => ~Unanswered /\ ~Early)
  BY ReadHead
<1>4. \A d \in End : /\ Written(d)' = Written(d) /\ NextWrite(d)' = NextWrite(d)
                      /\ (WriterInv(d) => WriterInv(d)')
  BY OtherWriter
<1>5. Chain(p)'
  <2>1. /\ Linked(p, Tail(wire[p]), After(p, Awaited(e)))
        /\ p \in alive => Ends(p, Tail(wire[p]), After(p, Awaited(e)), NextWrite(p))
    BY <1>1, <1>2, <1>3, TailLinked DEF Chain
  <2> QED
    BY <1>1, <1>2, <1>4, <2>1 DEF Chain, Linked, Ends, After, HasBody
<1>6. Awaited(p)' = Awaited(p)
  BY <1>1, PeerOf DEF Awaited, Unanswered
<1>7. Chain(e) => Chain(e)'
  BY <1>1, <1>2, <1>4, <1>6 DEF Chain, Linked, Ends, After, HasBody
<1>8. ~Unanswered' /\ (Early => Early')
  <2>1. CASE e = "server"
    BY <1>1, <1>3, <2>1, PeerOf DEF Unanswered
  <2>2. CASE e = "client"
    BY <1>1, <1>2, <2>2, PeerOf DEF Unanswered, Early
  <2> QED
    BY <2>1, <2>2 DEF End
<1>9. ChainInv'
  <2>1. CASE e = "server"
    BY <1>1, <1>5, <1>7, <2>1, PeerOf DEF IInv, ChainInv
  <2>2. CASE e = "client"
    <3>1. ~Unanswered
      BY <2>2 DEF Unanswered
    <3> QED
      BY <1>1, <1>5, <1>7, <1>8, <2>2, <3>1, PeerOf DEF IInv, ChainInv
  <2> QED
    BY <2>1, <2>2 DEF End
<1>10. AnswerInv'
  BY <1>8 DEF AnswerInv
<1>11. ReaderInv(p)'
  <2>1. ReaderInv(p) /\ reading'[p] = reading[p] /\ tmp'[p] = tmp[p] /\ in'[p] = in[p]
    BY <1>1 DEF IInv
  <2> QED
    BY <1>1, <2>1 DEF ReaderInv, HasBody
<1>12. WireInv(p)' /\ WireInv(e)'
  <2>1. ASSUME NEW i \in 1 .. Len(wire'[p])
        PROVE  wire'[p][i].msg <= Len(sent[p])
    <3>1. i + 1 \in 1 .. Len(wire[p]) /\ wire'[p][i] = wire[p][i + 1]
      BY <1>2, HeadTailProperties
    <3> QED
      BY <1>1, <3>1 DEF IInv, WireInv
  <2> QED
    BY <1>1, <1>2, <2>1 DEF IInv, WireInv
<1>13. Roles'
  <2>1. CASE e = "server"
    BY <2>1 DEF Roles
  <2>2. CASE e # "server"
    BY <2>2, PeerOf DEF IInv, Roles
  <2> QED
    BY <2>1, <2>2
<1> QED
  BY <1>1, <1>4, <1>9, <1>10, <1>11, <1>12, <1>13 DEF IInv

LEMMA ConsumedType ==
    ASSUME Types, NEW e \in End, Incoming(e) # <<>>
    PROVE  Consumed(e) \in [End -> Seq(Chunk)]
<1>1. Peer(e) \in End /\ wire[Peer(e)] \in Seq(Chunk) /\ wire[Peer(e)] # <<>>
  BY PeerOf DEF Types, Incoming
<1>2. Tail(wire[Peer(e)]) \in Seq(Chunk)
  BY <1>1
<1> QED
  BY <1>1, <1>2 DEF Consumed, Types

LEMMA HandedUp ==
    ASSUME NEW f \in [End -> Seq([header : Nat, body : Nat])], NEW e \in End,
           NEW x \in [header : Nat, body : Nat], NEW g, g = [f EXCEPT ![e] = Append(@, x)]
    PROVE  /\ g \in [End -> Seq([header : Nat, body : Nat])] /\ g[e] = Append(f[e], x)
           /\ Len(g[e]) = Len(f[e]) + 1 /\ g[e][Len(f[e]) + 1] = x
           /\ \A i \in 1 .. Len(f[e]) + 1 :
                  i = Len(f[e]) + 1 \/ (i \in 1 .. Len(f[e]) /\ g[e][i] = f[e][i])
           /\ \A d \in End \ {e} : g[d] = f[d]
<1> DEFINE R == [header : Nat, body : Nat]
<1>1. f \in [End -> Seq(R)] /\ x \in R
  OBVIOUS
<1> HIDE DEF R
<1>2. /\ g \in [End -> Seq(R)] /\ g[e] = Append(f[e], x)
      /\ Len(g[e]) = Len(f[e]) + 1 /\ g[e][Len(f[e]) + 1] = x
      /\ \A i \in 1 .. Len(f[e]) + 1 :
             i = Len(f[e]) + 1 \/ (i \in 1 .. Len(f[e]) /\ g[e][i] = f[e][i])
      /\ \A d \in End \ {e} : g[d] = f[d]
  BY <1>1, AppendAt
<1> QED
  BY <1>2 DEF R

LEMMA HeaderReadStep ==
    ASSUME IInv, NEW e \in End, HeaderRead(e)
    PROVE  IInv'
<1> DEFINE p == Peer(e)
           n == Len(in[e]) + 1
<1>1. /\ reading[e] = "header" /\ e \in alive /\ Incoming(e) # <<>> /\ wire' = Consumed(e)
      /\ UNCHANGED <<sent, posted, out, writing, alive>> /\ Types /\ ReaderInv(e) /\ p \in End
  BY PeerOf DEF HeaderRead, writeVars, IInv
<1>2. Awaited(e) = Header(n) /\ Head(Incoming(e)) = Header(n) /\ n <= Len(sent[p])
  BY <1>1, ReadHead DEF Header
<1>3. in[e] \in Seq([header : Nat, body : Nat]) /\ n \in Nat /\ Len(in[e]) \in Nat
  BY <1>1 DEF Types
<1>4. /\ tmp' = [tmp EXCEPT ![e].header = n] /\ tmp'[e] \in [header : Nat, body : Nat]
      /\ tmp'[e].header = n /\ tmp' \in [End -> [header : Nat, body : Nat]]
      /\ \A d \in End \ {e} : tmp'[d] = tmp[d]
  <2> HIDE DEF n
  <2>0. Head(Incoming(e)).msg = n
    BY <1>2 DEF Header
  <2>1. tmp' = [tmp EXCEPT ![e].header = n]
    BY <2>0 DEF HeaderRead
  <2>2. tmp[e] \in [header : Nat, body : Nat] /\ tmp \in [End -> [header : Nat, body : Nat]]
    BY <1>1 DEF Types
  <2> QED
    BY <1>3, <2>1, <2>2
<1>5. wire' \in [End -> Seq(Chunk)]
  BY <1>1, ConsumedType
<1> HIDE DEF n
<1>0. in \in [End -> Seq([header : Nat, body : Nat])]
  BY <1>1 DEF Types
<1>6. CASE HasBody(p, n)
  <2>1. reading' = [reading EXCEPT ![e] = "body"] /\ in' = in
    BY <1>2, <1>6 DEF HeaderRead, Goes, Header
  <2>2. reading'[e] = "body" /\ \A d \in End \ {e} : reading'[d] = reading[d]
    BY <1>1, <2>1 DEF Types
  <2>3. Types'
    BY <1>1, <1>4, <1>5, <2>1 DEF Types
  <2>4. ReaderInv(e)'
    BY <1>1, <1>4, <1>6, <2>1, <2>2 DEF ReaderInv, HasBody, n
  <2>5. Awaited(e)' = Body(n)
    BY <2>1, <2>2 DEF Awaited, Unanswered, n
  <2>6. After(p, Header(n)) = Body(n)
    BY <1>6 DEF After, Header
  <2> QED
    BY <1>1, <1>2, <1>4, <2>1, <2>2, <2>3, <2>4, <2>5, <2>6, ReadStep
<1>7. CASE ~HasBody(p, n)
  <2>1. reading' = reading /\ in' = [in EXCEPT ![e] = Append(@, tmp'[e])]
    BY <1>2, <1>7 DEF HeaderRead, Header
  <2>2. /\ in'[e] = Append(in[e], tmp'[e]) /\ \A d \in End \ {e} : in'[d] = in[d]
        /\ in' \in [End -> Seq([header : Nat, body : Nat])]
    BY <1>4, <1>0, <2>1, HandedUp
  <2>3. /\ Len(in'[e]) = n /\ in'[e][n] = tmp'[e]
        /\ \A i \in 1 .. n : i = n \/ (i \in 1 .. Len(in[e]) /\ in'[e][i] = in[e][i])
    BY <1>4, <1>0, <2>1, HandedUp DEF n
  <2>4. Types'
    BY <1>1, <1>4, <1>5, <2>1, <2>2 DEF Types
  <2>5. ReaderInv(e)'
    <3>1. \A i \in 1 .. Len(in'[e]) : /\ in'[e][i].header = i
                                      /\ HasBody(p, i) => in'[e][i].body = i
      BY <1>1, <1>4, <1>7, <2>3 DEF ReaderInv
    <3>2. Len(in'[e]) <= Len(sent'[p]) /\ reading'[e] = "header"
      BY <1>1, <1>2, <2>1, <2>3
    <3>3. sent' = sent
      BY <1>1
    <3>4. \A i \in 1 .. Len(in'[e]) : /\ in'[e][i].header = i
                                      /\ HasBody(p, i)' => in'[e][i].body = i
      BY <3>1, <3>3 DEF HasBody
    <3> QED
      BY <3>2, <3>4 DEF ReaderInv, HasBody
  <2>6. Awaited(e)' = Header(n + 1)
    BY <1>1, <2>1, <2>3 DEF Awaited, Unanswered
  <2>7. After(p, Header(n)) = Header(n + 1)
    BY <1>7 DEF After, Header
  <2> QED
    BY <1>1, <1>2, <1>4, <2>1, <2>2, <2>4, <2>5, <2>6, <2>7, ReadStep
<1> QED
  BY <1>6, <1>7

LEMMA BodyReadStep ==
    ASSUME IInv, NEW e \in End, BodyRead(e)
    PROVE  IInv'
<1> DEFINE p == Peer(e)
           n == Len(in[e]) + 1
<1>1. /\ reading[e] = "body" /\ e \in alive /\ Incoming(e) # <<>> /\ wire' = Consumed(e)
      /\ UNCHANGED <<sent, posted, out, writing, alive>> /\ Types /\ ReaderInv(e) /\ p \in End
  BY PeerOf DEF BodyRead, writeVars, IInv
<1>2. Awaited(e) = Body(n) /\ Head(Incoming(e)) = Body(n) /\ n <= Len(sent[p])
  BY <1>1, ReadHead DEF Body
<1>3. in[e] \in Seq([header : Nat, body : Nat]) /\ n \in Nat /\ Len(in[e]) \in Nat
  BY <1>1 DEF Types
<1>4. /\ tmp' = [tmp EXCEPT ![e].body = n] /\ tmp'[e] \in [header : Nat, body : Nat]
      /\ tmp'[e].header = n /\ tmp'[e].body = n
      /\ tmp' \in [End -> [header : Nat, body : Nat]]
      /\ \A d \in End \ {e} : tmp'[d] = tmp[d]
  <2>0. Head(Incoming(e)).msg = n
    <3> HIDE DEF n
    <3> QED
      BY <1>2 DEF Body
  <2>1. tmp' = [tmp EXCEPT ![e].body = n]
    <3> HIDE DEF n
    <3> QED
      BY <2>0 DEF BodyRead
  <2>2. tmp[e] \in [header : Nat, body : Nat] /\ tmp \in [End -> [header : Nat, body : Nat]]
    BY <1>1 DEF Types
  <2>3. tmp[e].header = n
    BY <1>1 DEF ReaderInv
  <2> HIDE DEF n
  <2> QED
    BY <1>3, <2>1, <2>2, <2>3
<1>5. wire' \in [End -> Seq(Chunk)]
  BY <1>1, ConsumedType
<1> HIDE DEF n
<1>0. in \in [End -> Seq([header : Nat, body : Nat])]
  BY <1>1 DEF Types
<1>6. /\ reading' = [reading EXCEPT ![e] = "header"]
      /\ in' = [in EXCEPT ![e] = Append(@, tmp'[e])]
  BY DEF BodyRead, Goes
<1>7. reading'[e] = "header" /\ \A d \in End \ {e} : reading'[d] = reading[d]
  BY <1>1, <1>6 DEF Types
<1>8. /\ in'[e] = Append(in[e], tmp'[e]) /\ \A d \in End \ {e} : in'[d] = in[d]
      /\ in' \in [End -> Seq([header : Nat, body : Nat])]
  BY <1>0, <1>4, <1>6, HandedUp
<1>9. /\ Len(in'[e]) = n /\ in'[e][n] = tmp'[e]
      /\ \A i \in 1 .. n : i = n \/ (i \in 1 .. Len(in[e]) /\ in'[e][i] = in[e][i])
  BY <1>0, <1>4, <1>6, HandedUp DEF n
<1>10. Types'
  BY <1>1, <1>4, <1>5, <1>6, <1>8 DEF Types
<1>11. ReaderInv(e)'
  <2>1. \A i \in 1 .. Len(in'[e]) : /\ in'[e][i].header = i
                                    /\ HasBody(p, i) => in'[e][i].body = i
    BY <1>1, <1>4, <1>9 DEF ReaderInv
  <2>2. Len(in'[e]) <= Len(sent'[p]) /\ reading'[e] = "header"
    BY <1>1, <1>2, <1>7, <1>9
  <2>3. sent' = sent
    BY <1>1
  <2>4. \A i \in 1 .. Len(in'[e]) : /\ in'[e][i].header = i
                                    /\ HasBody(p, i)' => in'[e][i].body = i
    BY <2>1, <2>3 DEF HasBody
  <2> QED
    BY <2>2, <2>4 DEF ReaderInv, HasBody
<1>12. Awaited(e)' = Header(n + 1)
  BY <1>7, <1>9 DEF Awaited, Unanswered
<1>13. After(p, Body(n)) = Header(n + 1)
  BY DEF After, Body
<1> QED
  BY <1>1, <1>2, <1>4, <1>7, <1>8, <1>10, <1>11, <1>12, <1>13, ReadStep

-----------------------------------------------------------------------------
(* The handshake.                                                            *)

(* The client connects, or its answer is written: it still awaits the same.     *)
LEMMA ClientGoesOn ==
    ASSUME IInv, NEW next, UNCHANGED <<sent, writeVars, wire, readVars, alive>>,
           reading' = [reading EXCEPT !["client"] = next],
           \/ reading["client"] = "connecting" /\ next = "validation"
           \/ reading["client"] = "answering" /\ next = "header"
    PROVE  IInv'
<1>1. /\ UNCHANGED <<sent, posted, out, writing, wire, tmp, in, alive>> /\ Types
      /\ reading'["client"] = next /\ reading'["server"] = reading["server"]
  BY PeerOf DEF IInv, Types, writeVars, readVars
<1>2. Types'
  BY <1>1 DEF Types
<1>3. \A d \in End : /\ NextWrite(d)' = NextWrite(d) /\ Written(d)' = Written(d)
                     /\ (WriterInv(d) => WriterInv(d)')
  BY <1>1, OtherWriter
<1>4. Unanswered' <=> Unanswered
  BY <1>1 DEF Unanswered
<1>5. \A d \in End : Awaited(d)' = Awaited(d)
  <2>1. Awaited("server")' = Awaited("server")
    BY <1>1 DEF Awaited
  <2>2. Awaited("client")' = Awaited("client")
    BY <1>1, <1>4 DEF Awaited, Unanswered
  <2> QED
    BY <2>1, <2>2 DEF End
<1>6. \A d \in End : Chain(d) => Chain(d)'
  BY <1>1, <1>3, <1>5, PeerOf DEF Chain, Linked, Ends, After, HasBody
<1>7. Early' <=> Early
  BY <1>1 DEF Early
<1>8. ChainInv'
  BY <1>1, <1>4, <1>6, <1>7, PeerOf DEF IInv, ChainInv
<1>9. AnswerInv'
  BY <1>1, <1>3, <1>4, <1>7, PeerOf DEF IInv, AnswerInv
<1>10. \A d \in End : ReaderInv(d)' /\ WireInv(d)'
  BY <1>1 DEF IInv, ReaderInv, WireInv, HasBody, End
<1> QED
  BY <1>1, <1>2, <1>3, <1>8, <1>9, <1>10 DEF IInv, Roles

LEMMA HelloReadStep ==
    ASSUME IInv, HelloRead
    PROVE  IInv'
<1> DEFINE s == wire["server"]
           c == wire["client"]
<1>1. /\ UNCHANGED <<sent, posted, out, writing, tmp, in, alive>> /\ Types
      /\ reading["client"] = "validation" /\ Unanswered
      /\ reading'["client"] = "answering" /\ reading'["server"] = reading["server"]
      /\ reading' \in [End -> {"connecting", "validation", "answering", "header", "body", "none"}]
      /\ s \in Seq(Chunk) /\ s # <<>> /\ c \in Seq(Chunk)
  BY PeerOf DEF IInv, Types, HelloRead, Goes, Incoming, writeVars, readVars, Unanswered
<1>2. /\ Answer \in Chunk /\ Tail(s) \in Seq(Chunk) /\ Append(c, Answer) \in Seq(Chunk)
  BY <1>1 DEF Answer, Chunk
<1>3. /\ wire' \in [End -> Seq(Chunk)]
      /\ wire'["server"] = Tail(s) /\ wire'["client"] = Append(c, Answer)
  <2>1. wire' = [wire EXCEPT !["server"] = Tail(s), !["client"] = Append(c, Answer)]
    BY <1>1, PeerOf DEF HelloRead, Consumed, Types
  <2> QED
    BY <1>1, <1>2, <2>1, PeerOf DEF Types
<1>4. Types'
  BY <1>1, <1>3 DEF Types
<1>5. \A d \in End : /\ NextWrite(d)' = NextWrite(d)
                     /\ (WriterInv(d) => WriterInv(d)')
  BY <1>1, OtherWriter
<1>6. ~Unanswered'
  BY <1>1 DEF Unanswered
<1>7. "client" \in alive => Chain("server")'
  <2> SUFFICES ASSUME "client" \in alive PROVE Chain("server")'
    OBVIOUS
  <2>1. Chain("server") /\ Awaited("client") = Hello
    BY <1>1 DEF IInv, ChainInv, Awaited
  <2>2. After("server", Hello) = Header(1)
    BY DEF After, Hello
  <2>3. /\ Linked("server", Tail(s), Header(1))
        /\ "server" \in alive => Ends("server", Tail(s), Header(1), NextWrite("server"))
    <3>1. Linked("server", s, Hello)
      BY <2>1, PeerOf DEF Chain
    <3>2. "server" \in alive => Ends("server", s, Hello, NextWrite("server"))
      BY <2>1, PeerOf DEF Chain
    <3> HIDE DEF s
    <3>3. /\ Linked("server", Tail(s), After("server", Hello))
          /\ \A last : Ends("server", s, Hello, last)
                           => Ends("server", Tail(s), After("server", Hello), last)
      BY <1>1, <3>1, TailLinked
    <3> QED
      BY <2>2, <3>2, <3>3
  <2>4. Awaited("client")' = Header(1)
    <3>1. in["client"] = <<>> /\ in' = in
      BY <1>1, PeerOf DEF IInv, ReaderInv
    <3>2. Len(in'["client"]) + 1 = 1
      BY <3>1
    <3> QED
      BY <1>1, <1>6, <3>2 DEF Awaited
  <2> QED
    BY <1>1, <1>3, <1>5, <2>3, <2>4, PeerOf DEF Chain, Linked, Ends, After, HasBody
<1>8. "server" \in alive => Chain("client")' \/ Early'
  <2> SUFFICES ASSUME "server" \in alive PROVE Chain("client")' \/ Early'
    OBVIOUS
  <2>1. reading["server"] = "validation"
    BY <1>1 DEF IInv, AnswerInv
  <2>2. CASE Early
    <3>1. wire'["client"] # <<>> /\ wire'["client"][1] = c[1] /\ c[1] # Answer
      BY <1>1, <1>2, <1>3, <2>2 DEF Early
    <3> QED
      BY <1>1, <2>1, <3>1 DEF Early
  <2>3. CASE ~Early
    <3>1. /\ c = <<>>
          /\ "client" \in alive => writing["client"] = "none" /\ Written("client") = 0
      BY <1>1, <2>3 DEF IInv, AnswerInv
    <3>2. /\ wire'["client"] = <<Answer>> /\ Len(wire'["client"]) = 1
          /\ wire'["client"][1] = Answer /\ wire'["client"] # <<>>
      BY <1>3, <3>1
    <3>3. Awaited("server")' = Answer
      BY <1>1, <2>1 DEF Awaited
    <3>4. "client" \in alive => NextWrite("client")' = Header(1)
      BY <1>5, <3>1, PeerOf DEF NextWrite
    <3>5. After("client", Answer)' = Header(1)
      BY DEF After, Answer
    <3> QED
      BY <1>1, <3>2, <3>3, <3>4, <3>5, PeerOf DEF Chain, Linked, Ends
  <2> QED
    BY <2>2, <2>3
<1>9. WireInv("server")' /\ WireInv("client")'
  <2>1. ASSUME NEW i \in 1 .. Len(Tail(s))
        PROVE  Tail(s)[i].msg <= Len(sent["server"])
    <3>1. i + 1 \in 1 .. Len(s) /\ Tail(s)[i] = s[i + 1]
      BY <1>1, HeadTailProperties
    <3> QED
      BY <3>1, PeerOf DEF IInv, WireInv
  <2>2. ASSUME NEW i \in 1 .. Len(Append(c, Answer))
        PROVE  Append(c, Answer)[i].msg <= Len(sent["client"])
    <3>1. \/ i \in 1 .. Len(c) /\ Append(c, Answer)[i] = c[i]
          \/ Append(c, Answer)[i] = Answer
      BY <1>1, <1>2
    <3>2. Len(sent["client"]) \in Nat
      BY <1>1, PeerOf, Sizes
    <3> QED
      BY <3>1, <3>2, PeerOf DEF IInv, WireInv, Answer
  <2> QED
    BY <1>1, <1>3, <2>1, <2>2 DEF WireInv
<1>10. \A d \in End : ReaderInv(d)'
  BY <1>1 DEF IInv, ReaderInv, HasBody, End
<1> QED
  BY <1>1, <1>4, <1>5, <1>6, <1>7, <1>8, <1>9, <1>10
     DEF IInv, Roles, ChainInv, AnswerInv, End

LEMMA AnswerReadStep ==
    ASSUME IInv, AnswerRead
    PROVE  IInv'
<1> DEFINE c == wire["client"]
<1>1. /\ UNCHANGED <<sent, posted, out, writing, tmp, in>> /\ Types
      /\ reading["server"] = "validation" /\ wire' = [wire EXCEPT !["client"] = Tail(c)]
      /\ c \in Seq(Chunk) /\ c # <<>> /\ Incoming("server") = c
  BY PeerOf DEF IInv, Types, AnswerRead, Incoming, Consumed, writeVars, readVars
<1>2. /\ Tail(c) \in Seq(Chunk) /\ wire' \in [End -> Seq(Chunk)]
      /\ wire'["client"] = Tail(c) /\ wire'["server"] = wire["server"]
  <2>1. Tail(c) \in Seq(Chunk)
    BY <1>1
  <2> QED
    BY <1>1, <2>1, PeerOf DEF Types
<1>3. /\ alive' \subseteq alive /\ ("client" \in alive' <=> "client" \in alive)
      /\ reading'["client"] = reading["client"] /\ reading'["server"] \in {"header", "none"}
      /\ reading' \in [End -> {"connecting", "validation", "answering", "header", "body", "none"}]
  <2>1. CASE Head(c) = Answer
    <3>1. reading' = [reading EXCEPT !["server"] = "header"] /\ alive' = alive
      BY <1>1, <2>1 DEF AnswerRead, Goes
    <3> QED
      BY <1>1, <3>1, PeerOf DEF Types
  <2>2. CASE Head(c) # Answer
    <3>1. reading' = [reading EXCEPT !["server"] = "none"] /\ alive' = alive \ {"server"}
      BY <1>1, <2>2 DEF AnswerRead, Goes
    <3> QED
      BY <1>1, <3>1, PeerOf DEF Types
  <2> QED
    BY <2>1, <2>2
<1>4. Types'
  BY <1>1, <1>2, <1>3 DEF Types
<1>5. \A d \in End : /\ NextWrite(d)' = NextWrite(d)
                     /\ (WriterInv(d) => WriterInv(d)')
  BY <1>1, OtherWriter
<1>6. Unanswered' <=> Unanswered
  BY <1>3 DEF Unanswered
<1>7. "client" \in alive' => Chain("server")'
  <2> SUFFICES ASSUME "client" \in alive' PROVE Chain("server")'
    OBVIOUS
  <2>1. Chain("server")
    BY <1>3 DEF IInv, ChainInv
  <2>2. Awaited("client")' = Awaited("client")
    BY <1>1, <1>3, <1>6 DEF Awaited
  <2> QED
    BY <1>1, <1>2, <1>3, <1>5, <2>1, <2>2, PeerOf DEF Chain, Linked, Ends, After, HasBody
<1>8. "server" \in alive' => ~Unanswered /\ Chain("client")'
  <2> SUFFICES ASSUME "server" \in alive' PROVE ~Unanswered /\ Chain("client")'
    OBVIOUS
  <2>1. Head(c) = Answer /\ reading'["server"] = "header" /\ alive' = alive
    BY <1>1, PeerOf DEF AnswerRead, Goes, Types
  <2>2. ~Early
    BY <1>1, <2>1 DEF Early
  <2>3. ~Unanswered
    BY <1>1, <2>1, <2>2 DEF IInv, AnswerInv
  <2>4. Chain("client") /\ Awaited("server") = Answer
    BY <1>1, <2>1, <2>2, <2>3 DEF IInv, ChainInv, Awaited
  <2>5. After("client", Answer) = Header(1)
    BY DEF After, Answer
  <2>6. /\ Linked("client", Tail(c), Header(1))
        /\ "client" \in alive => Ends("client", Tail(c), Header(1), NextWrite("client"))
    BY <1>1, <2>4, <2>5, PeerOf, TailLinked DEF Chain
  <2>7. Awaited("server")' = Header(1)
    <3>1. in["server"] = <<>> /\ in' = in
      BY <1>1, PeerOf DEF IInv, ReaderInv
    <3>2. Len(in'["server"]) + 1 = 1
      BY <3>1
    <3> QED
      BY <2>1, <3>2 DEF Awaited
  <2> QED
    BY <1>1, <1>2, <1>5, <2>1, <2>3, <2>6, <2>7, PeerOf DEF Chain, Linked, Ends, After, HasBody
<1>9. WireInv("server")' /\ WireInv("client")'
  <2>1. ASSUME NEW i \in 1 .. Len(Tail(c))
        PROVE  Tail(c)[i].msg <= Len(sent["client"])
    <3>1. i + 1 \in 1 .. Len(c) /\ Tail(c)[i] = c[i + 1]
      BY <1>1, HeadTailProperties
    <3> QED
      BY <3>1, PeerOf DEF IInv, WireInv
  <2> QED
    BY <1>1, <1>2, <2>1, PeerOf DEF IInv, WireInv
<1>10. ReaderInv("server")' /\ ReaderInv("client")'
  BY <1>1, <1>3, PeerOf DEF IInv, ReaderInv, HasBody
<1>11. \A d \in End : d \in alive' => WriterInv(d)'
  BY <1>3, <1>5 DEF IInv
<1>12. Roles' /\ ChainInv' /\ AnswerInv'
  BY <1>3, <1>6, <1>7, <1>8 DEF Roles, ChainInv, AnswerInv
<1> QED
  BY <1>4, <1>9, <1>10, <1>11, <1>12 DEF IInv, End

-----------------------------------------------------------------------------
(* The invariant.                                                            *)

LEMMA Start ==
    ASSUME Init
    PROVE  IInv
<1>1. /\ sent = [e \in End |-> <<>>] /\ posted = [e \in End |-> <<>>]
      /\ out = [e \in End |-> <<>>] /\ in = [e \in End |-> <<>>] /\ alive = End
      /\ writing = [e \in End |-> "none"]
      /\ tmp = [e \in End |-> [header |-> 0, body |-> 0]]
      /\ wire["server"] = <<Hello>> /\ wire["client"] = <<>>
      /\ reading["server"] = "validation" /\ reading["client"] = "connecting"
  BY PeerOf DEF Init
<1>2. Hello \in Chunk
  BY DEF Hello, Chunk
<1>3. Types
  <2>1. wire \in [End -> Seq(Chunk)]
    BY <1>2, PeerOf DEF Init
  <2>2. reading \in [End -> {"connecting", "validation", "answering", "header", "body", "none"}]
    BY DEF Init
  <2>3. tmp \in [End -> [header : Nat, body : Nat]]
    BY <1>1
  <2> QED
    BY <1>1, <2>1, <2>2, <2>3 DEF Types
<1>4. \A e \in End : WriterInv(e)
  BY <1>1 DEF WriterInv, Written, Queued, HasBody
<1>5. \A e \in End : ReaderInv(e)
  <2>1. \A e \in End : sent[Peer(e)] = <<>> /\ in[e] = <<>> /\ reading[e] # "body"
    BY <1>1, PeerOf DEF End
  <2> QED
    BY <2>1 DEF ReaderInv
<1>6. \A e \in End : WireInv(e)
  <2>1. WireInv("server")
    BY <1>1, PeerOf DEF WireInv, Hello
  <2>2. WireInv("client")
    BY <1>1 DEF WireInv
  <2> QED
    BY <2>1, <2>2 DEF End
<1>7. Written("client") = 0 /\ Written("server") = 0
  <2>1. \A e \in End : Len(sent[e]) = 0 /\ Len(posted[e]) = 0 /\ Len(out[e]) = 0
    BY <1>1
  <2>2. Queued("client") = 0 /\ Queued("server") = 0
    BY <2>1, PeerOf DEF Queued
  <2> QED
    BY <2>1, <2>2, PeerOf DEF Written
<1>8. AnswerInv
  BY <1>1, <1>7, PeerOf DEF AnswerInv
<1>9. ChainInv
  <2>1. Awaited("client") = Hello /\ Unanswered
    BY <1>1 DEF Awaited, Unanswered
  <2>2. NextWrite("server") = Header(1) /\ After("server", Hello) = Header(1)
    BY <1>1, <1>7, PeerOf DEF NextWrite, After, Hello
  <2>3. Chain("server")
    BY <1>1, <2>1, <2>2, PeerOf DEF Chain, Linked, Ends
  <2> QED
    BY <2>1, <2>3 DEF ChainInv
<1> QED
  BY <1>1, <1>3, <1>4, <1>5, <1>6, <1>8, <1>9 DEF IInv, Roles

LEMMA NextStep ==
    ASSUME IInv, [Next]_vars
    PROVE  IInv'
<1>1. CASE Connected
  BY <1>1, ClientGoesOn DEF Connected, Goes
<1>2. CASE HelloRead
  BY <1>2, HelloReadStep
<1>3. CASE AnswerWritten
  BY <1>3, ClientGoesOn DEF AnswerWritten, Goes
<1>4. CASE AnswerRead
  BY <1>4, AnswerReadStep
<1>5. ASSUME NEW e \in End,
             \/ Asio(e) \/ Disconnect(e)
             \/ \E body \in BOOLEAN : Send(e, body)
      PROVE  IInv'
  BY <1>5, SendStep, DisconnectStep, RunPostedStep, HeaderWrittenStep, BodyWrittenStep,
     HeaderReadStep, BodyReadStep DEF Asio
<1>6. CASE UNCHANGED vars
  <2>1. /\ UNCHANGED <<sent, posted, out, writing, tmp, in, alive, wire, reading>>
    BY <1>6 DEF vars, writeVars, readVars
  <2>2. \A d \in End : /\ NextWrite(d)' = NextWrite(d) /\ Written(d)' = Written(d)
                       /\ (WriterInv(d) => WriterInv(d)')
    BY <2>1, OtherWriter
  <2>3. /\ Unanswered' <=> Unanswered
        /\ Early' <=> Early
    BY <2>1 DEF Unanswered, Early
  <2>4. \A d \in End : Awaited(d)' = Awaited(d)
    BY <2>1, <2>3 DEF Awaited, Unanswered
  <2>5. \A d \in End : Chain(d) => Chain(d)'
    BY <2>1, <2>2, <2>4, PeerOf DEF Chain, Linked, Ends, After, HasBody
  <2>6. ChainInv' /\ AnswerInv'
    BY <2>1, <2>2, <2>3, <2>5, PeerOf DEF IInv, ChainInv, AnswerInv
  <2>7. \A d \in End : ReaderInv(d)' /\ WireInv(d)'
    BY <2>1 DEF IInv, ReaderInv, WireInv, HasBody
  <2>8. Types' /\ Roles'
    BY <2>1 DEF IInv, Types, Roles
  <2> QED
    BY <2>1, <2>2, <2>6, <2>7, <2>8 DEF IInv
<1> QED
  BY <1>1, <1>2, <1>3, <1>4, <1>5, <1>6 DEF Next, Handshake

LEMMA Invariant == Spec => []IInv
  BY Start, NextStep, PTL DEF Spec

(* What is handed up is a message with its own header, in every connection with *)
(* any number of messages.                                                   *)
THEOREM TypeCorrect == Spec => []TypeOK
<1>1. ASSUME IInv PROVE TypeOK
  <2>1. Types /\ \A e \in End : ReaderInv(e)
    BY <1>1 DEF IInv
  <2>2. ASSUME NEW e \in End
        PROVE  in[e] \in Seq(Message)
    <3>1. in[e] \in Seq([header : Nat, body : Nat])
      BY <2>1 DEF Types
    <3>2. \A i \in 1 .. Len(in[e]) : in[e][i] \in Message
      <4>1. ASSUME NEW i \in 1 .. Len(in[e])
            PROVE  in[e][i] \in Message
        <5>1. in[e][i] \in [header : Nat, body : Nat]
          BY <3>1, LenProperties
        <5>2. in[e][i].header = i
          BY <2>1 DEF ReaderInv
        <5>3. i \in Nat \ {0}
          <6>1. Len(in[e]) \in Nat
            BY <3>1
          <6> QED
            BY <6>1
        <5> QED
          BY <5>1, <5>2, <5>3 DEF Message
      <4> QED
        BY <4>1
    <3>3. /\ Len(in[e]) \in Nat
          /\ in[e] \in [1 .. Len(in[e]) -> [header : Nat, body : Nat]]
      BY <3>1, LenProperties
    <3>4. in[e] \in [1 .. Len(in[e]) -> Message]
      BY <3>2, <3>3
    <3> QED
      BY <3>3, <3>4, SeqDef
  <2>3. in \in [End -> Seq(Message)]
    BY <2>1, <2>2 DEF Types
  <2> QED
    BY <2>1, <2>3 DEF Types, TypeOK
<1> QED
  BY <1>1, Invariant, PTL

-----------------------------------------------------------------------------
(* The refinement of MessageStream.                                          *)

Count(n)  == [i \in 1 .. n |-> i]
SentMap   == [e \in End |-> Len(sent[e])]
GotMap    == [e \in End |-> [i \in 1 .. Len(in[e]) |-> Whole(e, in[e][i])]]
Admitted  == reading["server"] \in {"header", "body"}

LEMMA Same ==
    /\ Stream!End = End /\ \A e : Stream!Peer(e) = Peer(e)
    /\ UNCHANGED Stream!vars <=> UNCHANGED <<SentMap, GotMap, alive, Admitted>>
    /\ \A e : Stream!Send(e) <=>
           /\ e \in alive /\ SentMap' = [SentMap EXCEPT ![e] = @ + 1]
           /\ UNCHANGED <<GotMap, alive, Admitted>>
    /\ Stream!Admit <=>
           ~Admitted /\ Admitted' = TRUE /\ UNCHANGED <<SentMap, GotMap, alive>>
    /\ \A e : Stream!Deliver(e) <=>
           /\ e \in alive /\ (e = "server" => Admitted)
           /\ Len(GotMap[e]) < SentMap[Peer(e)]
           /\ GotMap' = [GotMap EXCEPT ![e] = Append(@, Len(@) + 1)]
           /\ UNCHANGED <<SentMap, alive, Admitted>>
    /\ \A e : Stream!Fail(e) <=>
           e \in alive /\ alive' = alive \ {e} /\ UNCHANGED <<SentMap, GotMap, Admitted>>
  BY DEF Stream!End, End, Stream!Peer, Peer, Stream!vars, SentMap, GotMap, Admitted,
     Stream!Send, Stream!Admit, Stream!Deliver, Stream!Fail

(* What was handed up are the messages from the first on, each with its body.     *)
LEMMA Handed ==
    ASSUME IInv, IInv'
    PROVE  /\ GotMap = [e \in End |-> Count(Len(in[e]))]
           /\ GotMap' = [e \in End |-> Count(Len(in'[e]))]
           /\ \A e \in End : Len(in[e]) \in Nat
<1>1. \A e \in End : Len(in[e]) \in Nat
  BY DEF IInv, Types
<1>2. ASSUME NEW e \in End, NEW i \in 1 .. Len(in[e])
      PROVE  Whole(e, in[e][i]) = i
  BY DEF IInv, ReaderInv, Whole
<1>3. ASSUME NEW e \in End, NEW i \in 1 .. Len(in'[e])
      PROVE  Whole(e, in[e][i])' = i
  BY DEF IInv, ReaderInv, Whole
<1>4. GotMap = [e \in End |-> Count(Len(in[e]))]
  BY <1>2 DEF GotMap, Count
<1>5. GotMap' = [e \in End |-> Count(Len(in'[e]))]
  BY <1>3 DEF GotMap, Count
<1> QED
  BY <1>1, <1>4, <1>5

LEMMA CountOn ==
    ASSUME NEW n \in Nat
    PROVE  Count(n + 1) = Append(Count(n), n + 1) /\ Len(Count(n)) = n
<1>1. /\ Count(n) \in Seq(Nat) /\ Len(Count(n)) = n /\ Count(n + 1) \in Seq(Nat)
      /\ Len(Count(n + 1)) = n + 1
  BY IsASeq DEF Count
<1>2. Append(Count(n), n + 1) \in Seq(Nat) /\ Len(Append(Count(n), n + 1)) = n + 1
  BY <1>1
<1>3. ASSUME NEW i \in 1 .. n + 1
      PROVE  Count(n + 1)[i] = Append(Count(n), n + 1)[i]
  BY <1>1 DEF Count
<1> QED
  BY <1>1, <1>2, <1>3, SeqEqual

LEMMA Stutters ==
    ASSUME IInv, IInv', SentMap' = SentMap, in' = in, Admitted' = Admitted, alive' = alive
    PROVE  UNCHANGED Stream!vars
<1>1. GotMap' = GotMap
  BY Handed
<1> QED
  BY <1>1, Same

LEMMA Delivers ==
    ASSUME IInv, IInv', NEW e \in End, e \in alive, reading[e] \in {"header", "body"},
           reading'[e] \in {"header", "body"}, \A d \in End \ {e} : reading'[d] = reading[d],
           Incoming(e) # <<>>, UNCHANGED <<sent, alive>>,
           NEW m, in' = [in EXCEPT ![e] = Append(@, m)]
    PROVE  Stream!Deliver(e)
<1>1. Types /\ Peer(e) \in End
  BY PeerOf DEF IInv
<1>2. Len(in[e]) < Len(sent[Peer(e)])
  <2>1. Len(in[e]) \in Nat /\ Len(sent[Peer(e)]) \in Nat
    BY <1>1, Sizes, Handed
  <2>2. Awaited(e).msg = Len(in[e]) + 1
    BY ReadHead DEF Body, Header
  <2> QED
    BY <2>1, <2>2, ReadHead
<1>3. /\ in'[e] = Append(in[e], m) /\ \A d \in End \ {e} : in'[d] = in[d]
      /\ in[e] \in Seq([header : Nat, body : Nat])
  BY <1>1 DEF Types
<1>4. Len(in'[e]) = Len(in[e]) + 1
  BY <1>3
<1>5. GotMap' = [GotMap EXCEPT ![e] = Append(@, Len(@) + 1)]
  <2>1. /\ GotMap = [d \in End |-> Count(Len(in[d]))]
        /\ GotMap' = [d \in End |-> Count(Len(in'[d]))] /\ Len(in[e]) \in Nat
    BY Handed
  <2>2. /\ Count(Len(in'[e])) = Append(Count(Len(in[e])), Len(in[e]) + 1)
        /\ Len(Count(Len(in[e]))) = Len(in[e])
    BY <1>4, <2>1, CountOn
  <2>3. GotMap[e] = Count(Len(in[e]))
    BY <2>1
  <2>4. [GotMap EXCEPT ![e] = Append(@, Len(@) + 1)]
            = [GotMap EXCEPT ![e] = Count(Len(in'[e]))]
    BY <2>2, <2>3
  <2>5. [d \in End |-> Count(Len(in'[d]))]
            = [[d \in End |-> Count(Len(in[d]))] EXCEPT ![e] = Count(Len(in'[e]))]
    <3> DEFINE F == [d \in End |-> Count(Len(in[d]))]
               G == [d \in End |-> Count(Len(in'[d]))]
    <3>1. \A d \in End : d = e \/ G[d] = F[d]
      BY <1>3
    <3>2. DOMAIN F = End /\ DOMAIN G = End /\ G[e] = Count(Len(in'[e]))
      OBVIOUS
    <3>3. F = [d \in End |-> F[d]] /\ G = [d \in End |-> G[d]]
      OBVIOUS
    <3> HIDE DEF F, G
    <3>4. G = [F EXCEPT ![e] = G[e]]
      BY <3>1, <3>2, <3>3
    <3> QED
      BY <3>2, <3>4 DEF F, G
  <2> QED
    BY <2>1, <2>4, <2>5
<1>6. Len(GotMap[e]) < SentMap[Peer(e)]
  <2>1. GotMap[e] = Count(Len(in[e])) /\ Len(in[e]) \in Nat
    BY Handed
  <2> QED
    BY <1>1, <1>2, <2>1, CountOn DEF SentMap
<1>7. SentMap' = SentMap /\ (Admitted' <=> Admitted) /\ (e = "server" => Admitted)
  BY PeerOf DEF SentMap, Admitted, End
<1>8. Admitted' = Admitted
  <2>1. CASE e = "server"
    BY <2>1 DEF Admitted
  <2>2. CASE e # "server"
    <3>1. reading'["server"] = reading["server"]
      BY <2>2, PeerOf
    <3> QED
      BY <3>1 DEF Admitted
  <2> QED
    BY <2>1, <2>2
<1> QED
  BY <1>5, <1>6, <1>7, <1>8, Same

LEMMA SendRefines ==
    ASSUME IInv, IInv', NEW e \in End, NEW body \in BOOLEAN, Send(e, body)
    PROVE  Stream!Send(e)
<1>1. /\ e \in alive /\ UNCHANGED <<reading, in, alive>>
      /\ sent' = [sent EXCEPT ![e] = Append(@, body)] /\ sent[e] \in Seq(BOOLEAN)
      /\ sent \in [End -> Seq(BOOLEAN)]
  BY DEF Send, readVars, IInv, Types
<1>2. Len(Append(sent[e], body)) = Len(sent[e]) + 1
  BY <1>1
<1>3. SentMap' = [SentMap EXCEPT ![e] = @ + 1]
  <2>1. \A d \in End : Len(sent'[d]) = IF d = e THEN Len(sent[e]) + 1 ELSE Len(sent[d])
    BY <1>1, <1>2
  <2> QED
    BY <2>1 DEF SentMap
<1>4. GotMap' = GotMap /\ Admitted' = Admitted
  BY <1>1, Handed DEF Admitted
<1> QED
  BY <1>1, <1>3, <1>4, Same

LEMMA AsioRefines ==
    ASSUME IInv, IInv', NEW e \in End, Asio(e)
    PROVE  Stream!Deliver(e) \/ Stream!Fail(e) \/ UNCHANGED Stream!vars
<1>1. Types /\ e \in End /\ SentMap = [d \in End |-> Len(sent[d])]
  BY DEF IInv, SentMap
<1>2. CASE RunPosted(e)
  <2>1. sent' = sent /\ in' = in /\ reading' = reading
    BY <1>2 DEF RunPosted, readVars
  <2>2. SentMap' = SentMap /\ Admitted' = Admitted /\ GotMap' = GotMap
    BY <2>1, Handed DEF SentMap, Admitted
  <2>3. CASE alive' = alive
    BY <2>1, <2>2, <2>3, Stutters
  <2>4. CASE alive' # alive
    <3>1. e \in alive /\ alive' = alive \ {e}
      BY <1>2, <2>4 DEF RunPosted
    <3> QED
      BY <2>2, <3>1, Same
  <2> QED
    BY <2>3, <2>4
<1>3. CASE HeaderWritten(e) \/ BodyWritten(e)
  <2>1. sent' = sent /\ in' = in /\ reading' = reading /\ alive' = alive
    BY <1>3 DEF HeaderWritten, BodyWritten, readVars
  <2>2. SentMap' = SentMap /\ Admitted' = Admitted
    BY <2>1 DEF SentMap, Admitted
  <2> QED
    BY <2>1, <2>2, Stutters
<1>4. CASE HeaderRead(e)
  <2>1. /\ e \in alive /\ reading[e] = "header" /\ Incoming(e) # <<>>
        /\ UNCHANGED <<sent, alive>>
    BY <1>4 DEF HeaderRead
  <2>2. CASE HasBody(Peer(e), Head(Incoming(e)).msg)
    <3>1. in' = in /\ reading' = [reading EXCEPT ![e] = "body"]
      BY <1>4, <2>2 DEF HeaderRead, Goes
    <3>2. SentMap' = SentMap
      BY <2>1 DEF SentMap
    <3>3. Admitted' = Admitted
      <4>1. CASE e = "server"
        <5>1. reading["server"] = "header" /\ reading'["server"] = "body"
          BY <1>1, <2>1, <3>1, <4>1 DEF Types
        <5> QED
          BY <5>1 DEF Admitted
      <4>2. CASE e # "server"
        <5>1. reading'["server"] = reading["server"]
          BY <1>1, <3>1, <4>2 DEF Types
        <5> QED
          BY <5>1 DEF Admitted
      <4> QED
        BY <4>1, <4>2
    <3> QED
      BY <2>1, <3>1, <3>2, <3>3, Stutters
  <2>3. CASE ~HasBody(Peer(e), Head(Incoming(e)).msg)
    <3>1. in' = [in EXCEPT ![e] = Append(@, tmp'[e])] /\ reading' = reading
      BY <1>4, <2>3 DEF HeaderRead
    <3> QED
      BY <2>1, <3>1, Delivers
  <2> QED
    BY <2>2, <2>3
<1>5. CASE BodyRead(e)
  <2>1. /\ e \in alive /\ reading[e] = "body" /\ Incoming(e) # <<>>
        /\ UNCHANGED <<sent, alive>> /\ in' = [in EXCEPT ![e] = Append(@, tmp'[e])]
        /\ reading' = [reading EXCEPT ![e] = "header"]
    BY <1>5 DEF BodyRead, Goes
  <2>2. reading'[e] = "header" /\ \A d \in End \ {e} : reading'[d] = reading[d]
    BY <1>1, <2>1 DEF Types
  <2> QED
    BY <2>1, <2>2, Delivers
<1> QED
  BY <1>2, <1>3, <1>4, <1>5 DEF Asio

LEMMA HandshakeRefines ==
    ASSUME IInv, IInv', Handshake
    PROVE  Stream!Admit \/ Stream!Fail("server") \/ UNCHANGED Stream!vars
<1>1. sent' = sent /\ in' = in /\ Types
  BY DEF Handshake, Connected, HelloRead, AnswerWritten, AnswerRead, readVars, IInv
<1>2. SentMap' = SentMap /\ GotMap' = GotMap
  BY <1>1, Handed DEF SentMap
<1>3. CASE AnswerRead
  <2>1. ~Admitted
    BY <1>3 DEF AnswerRead, Admitted
  <2>2. CASE Head(Incoming("server")) = Answer
    <3>1. reading'["server"] = "header" /\ alive' = alive
      BY <1>1, <1>3, <2>2, PeerOf DEF AnswerRead, Goes, Types
    <3>2. Admitted' = TRUE
      BY <3>1 DEF Admitted
    <3> QED
      BY <1>2, <2>1, <3>1, <3>2, Same
  <2>3. CASE Head(Incoming("server")) # Answer
    <3>1. reading'["server"] = "none" /\ alive' = alive \ {"server"}
      BY <1>1, <1>3, <2>3, PeerOf DEF AnswerRead, Goes, Types
    <3>2. Admitted' = Admitted
      <4>1. Admitted = FALSE /\ Admitted' = FALSE
        BY <1>3, <3>1 DEF AnswerRead, Admitted
      <4> QED
        BY <4>1
    <3>3. CASE "server" \in alive
      BY <1>2, <3>1, <3>2, <3>3, Same
    <3>4. CASE "server" \notin alive
      <4>1. alive' = alive
        BY <3>1, <3>4
      <4> QED
        BY <1>2, <3>2, <4>1, Same
    <3> QED
      BY <3>3, <3>4
  <2> QED
    BY <2>2, <2>3
<1>4. CASE ~AnswerRead
  <2>1. alive' = alive /\ reading'["server"] = reading["server"]
    BY <1>1, <1>4, PeerOf DEF Handshake, Connected, HelloRead, AnswerWritten, Goes, Types
  <2>2. Admitted' = Admitted
    BY <2>1 DEF Admitted
  <2> QED
    BY <1>2, <2>1, <2>2, Same
<1> QED
  BY <1>3, <1>4

(* Every connection of NetCommon, whatever is sent and whoever gives up when, is a *)
(* MessageStream: net_connection.h:117-268.                                  *)
THEOREM Implements == Spec => ImplementsStream
<1>1. Init => Stream!Init
  <2> SUFFICES ASSUME Init PROVE Stream!Init
    OBVIOUS
  <2>1. /\ sent = [e \in End |-> <<>>] /\ in = [e \in End |-> <<>>] /\ alive = End
        /\ reading["server"] = "validation"
    BY PeerOf DEF Init
  <2>2. SentMap = [e \in End |-> 0]
    BY <2>1 DEF SentMap
  <2>3. GotMap = [e \in End |-> <<>>]
    <3>1. \A e \in End : [i \in 1 .. Len(in[e]) |-> Whole(e, in[e][i])] = <<>>
      BY <2>1
    <3> QED
      BY <3>1 DEF GotMap
  <2>4. Admitted = FALSE
    BY <2>1 DEF Admitted
  <2> QED
    BY <2>1, <2>2, <2>3, <2>4 DEF Stream!Init, Stream!End, End, SentMap, GotMap, Admitted
<1>2. ASSUME IInv, IInv', [Next]_vars
      PROVE  [Stream!Next]_Stream!vars
  <2>1. CASE Handshake
    BY <1>2, <2>1, HandshakeRefines, PeerOf, Same DEF Stream!Next
  <2>2. ASSUME NEW e \in End, Asio(e)
        PROVE  [Stream!Next]_Stream!vars
    BY <1>2, <2>2, AsioRefines, Same DEF Stream!Next
  <2>3. ASSUME NEW e \in End, NEW body \in BOOLEAN, Send(e, body)
        PROVE  [Stream!Next]_Stream!vars
    BY <1>2, <2>3, SendRefines, Same DEF Stream!Next
  <2>4. ASSUME NEW e \in End, Disconnect(e)
        PROVE  [Stream!Next]_Stream!vars
    <3>1. e \in alive /\ alive' = alive \ {e} /\ sent' = sent /\ in' = in /\ reading' = reading
      BY <2>4 DEF Disconnect, readVars
    <3>2. SentMap' = SentMap /\ GotMap' = GotMap /\ Admitted' = Admitted
      BY <1>2, <3>1, Handed DEF SentMap, Admitted
    <3> QED
      BY <3>1, <3>2, Same DEF Stream!Next
  <2>5. CASE UNCHANGED vars
    <3>1. sent' = sent /\ in' = in /\ reading' = reading /\ alive' = alive
      BY <2>5 DEF vars, readVars
    <3>2. SentMap' = SentMap /\ Admitted' = Admitted
      BY <3>1 DEF SentMap, Admitted
    <3> QED
      BY <1>2, <3>1, <3>2, Stutters
  <2> QED
    BY <1>2, <2>1, <2>2, <2>3, <2>4, <2>5 DEF Next
<1> QED
  BY <1>1, <1>2, Invariant, PTL DEF Spec, ImplementsStream, Stream!Spec

(* What an end was handed are the first messages of its peer, in order and each  *)
(* with its own body if it has one, and none that was not sent: the two reads of *)
(* a message (net_connection.h:199-268) never come apart.                     *)
THEOREM WholeOnceInOrder ==
    Spec => [](\A e \in End :
                  /\ Len(in[e]) <= Len(sent[Peer(e)])
                  /\ \A i \in 1 .. Len(in[e]) : Whole(e, in[e][i]) = i)
<1>1. IInv => \A e \in End :
                  /\ Len(in[e]) <= Len(sent[Peer(e)])
                  /\ \A i \in 1 .. Len(in[e]) : Whole(e, in[e][i]) = i
  BY DEF IInv, ReaderInv, Whole
<1> QED
  BY <1>1, Invariant, PTL
=============================================================================
