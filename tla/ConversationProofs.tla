------------------------- MODULE ConversationProofs -------------------------
(***************************************************************************)
(* The way of a conversation: from the agent into the rows (EventStream),   *)
(* and from the rows to the browser (AgentPanel).                          *)
(*                                                                          *)
(* Of EventStream, for every agent, and any number of turns, parts,         *)
(* connections and events under way: nothing is stored twice, what is       *)
(* stored is what the agent said, and the row tells that it is done, the    *)
(* last two while no event is lost.  An event has a stamp, which says how   *)
(* far the agent was; what is on the wire is in the order of the stamps,    *)
(* and what the session holds is behind it.                                *)
(*                                                                          *)
(* Of AgentPanel, for any sessions and any number of requests and events:    *)
(* what the panel shows, with what it has still to hear, is what the rows    *)
(* say; a load that is on its way back is alone, or marked.                  *)
(***************************************************************************)
EXTENDS EventStream, AgentPanel, FiniteSetTheorems, SequenceTheorems, TLAPS

(* Where an event stands in what the agent says: part n is announced at     *)
(* 4n + 1, streams at 4n + 2 and is finished at 4n + 3; what comes between  *)
(* two parts stands at 4n + 4.                                              *)
Spoken == {"text", "reason", "tool"} \X Nat
Echoes == [ev : {"role", "final"}, item : {"user"} \X Nat]
Parts  == [ev : {"open", "final"}, item : Spoken] \cup [ev : {"delta"}, item : {"text", "reason"} \X Nat]
Turns  == [ev : {"busy", "idle", "error"}, item : {"none"} \X Nat]
Events == Echoes \cup Parts \cup Turns

Stamp(e) == 4 * e.item[2] + (CASE e.ev = "open"  -> 1
                               [] e.ev = "delta" -> 2
                               [] e.ev = "final" -> 3
                               [] OTHER          -> 4)

\* How far the agent is, and how many messages it has begun
Top   == 4 * item[2] + (IF Nothing THEN 4 ELSE 2)
Begun == sent - queued

\* The shape of the state, without the bounds.
Shaped ==
  /\ kind \in {"opencode", "legacy", "codex"}
  /\ agent \in {"off", "begin", "on", "aborted", "end"}
  /\ {queued, sent, calls} \subseteq Nat /\ queued <= sent
  /\ item \in Spoken \cup ({"none"} \X Nat)
  /\ agent \notin {"on", "aborted"} => Nothing
  /\ wire \in Seq(Events)
  /\ {failed, up, abort, lost} \subseteq BOOLEAN
  /\ pend \subseteq {"text", "reason"} \X Nat
  /\ log \in Seq([full : BOOLEAN, items : SUBSET (Spoken \cup ({"user"} \X Nat))])
  /\ said \in Seq(Spoken)
  /\ status \in {"idle", "busy", "error"}

\* Only the last connection can be open; Codex has one, and loses it for good.
Linked ==
  /\ streams \in Seq({"connecting", "open", "failed", "over"}) /\ streams # <<>>
  /\ \A i \in 1..Current - 1 : streams[i] = "over"
  /\ ~up => lost
  /\ kind = "codex" /\ ~lost => Current = 1 /\ streams[1] = "open"

\* Of two events the first is about an earlier part, or stage of it.
InOrder(w) ==
  \A p, q \in 1..Len(w) : p < q =>
    /\ w[p] \notin Echoes /\ w[q] \notin Echoes =>
         /\ Stamp(w[p]) <= Stamp(w[q])
         /\ w[p] \in Parts => Stamp(w[p]) < Stamp(w[q])
    /\ w[p] \in Echoes /\ w[q] \in Echoes =>
         /\ w[p].item[2] <= w[q].item[2]
         /\ w[p].ev = "final" => w[p].item[2] < w[q].item[2]

\* What is on the wire is in order, and the agent is at least as far.
Ordered ==
  /\ \A p \in 1..Len(wire) : IF wire[p] \in Echoes THEN wire[p].item[2] <= Begun
                                                  ELSE Stamp(wire[p]) <= Top
  /\ InOrder(wire)

\* What the session holds is behind what is on the wire.
Behind ==
  /\ \A i \in pend : 4 * i[2] + 2 <= Top
  /\ \A m \in 1..Len(log) : \A i \in log[m].items :
       IF i[1] = "user" THEN i[2] <= Begun ELSE 4 * i[2] + 3 <= Top
  /\ \A p \in 1..Len(wire) :
       IF wire[p] \in Echoes
       THEN \A m \in 1..Len(log) : \A i \in log[m].items :
              i[1] = "user" => wire[p].item[2] > i[2]
       ELSE /\ \A i \in pend : Stamp(wire[p]) > 4 * i[2] + 2
            /\ \A m \in 1..Len(log) : \A i \in log[m].items :
                 i[1] # "user" => Stamp(wire[p]) > 4 * i[2] + 3

\* What is held in pieces is not stored, and nothing is stored twice.
Apart ==
  /\ \A i \in pend : i[1] = "reason" => lost
  /\ \A i \in pend : \A m \in 1..Len(log) : i \in log[m].items => i[1] = "reason"
  /\ NothingTwice

\* What the bridge has to know of an event it knows or will be told before.
Told(w) ==
  \A p \in 1..Len(w) :
    /\ w[p] \in Echoes => kind # "codex"
    /\ w[p].ev = "delta" /\ w[p].item[1] = "reason" =>
         \/ w[p].item \in think
         \/ \E q \in 1..p - 1 : w[q] = [ev |-> "open", item |-> w[p].item]
    /\ w[p].ev = "final" /\ w[p] \in Echoes =>
         \/ w[p].item[2] \in knows
         \/ \E q \in 1..p - 1 : w[q] = [ev |-> "role", item |-> w[p].item]

\* Unless an event was lost.
Known == ~lost => Told(wire)

\* The parts the agent has finished, in their order.
SaidInOrder ==
  /\ \A k \in 1..Len(said) : 4 * said[k][2] + 3 <= Top
  /\ \A j, k \in 1..Len(said) : j < k => said[j][2] < said[k][2]

\* How many of them are stored.
Stored == Place(Len(log))

\* The first of what was said is stored in its place, the rest is on the wire.
Faithful ==
  ~lost =>
    /\ Stored <= Len(said)
    /\ \A n \in 1..Len(log) :
         IF log[n].full THEN Place(n) \in 1..Stored /\ log[n].items = {said[Place(n)]}
         ELSE \A i \in log[n].items : i[1] = "text" /\ \A k \in 1..Len(said) : said[k] # i
    /\ \A k \in 1..Stored : \E n \in 1..Len(log) : log[n].items = {said[k]}
    /\ \A k \in Stored + 1..Len(said) : [ev |-> "final", item |-> said[k]] \in {wire[p] : p \in 1..Len(wire)}
    /\ \A p \in 1..Len(wire) : wire[p].ev = "final" /\ wire[p] \in Parts =>
         \E k \in Stored + 1..Len(said) : wire[p].item = said[k]

\* Who is busy has something to wait for, and an error has been reported.
Settling ==
  /\ status = "busy" /\ ~lost =>
       queued > 0 \/ agent # "off" \/ \E p \in 1..Len(wire) : wire[p].ev = "idle"
  /\ kind # "codex" =>
       /\ calls = 0
       /\ status = "error" => failed
       /\ \A p \in 1..Len(wire) : wire[p].ev = "error" => failed
  /\ abort => kind # "codex"

\* The inductive invariant.
Inv == /\ Shaped /\ Linked /\ Ordered /\ Behind /\ Apart /\ Known
       /\ SaidInOrder /\ Faithful /\ Settling

-----------------------------------------------------------------------------

\* The rest of a sequence, one place further.
LEMMA TailFacts ==
  ASSUME NEW S, NEW s \in Seq(S), s # <<>>
  PROVE  /\ Head(s) = s[1] /\ Head(s) \in S /\ Tail(s) \in Seq(S)
         /\ Len(s) \in Nat \ {0} /\ Len(Tail(s)) = Len(s) - 1
         /\ \A p \in 1..Len(s) - 1 : Tail(s)[p] = s[p + 1]
  BY HeadTailProperties, EmptySeq

\* A new connection is the last, and the wire is empty.
LEMMA ConnectSSEFacts ==
  ASSUME Linked, ConnectSSE
  PROVE  /\ streams' \in Seq({"connecting", "open", "failed", "over"})
         /\ Len(streams') = Current + 1
         /\ \A i \in 1..Current : streams'[i] = "over"
         /\ streams'[Current + 1] = "connecting"
         /\ wire' = <<>> /\ (wire # <<>> => lost') /\ (lost => lost')
<1>1. Current \in Nat
  BY LenProperties DEF Linked, Current
<1>2. /\ Closed(streams) \in Seq({"connecting", "open", "failed", "over"})
      /\ Len(Closed(streams)) = Current
      /\ \A i \in 1..Current : Closed(streams)[i] = "over"
  BY <1>1 DEF Closed, Current
<1>3. streams' = Append(Closed(streams), "connecting")
  BY DEF ConnectSSE
<1>4. wire' = <<>> /\ (wire # <<>> => lost') /\ (lost => lost')
  BY DEF ConnectSSE
<1> QED
  BY <1>1, <1>2, <1>3, <1>4, AppendProperties

\* Which events are about what.
LEMMA EventType ==
  ASSUME NEW i, NEW e
  PROVE  /\ i \in Spoken /\ e \in {"open", "final"} => [ev |-> e, item |-> i] \in Parts
         /\ i \in {"text", "reason"} \X Nat => [ev |-> "delta", item |-> i] \in Parts
         /\ i \in {"user"} \X Nat /\ e \in {"role", "final"} => [ev |-> e, item |-> i] \in Echoes
         /\ i \in {"none"} \X Nat /\ e \in {"busy", "idle", "error"} => [ev |-> e, item |-> i] \in Turns
  BY DEF Parts, Echoes, Turns, Spoken

\* At most one connection is open: the last.
LEMMA SomeOpen ==
  ASSUME Linked
  PROVE  Open = {} \/ Cardinality(Open) = 1
<1>1. Open \subseteq {Current}
  BY DEF Linked, Open, Current
<1>2. Open = {} \/ Open = {Current}
  BY <1>1
<1> QED
  BY <1>2, FS_Singleton

\* A single event is a sequence of events.
LEMMA OneEvent ==
  ASSUME NEW a \in Events
  PROVE  <<a>> \in Seq(Events) /\ Len(<<a>>) = 1 /\ <<a>>[1] = a
  OBVIOUS

\* So are two.
LEMMA TwoEvents ==
  ASSUME NEW a \in Events, NEW b \in Events
  PROVE  /\ <<a>> \o <<b>> \in Seq(Events) /\ Len(<<a>> \o <<b>>) = 2
         /\ (<<a>> \o <<b>>)[1] = a /\ (<<a>> \o <<b>>)[2] = b
  BY OneEvent, ConcatProperties

\* Where the events of a part stand.
LEMMA StampType ==
  ASSUME NEW e \in Events
  PROVE  /\ e.item[2] \in Nat /\ Stamp(e) \in Nat
         /\ e \in Turns => Stamp(e) = 4 * e.item[2] + 4
         /\ e \in Parts => \E r \in 1..3 : Stamp(e) = 4 * e.item[2] + r
         /\ e.ev = "open" => Stamp(e) = 4 * e.item[2] + 1
         /\ e.ev = "delta" => Stamp(e) = 4 * e.item[2] + 2
         /\ e.ev = "final" => Stamp(e) = 4 * e.item[2] + 3
  BY DEF Events, Echoes, Parts, Turns, Spoken, Stamp

\* The three kinds of events are apart.
LEMMA EventKinds ==
  ASSUME NEW e \in Events
  PROVE  /\ e \in Echoes => e \notin Parts /\ e \notin Turns /\ e.item[1] = "user"
         /\ e \in Parts => e \notin Turns /\ e.item \in Spoken
         /\ e \in Turns => e.ev \in {"busy", "idle", "error"} /\ e.item[1] = "none"
         /\ e \in Echoes \/ e \in Parts \/ e \in Turns
         /\ e \in Parts => e.ev \in {"open", "delta", "final"}
         /\ e \in Echoes => e.ev \in {"role", "final"}
         /\ e.ev = "delta" => e.item \in {"text", "reason"} \X Nat
  BY DEF Events, Echoes, Parts, Turns, Spoken

\* A turn never stands where a part does.
LEMMA FourApart ==
  ASSUME NEW a \in Nat, NEW b \in Nat, NEW k \in 1..3
  PROVE  4 * a + k # 4 * b + 4
  OBVIOUS

\* Nothing stands between the end of a part and what follows it.
LEMMA Between ==
  ASSUME NEW a \in Nat, NEW b \in Nat, 4 * a + 4 > 4 * b + 2, 4 * a + 4 <= 4 * b + 3
  PROVE  FALSE
  OBVIOUS

\* A part that is finished before another streams is an earlier one.
LEMMA Below ==
  ASSUME NEW a \in Nat, NEW b \in Nat, 4 * a + 3 <= 4 * b + 2
  PROVE  a < b
  OBVIOUS

\* A part that is not finished after another is not a later one.
LEMMA NotLater ==
  ASSUME NEW a \in Nat, NEW b \in Nat, 4 * a + 3 <= 4 * b + 3
  PROVE  ~(b < a)
  OBVIOUS

\* What stands above all that was sent stands above every stage of it; a turn,
\* which may stand level with it, is no such stage.
LEMMA Above ==
  ASSUME NEW s \in Nat, NEW t \in Nat, NEW a \in Nat, s > t \/ (s >= t /\ s = 4 * a + 4)
  PROVE  \A n \in Nat : (4 * n + 2 <= t => s > 4 * n + 2) /\ (4 * n + 3 <= t => s > 4 * n + 3)
<1> TAKE n \in Nat
<1>1. CASE s > t
  BY <1>1
<1>2. CASE s >= t /\ s = 4 * a + 4
  <2>1. s # 4 * n + 2 /\ s # 4 * n + 3
    BY <1>2
  <2> QED
    BY <1>2, <2>1
<1> QED
  BY <1>1, <1>2

\* What is past a stage of a part is past the part.
LEMMA Reached ==
  ASSUME NEW a \in Nat, NEW b \in Nat, 4 * a + 4 > 4 * b + 2
  PROVE  4 * b + 4 <= 4 * a + 4
  OBVIOUS

\* Two numbers with a bound between them.
LEMMA Parted ==
  ASSUME NEW a \in Nat, NEW b \in Nat, NEW c \in Nat, a <= c, b > c
  PROVE  a < b
  OBVIOUS

\* What was bounded by how far the agent was is bounded by how far it is.
LEMMA Grown ==
  ASSUME Top \in Nat, Begun \in Nat, Top' \in Nat, Begun' \in Nat, Top' >= Top, Begun' >= Begun,
         NEW n \in Nat
  PROVE  /\ n <= Top => n <= Top'
         /\ n <= Begun => n <= Begun'
         /\ 4 * n + 2 <= Top => 4 * n + 2 <= Top'
         /\ 4 * n + 3 <= Top => 4 * n + 3 <= Top'
<1>1. 4 * n + 2 \in Nat /\ 4 * n + 3 \in Nat
  OBVIOUS
<1> QED
  BY <1>1

\* How far the agent is can be counted.
LEMMA TopType ==
  ASSUME Shaped, Shaped'
  PROVE  {Top, Begun, Top', Begun'} \subseteq Nat
<1>1. item[2] \in Nat /\ item'[2] \in Nat
  BY DEF Shaped, Spoken
<1>2. Begun \in Nat /\ Begun' \in Nat
  BY SMTT(30) DEF Shaped, Begun
<1> QED
  BY <1>1, <1>2 DEF Top

\* An event reaches the one connection that is open, or nobody.
LEMMA EmitFacts ==
  ASSUME Shaped, Linked, NEW evs \in Seq(Events), Emit(evs)
  PROVE  /\ wire' = wire \/ wire' = wire \o evs
         /\ wire' # wire \o evs => lost'
         /\ lost => lost'
         /\ wire' \in Seq(Events)
<1>1. wire \o evs \in Seq(Events)
  BY ConcatProperties DEF Shaped
<1> QED
  BY <1>1, SomeOpen DEF Emit, Shaped

\* An event that is ahead of all that was sent, and not of the agent.
Fresh(a) ==
  IF a \in Echoes THEN a.item[2] > Begun /\ a.item[2] <= Begun'
  ELSE /\ Stamp(a) <= Top'
       /\ Stamp(a) > Top \/ (a \in Turns /\ Stamp(a) >= Top)

\* What the agent sends comes after what it sent before.
LEMMA EmitKeeps ==
  ASSUME Inv, NEW evs \in Seq(Events), Emit(evs), InOrder(evs), Told(evs), Shaped',
         Top' >= Top, Begun' >= Begun,
         \A p \in 1..Len(evs) : Fresh(evs[p])
  PROVE  Ordered' /\ Behind' /\ Apart' /\ Known'
<1>0. Top \in Nat /\ Begun \in Nat /\ Top' \in Nat /\ Begun' \in Nat
  BY TopType DEF Inv
<1>1. /\ \A e \in Events : Stamp(e) \in Nat /\ e.item[2] \in Nat
      /\ wire \in Seq(Events) /\ Len(wire) \in Nat /\ Len(evs) \in Nat
  <2> QED
    BY StampType, LenProperties DEF Shaped, Inv
<1>2. PICK ext \in {<<>>, evs} : wire' = wire \o ext /\ (ext # evs => lost')
  <2>1. wire \o <<>> = wire
    BY <1>1, ConcatEmptySeq
  <2> QED
    BY <2>1, EmitFacts DEF Inv
<1>3. /\ ext \in Seq(Events) /\ Len(ext) \in Nat
      /\ \A p \in 1..Len(ext) : p \in 1..Len(evs) /\ ext[p] = evs[p]
  <2>1. CASE ext = evs
    BY <1>1, <2>1
  <2>2. CASE ext = <<>>
    BY <2>2, EmptySeq
  <2> QED
    BY <2>1, <2>2
<1>4. /\ Len(wire') = Len(wire) + Len(ext)
      /\ \A p \in 1..Len(wire) : wire'[p] = wire[p]
      /\ \A p \in 1..Len(ext) : wire'[Len(wire) + p] = ext[p]
      /\ \A p \in 1..Len(wire') :
           \/ p \in 1..Len(wire)
           \/ \E q \in 1..Len(ext) : p = Len(wire) + q
  <2>1. \A p \in 1..Len(wire) + Len(ext) : p \notin 1..Len(wire) =>
          p - Len(wire) \in 1..Len(ext) /\ p = Len(wire) + (p - Len(wire))
    BY <1>1, <1>3
  <2>2. /\ Len(wire \o ext) = Len(wire) + Len(ext)
        /\ \A i \in 1 .. Len(wire) + Len(ext) : (wire \o ext)[i] =
                     IF i <= Len(wire) THEN wire[i] ELSE ext[i - Len(wire)]
    BY <1>1, <1>3, ConcatProperties
  <2>3. \A p \in 1..Len(ext) : Len(wire) + p \in 1..Len(wire) + Len(ext)
                               /\ ~(Len(wire) + p <= Len(wire)) /\ (Len(wire) + p) - Len(wire) = p
    BY <1>1, <1>3
  <2>4. /\ Len(wire') = Len(wire) + Len(ext)
        /\ \A p \in 1..Len(wire) : wire'[p] = wire[p]
    BY <1>1, <1>2, <1>3, <2>2
  <2>5. \A p \in 1..Len(ext) : wire'[Len(wire) + p] = ext[p]
    BY <1>2, <2>2, <2>3
  <2> QED
    BY <2>1, <2>4, <2>5
<1>5. /\ pend' = pend /\ log' = log /\ knows' = knows /\ think' = think /\ kind' = kind
      /\ lost => lost'
  BY EmitFacts DEF Emit, bridge, rows
<1>6. Ordered'
  <2>1. \A p \in 1..Len(wire') : IF wire'[p] \in Echoes THEN wire'[p].item[2] <= Begun'
                                                     ELSE Stamp(wire'[p]) <= Top'
    <3> SUFFICES ASSUME NEW p \in 1..Len(wire')
                 PROVE IF wire'[p] \in Echoes THEN wire'[p].item[2] <= Begun'
                                              ELSE Stamp(wire'[p]) <= Top'
      OBVIOUS
    <3>1. CASE p \in 1..Len(wire)
      <4>1. wire[p] \in Events
        BY <1>1, <3>1, ElementOfSeq
      <4>2. wire'[p] = wire[p]
        BY <1>4, <3>1
      <4>3. IF wire[p] \in Echoes THEN wire[p].item[2] <= Begun ELSE Stamp(wire[p]) <= Top
        BY <3>1 DEF Ordered, Inv
      <4>4. wire[p].item[2] \in Nat /\ Stamp(wire[p]) \in Nat
        BY <1>1, <4>1
      <4> QED
        BY <1>0, <4>2, <4>3, <4>4, SMTT(30)
    <3>2. CASE \E q \in 1..Len(ext) : p = Len(wire) + q
      BY <1>3, <1>4, <3>2, SMTT(30) DEF Fresh
    <3> QED
      BY <1>4, <3>1, <3>2
  <2>2. InOrder(wire')
    <3> SUFFICES ASSUME NEW p \in 1..Len(wire'), NEW q \in 1..Len(wire'), p < q
                 PROVE  /\ wire'[p] \notin Echoes /\ wire'[q] \notin Echoes =>
                             /\ Stamp(wire'[p]) <= Stamp(wire'[q])
                             /\ wire'[p] \in Parts => Stamp(wire'[p]) < Stamp(wire'[q])
                        /\ wire'[p] \in Echoes /\ wire'[q] \in Echoes =>
                             /\ wire'[p].item[2] <= wire'[q].item[2]
                             /\ wire'[p].ev = "final" => wire'[p].item[2] < wire'[q].item[2]
      BY DEF InOrder
    <3>1. CASE q \in 1..Len(wire)
      <4>1. p \in 1..Len(wire)
        BY <1>1, <1>4, <3>1
      <4> QED
        BY <1>4, <3>1, <4>1 DEF Ordered, InOrder, Inv
    <3>2. CASE p \in 1..Len(wire) /\ \E r \in 1..Len(ext) : q = Len(wire) + r
      <4>1. PICK r \in 1..Len(ext) : q = Len(wire) + r
        BY <3>2
      <4>2. /\ wire'[p] = wire[p] /\ wire'[q] = evs[r] /\ r \in 1..Len(evs)
            /\ wire[p] \in Events /\ evs[r] \in Events
        BY <1>1, <1>3, <1>4, <3>2, <4>1, ElementOfSeq
      <4>3. /\ wire[p] \in Echoes => wire[p].item[2] <= Begun
            /\ wire[p] \notin Echoes => Stamp(wire[p]) <= Top
        BY <3>2 DEF Ordered, Inv
      <4>4. wire[p] \in Parts /\ evs[r] \in Turns => Stamp(wire[p]) # Stamp(evs[r])
        <5> SUFFICES ASSUME wire[p] \in Parts, evs[r] \in Turns
                     PROVE  Stamp(wire[p]) # Stamp(evs[r])
          OBVIOUS
        <5>1. Stamp(evs[r]) = 4 * evs[r].item[2] + 4 /\ evs[r].item[2] \in Nat
          BY <4>2, StampType
        <5>2. wire[p].item[2] \in Nat
              /\ \E k \in 1..3 : Stamp(wire[p]) = 4 * wire[p].item[2] + k
          BY <4>2, StampType
        <5> QED
          BY <5>1, <5>2, FourApart
      <4>5. /\ Stamp(wire[p]) \in Nat /\ Stamp(evs[r]) \in Nat
            /\ wire[p].item[2] \in Nat /\ evs[r].item[2] \in Nat
            /\ wire[p] \in Parts => wire[p] \notin Echoes
            /\ IF evs[r] \in Echoes THEN evs[r].item[2] > Begun
               ELSE Stamp(evs[r]) > Top \/ (evs[r] \in Turns /\ Stamp(evs[r]) >= Top)
        BY <1>1, <4>2, EventKinds DEF Fresh
      <4>6. CASE wire[p] \in Echoes /\ evs[r] \in Echoes
        <5>1. wire[p].item[2] <= Begun /\ evs[r].item[2] > Begun
          BY <4>3, <4>5, <4>6
        <5>2. wire[p].item[2] < evs[r].item[2]
          BY <1>0, <4>5, <5>1, Parted
        <5> QED
          BY <4>2, <4>5, <4>6, <5>2, SMTT(30)
      <4>7. CASE wire[p] \notin Echoes /\ evs[r] \notin Echoes
        <5>1. Stamp(wire[p]) <= Top /\ Stamp(evs[r]) >= Top
          BY <1>0, <4>3, <4>5, <4>7
        <5>2. wire[p] \in Parts => Stamp(wire[p]) < Stamp(evs[r])
          BY <1>0, <4>3, <4>4, <4>5, <4>7, <5>1, SMTT(30)
        <5> QED
          BY <1>0, <4>2, <4>5, <4>7, <5>1, <5>2
      <4> QED
        BY <4>2, <4>6, <4>7
    <3>3. CASE p \notin 1..Len(wire) /\ q \notin 1..Len(wire)
      <4>1. PICK r \in 1..Len(ext), t \in 1..Len(ext) : p = Len(wire) + r /\ q = Len(wire) + t
        BY <1>4, <3>3
      <4>2. /\ wire'[p] = evs[r] /\ wire'[q] = evs[t] /\ r < t
            /\ r \in 1..Len(evs) /\ t \in 1..Len(evs)
        BY <1>1, <1>3, <1>4, <4>1, SMTT(30)
      <4> QED
        BY <4>2 DEF InOrder
    <3> QED
      BY <1>1, <1>4, <3>1, <3>2, <3>3
  <2> QED
    BY <2>1, <2>2 DEF Ordered, Inv
<1>7. Behind'
  <2>1. \A p \in 1..Len(ext) :
          IF ext[p] \in Echoes
          THEN ext[p].item[2] > Begun
          ELSE \A n \in Nat : (4 * n + 2 <= Top => Stamp(ext[p]) > 4 * n + 2)
                           /\ (4 * n + 3 <= Top => Stamp(ext[p]) > 4 * n + 3)
    <3> TAKE p \in 1..Len(ext)
    <3>1. ext[p] = evs[p] /\ p \in 1..Len(evs) /\ evs[p] \in Events
      BY <1>1, <1>3, ElementOfSeq
    <3>2. evs[p] \in Turns => Stamp(evs[p]) = 4 * evs[p].item[2] + 4
      BY <3>1, StampType
    <3>3. CASE evs[p] \in Echoes
      BY <3>1, <3>3 DEF Fresh
    <3>4. CASE evs[p] \notin Echoes
      <4>1. /\ Stamp(evs[p]) \in Nat /\ evs[p].item[2] \in Nat
            /\ Stamp(evs[p]) > Top \/ (evs[p] \in Turns /\ Stamp(evs[p]) >= Top)
        BY <1>1, <3>1, <3>4 DEF Fresh
      <4>2. \A n \in Nat : (4 * n + 2 <= Top => Stamp(evs[p]) > 4 * n + 2)
                          /\ (4 * n + 3 <= Top => Stamp(evs[p]) > 4 * n + 3)
        BY <1>0, <3>2, <4>1, Above
      <4> QED
        BY <3>1, <3>4, <4>2
    <3> QED
      BY <3>3, <3>4
  <2>2. /\ \A i \in pend : i[2] \in Nat
        /\ \A m \in 1..Len(log) : \A i \in log[m].items : i[2] \in Nat
    <3>1. \A m \in 1..Len(log) : log[m] \in [full : BOOLEAN, items : SUBSET (Spoken \cup ({"user"} \X Nat))]
      BY ElementOfSeq DEF Shaped, Inv
    <3> QED
      BY <3>1 DEF Shaped, Spoken, Inv
  <2>3. /\ \A i \in pend : 4 * i[2] + 2 <= Top'
        /\ \A m \in 1..Len(log) : \A i \in log[m].items :
             IF i[1] = "user" THEN i[2] <= Begun' ELSE 4 * i[2] + 3 <= Top'
    <3>1. /\ \A i \in pend : 4 * i[2] + 2 <= Top
          /\ \A m \in 1..Len(log) : \A i \in log[m].items :
               IF i[1] = "user" THEN i[2] <= Begun ELSE 4 * i[2] + 3 <= Top
      BY DEF Behind, Inv
    <3> QED
      BY <1>0, <2>2, <3>1, Grown
  <2>4. ASSUME NEW p \in 1..Len(wire')
        PROVE  IF wire'[p] \in Echoes
               THEN \A m \in 1..Len(log) : \A i \in log[m].items :
                      i[1] = "user" => wire'[p].item[2] > i[2]
               ELSE /\ \A i \in pend : Stamp(wire'[p]) > 4 * i[2] + 2
                    /\ \A m \in 1..Len(log) : \A i \in log[m].items :
                         i[1] # "user" => Stamp(wire'[p]) > 4 * i[2] + 3
    <3>1. CASE p \in 1..Len(wire)
      BY <1>4, <3>1 DEF Behind, Inv
    <3>2. CASE \E q \in 1..Len(ext) : p = Len(wire) + q
      <4>1. PICK q \in 1..Len(ext) : p = Len(wire) + q
        BY <3>2
      <4>2. wire'[p] = ext[q] /\ ext[q] \in Events
        BY <1>3, <1>4, <4>1, ElementOfSeq
      <4> QED
        <5>1. /\ \A i \in pend : 4 * i[2] + 2 <= Top
              /\ \A m \in 1..Len(log) : \A i \in log[m].items :
                   IF i[1] = "user" THEN i[2] <= Begun ELSE 4 * i[2] + 3 <= Top
          BY DEF Behind, Inv
        <5>2. CASE ext[q] \in Echoes
          <6>1. ext[q].item[2] \in Nat /\ ext[q].item[2] > Begun
            BY <1>1, <2>1, <4>2, <5>2
          <6>2. \A m \in 1..Len(log) : \A i \in log[m].items :
                  i[1] = "user" => i[2] \in Nat /\ i[2] <= Begun
            BY <2>2, <5>1
          <6> QED
            BY <1>0, <4>2, <5>2, <6>1, <6>2, SMTT(30)
        <5>3. CASE ext[q] \notin Echoes
          BY <2>1, <2>2, <4>2, <5>1, <5>3
        <5> QED
          BY <4>2, <5>2, <5>3
    <3> QED
      BY <1>4, <3>1, <3>2
  <2> QED
    BY <1>5, <2>3, <2>4 DEF Behind, Inv
<1>8. Apart'
  BY <1>5 DEF Apart, NothingTwice, Inv
<1>9. Known'
  <2> SUFFICES ASSUME ~lost' PROVE Told(wire')
    BY <1>5 DEF Known, Told, Inv
  <2>1. ext = evs /\ Told(wire)
    BY <1>2, <1>5 DEF Known, Inv
  <2> SUFFICES ASSUME NEW p \in 1..Len(wire')
               PROVE  /\ wire'[p] \in Echoes => kind # "codex"
                      /\ wire'[p].ev = "delta" /\ wire'[p].item[1] = "reason" =>
                          \/ wire'[p].item \in think
                          \/ \E q \in 1..p - 1 : wire'[q] = [ev |-> "open", item |-> wire'[p].item]
                      /\ wire'[p].ev = "final" /\ wire'[p] \in Echoes =>
                          \/ wire'[p].item[2] \in knows
                          \/ \E q \in 1..p - 1 : wire'[q] = [ev |-> "role", item |-> wire'[p].item]
    BY <1>5 DEF Told
  <2>2. CASE p \in 1..Len(wire)
    <3>1. \A q \in 1..p - 1 : q \in 1..Len(wire) /\ wire'[q] = wire[q]
      <4>1. Len(wire) \in Nat
        BY <1>1
      <4>2. \A q \in 1..p - 1 : q \in 1..Len(wire)
        BY <2>2, <4>1
      <4> QED
        BY <1>4, <4>2
    <3>2. /\ wire[p] \in Echoes => kind # "codex"
          /\ wire[p].ev = "delta" /\ wire[p].item[1] = "reason" =>
               \/ wire[p].item \in think
               \/ \E q \in 1..p - 1 : wire[q] = [ev |-> "open", item |-> wire[p].item]
          /\ wire[p].ev = "final" /\ wire[p] \in Echoes =>
               \/ wire[p].item[2] \in knows
               \/ \E q \in 1..p - 1 : wire[q] = [ev |-> "role", item |-> wire[p].item]
      BY <2>1, <2>2 DEF Told
    <3>3. wire'[p] = wire[p]
      BY <1>4, <2>2
    <3> QED
      BY <3>1, <3>2, <3>3
  <2>3. CASE \E q \in 1..Len(ext) : p = Len(wire) + q
    <3>1. PICK q \in 1..Len(ext) : p = Len(wire) + q
      BY <2>3
    <3>2. wire'[p] = evs[q]
      BY <1>3, <1>4, <3>1
    <3>3. \A r \in 1..q - 1 : Len(wire) + r \in 1..p - 1 /\ wire'[Len(wire) + r] = evs[r]
      <4>1. Len(wire) \in Nat /\ Len(ext) \in Nat
        BY <1>1, <1>3
      <4>2. \A r \in 1..q - 1 : r \in 1..Len(ext) /\ Len(wire) + r \in 1..p - 1
        BY <3>1, <4>1
      <4> QED
        BY <1>3, <1>4, <4>2
    <3>4. /\ evs[q] \in Echoes => kind # "codex"
          /\ evs[q].ev = "delta" /\ evs[q].item[1] = "reason" =>
               \/ evs[q].item \in think
               \/ \E r \in 1..q - 1 : evs[r] = [ev |-> "open", item |-> evs[q].item]
          /\ evs[q].ev = "final" /\ evs[q] \in Echoes =>
               \/ evs[q].item[2] \in knows
               \/ \E r \in 1..q - 1 : evs[r] = [ev |-> "role", item |-> evs[q].item]
      BY <2>1 DEF Told
    <3> QED
      BY <3>2, <3>3, <3>4
  <2> QED
    BY <1>4, <2>2, <2>3
<1> QED
  BY <1>6, <1>7, <1>8, <1>9

\* What is left on the wire is where it was.
LEMMA Shifted ==
  ASSUME Inv, Shaped', Top' >= Top, Begun' >= Begun, NEW d \in Nat,
         \A p \in 1..Len(wire') : p + d \in 1..Len(wire) /\ wire'[p] = wire[p + d]
  PROVE  Ordered'
<1>0. Top \in Nat /\ Begun \in Nat /\ Top' \in Nat /\ Begun' \in Nat
  BY TopType DEF Inv
<1>1. Ordered /\ Len(wire') \in Nat /\ wire \in Seq(Events)
  BY LenProperties DEF Inv, Shaped
<1>2. ASSUME NEW p \in 1..Len(wire')
      PROVE  IF wire'[p] \in Echoes THEN wire'[p].item[2] <= Begun' ELSE Stamp(wire'[p]) <= Top'
  <2>1. /\ IF wire'[p] \in Echoes THEN wire'[p].item[2] <= Begun ELSE Stamp(wire'[p]) <= Top
        /\ wire'[p] \in Events
    BY <1>1, ElementOfSeq DEF Ordered
  <2>2. wire'[p].item[2] \in Nat /\ Stamp(wire'[p]) \in Nat
    BY <2>1, StampType
  <2> QED
    BY <1>0, <2>1, <2>2, SMTT(30)
<1>3. InOrder(wire')
  <2> SUFFICES ASSUME NEW p \in 1..Len(wire'), NEW q \in 1..Len(wire'), p < q
               PROVE  /\ wire'[p] \notin Echoes /\ wire'[q] \notin Echoes =>
                           /\ Stamp(wire'[p]) <= Stamp(wire'[q])
                           /\ wire'[p] \in Parts => Stamp(wire'[p]) < Stamp(wire'[q])
                      /\ wire'[p] \in Echoes /\ wire'[q] \in Echoes =>
                           /\ wire'[p].item[2] <= wire'[q].item[2]
                           /\ wire'[p].ev = "final" => wire'[p].item[2] < wire'[q].item[2]
    BY DEF InOrder
  <2>1. p + d < q + d /\ p + d \in 1..Len(wire) /\ q + d \in 1..Len(wire)
    BY <1>1
  <2> QED
    BY <1>1, <2>1 DEF Ordered, InOrder
<1> QED
  BY <1>2, <1>3 DEF Ordered

\* Events are lost, and pieces are dropped.
LEMMA CutKeeps ==
  ASSUME Inv, Shaped', Top' >= Top, Begun' >= Begun,
         \/ wire' \in {wire, <<>>}
         \/ wire # <<>> /\ wire' = Tail(wire),
         kind' = kind, wire' # wire => lost', lost => lost',
         (knows' = knows /\ think' = think) \/ lost',
         pend' \subseteq pend, log' = log
  PROVE  Ordered' /\ Behind' /\ Apart' /\ Known'
<1>0. /\ Top \in Nat /\ Begun \in Nat /\ Top' \in Nat /\ Begun' \in Nat
      /\ wire \in Seq(Events) /\ Len(wire) \in Nat
  BY TopType, LenProperties DEF Shaped, Inv
<1>1. PICK d \in Nat : \A p \in 1..Len(wire') : p + d \in 1..Len(wire) /\ wire'[p] = wire[p + d]
  <2>1. CASE wire' = wire
    BY <1>0, <2>1
  <2>2. CASE wire' = <<>>
    BY <2>2, EmptySeq
  <2>3. CASE wire # <<>> /\ wire' = Tail(wire)
    <3>1. \A p \in 1..Len(wire') : p + 1 \in 1..Len(wire) /\ wire'[p] = wire[p + 1]
      BY <1>0, <2>3, TailFacts
    <3> QED
      BY <3>1
  <2> QED
    BY <2>1, <2>2, <2>3
<1>2. Ordered'
  BY <1>1, Shifted
<1>3. Behind'
  <2>1. /\ \A i \in pend' : 4 * i[2] + 2 <= Top
        /\ \A m \in 1..Len(log) : \A i \in log[m].items :
             IF i[1] = "user" THEN i[2] <= Begun ELSE 4 * i[2] + 3 <= Top
    BY DEF Behind, Inv
  <2>2. /\ \A i \in pend' : i[2] \in Nat
        /\ \A m \in 1..Len(log) : \A i \in log[m].items : i[2] \in Nat
    <3>1. \A m \in 1..Len(log) : log[m] \in [full : BOOLEAN, items : SUBSET (Spoken \cup ({"user"} \X Nat))]
      BY ElementOfSeq DEF Shaped, Inv
    <3> QED
      BY <3>1 DEF Shaped, Spoken, Inv
  <2>3. /\ \A i \in pend' : 4 * i[2] + 2 <= Top'
        /\ \A m \in 1..Len(log) : \A i \in log[m].items :
             IF i[1] = "user" THEN i[2] <= Begun' ELSE 4 * i[2] + 3 <= Top'
    BY <1>0, <2>1, <2>2, Grown
  <2>4. ASSUME NEW p \in 1..Len(wire')
        PROVE  IF wire'[p] \in Echoes
               THEN \A m \in 1..Len(log) : \A i \in log[m].items :
                      i[1] = "user" => wire'[p].item[2] > i[2]
               ELSE /\ \A i \in pend' : Stamp(wire'[p]) > 4 * i[2] + 2
                    /\ \A m \in 1..Len(log) : \A i \in log[m].items :
                         i[1] # "user" => Stamp(wire'[p]) > 4 * i[2] + 3
    BY <1>1 DEF Behind, Inv
  <2> QED
    BY <2>3, <2>4 DEF Behind, Inv
<1>4. Apart'
  <2>1. \A i : i \in pend' => i \in pend
    OBVIOUS
  <2> QED
    BY <2>1, SMTT(30) DEF Apart, NothingTwice, Shaped, Inv
<1>5. Known'
  BY DEF Known, Told, Inv
<1> QED
  BY <1>2, <1>3, <1>4, <1>5

-----------------------------------------------------------------------------
(* An event arrives.                                                        *)

Message == [full : BOOLEAN, items : SUBSET (Spoken \cup ({"user"} \X Nat))]

\* What the bridge and handleEvent make of the event: a piece to be held, a
\* message or a part to be stored, the end of a turn, or nothing.
LEMMA Handled ==
  ASSUME Inv, Deliver, NEW h, h = wire[1]
  PROVE  /\ h \in Events
         /\ \/ /\ h.ev = "delta" /\ h \in Parts /\ h.item \in {"text", "reason"} \X Nat
               /\ pend' = pend \cup {h.item} /\ log' = log
               /\ h.item[1] = "reason" => lost
            \/ /\ h.ev = "final" /\ h \in Echoes \cup Parts
               /\ log' = Append(log, [full |-> TRUE, items |-> {h.item}])
               /\ pend' \subseteq pend /\ (h.item[1] = "text" => pend' = {})
               /\ ~lost => h \in Parts
            \/ /\ h.ev = "idle" /\ h \in Turns
               /\ pend' = {} /\ log' = Flushed(pend)
            \/ /\ pend' = pend /\ log' = log
               /\ h.ev = "final" => h \in Echoes
<1>1. h \in Events /\ wire # <<>> /\ h = Head(wire) /\ 1 \in 1..Len(wire)
  BY TailFacts DEF Shaped, Deliver, Inv
<1>2. HandleEvent(Meaning(h), h.item)
  BY <1>1 DEF Deliver
<1>3. ~lost =>
        /\ h \in Echoes => kind # "codex"
        /\ h.ev = "delta" /\ h.item[1] = "reason" => h.item \in think
        /\ h.ev = "final" /\ h \in Echoes => h.item[2] \in knows
  <2>1. \A q : q \notin 1..1 - 1
    OBVIOUS
  <2>2. ~lost => Told(wire)
    BY DEF Known, Inv
  <2> QED
    BY <1>1, <2>1, <2>2 DEF Told
<1>4. CASE h \in Echoes
  <2>1. CASE h.ev = "role"
    BY <1>1, <1>2, <1>4, <2>1
    DEF HandleEvent, Meaning, MapCodexEvent, HandleSSEEvent, SessionEvent
  <2>2. CASE h.ev = "final" /\ h.item[1] = "user"
    <3>1. CASE kind = "codex"
      BY <1>1, <1>2, <1>3, <1>4, <2>2, <3>1 DEF HandleEvent, Meaning, MapCodexEvent
    <3>2. CASE kind # "codex"
      BY <1>1, <1>2, <1>3, <1>4, <2>2, <3>2
      DEF HandleEvent, Meaning, HandleSSEEvent, MessagePart, Cleared
    <3> QED
      BY <3>1, <3>2
  <2> QED
    BY <1>1, <1>4, <2>1, <2>2, EventKinds
<1>5. CASE h \in Parts
  <2>1. CASE h.ev = "open"
    BY <1>1, <1>2, <1>5, <2>1
    DEF HandleEvent, Meaning, MapCodexEvent, HandleSSEEvent, SessionEvent
  <2>2. CASE h.ev = "delta"
    <3>1. h.item \in {"text", "reason"} \X Nat
      BY <1>1, <2>2, EventKinds
    <3>2. CASE Meaning(h) = "message.delta"
      BY <1>1, <1>2, <1>3, <1>5, <2>2, <3>1, <3>2
      DEF HandleEvent, Meaning, MapCodexEvent, HandleSSEEvent, MessagePart, PartDelta
    <3>3. CASE Meaning(h) = "nothing"
      BY <1>1, <1>2, <2>2, <3>3 DEF HandleEvent
    <3>4. Meaning(h) \in {"message.delta", "nothing"}
      <4>1. h.item[1] \in {"text", "reason"} /\ h.ev = "delta"
        BY <3>1, <2>2
      <4>2. h.ev # "final" /\ h.ev # "idle" /\ h.ev # "error" /\ h.item[1] # "user"
        BY <4>1
      <4> QED
        <5>1. MapCodexEvent(h) \in {"message.delta", "nothing"}
          BY <4>1, <4>2 DEF MapCodexEvent
        <5>2. MessagePart(h) \in {"message.delta", "nothing"}
          <6>1. MessagePart(h) = IF h.item[1] = "text" THEN "message.delta" ELSE "nothing"
            BY <4>1, <4>2 DEF MessagePart
          <6> QED
            BY <6>1
        <5>3. PartDelta(h) \in {"message.delta", "nothing"}
          BY DEF PartDelta
        <5>4. HandleSSEEvent(h) \in {PartDelta(h), MessagePart(h)}
          BY <4>1, <4>2 DEF HandleSSEEvent
        <5> QED
          BY <5>1, <5>2, <5>3, <5>4 DEF Meaning
    <3> QED
      BY <3>2, <3>3, <3>4
  <2>3. CASE h.ev = "final"
    <3>1. h.item[1] \in {"text", "reason", "tool"}
      BY <1>1, <1>5, EventKinds DEF Spoken
    <3>2. Meaning(h) = IF h.item[1] = "text" THEN "message.completed" ELSE "part.completed"
      BY <2>3, <3>1 DEF Meaning, MapCodexEvent, HandleSSEEvent, MessagePart
    <3>3. log' = Append(log, [full |-> TRUE, items |-> {h.item}])
      BY <1>2, <3>2 DEF HandleEvent
    <3>4. pend' \subseteq pend /\ (h.item[1] = "text" => pend' = {})
      BY <1>2, <3>2 DEF HandleEvent, Cleared
    <3> QED
      BY <1>1, <1>5, <2>3, <3>3, <3>4
  <2> QED
    BY <1>1, <1>5, <2>1, <2>2, <2>3, EventKinds
<1>6. CASE h \in Turns
  <2>1. h.ev \in {"busy", "idle", "error"}
    BY <1>1, <1>6, EventKinds
  <2>2. Meaning(h) = CASE h.ev = "idle" -> "turn.completed"
                       [] h.ev = "error" -> "error"
                       [] OTHER -> "nothing"
    BY <2>1 DEF Meaning, MapCodexEvent, HandleSSEEvent, SessionEvent
  <2> QED
    BY <1>1, <1>2, <1>6, <2>1, <2>2 DEF HandleEvent
<1> QED
  BY <1>1, <1>4, <1>5, <1>6, EventKinds

\* A message is stored at the end.
LEMMA Stores ==
  ASSUME Shaped, NEW x \in Message, log' = Append(log, x)
  PROVE  /\ Len(log) \in Nat /\ Len(log') = Len(log) + 1
         /\ \A m \in 1..Len(log) : log'[m] = log[m]
         /\ log'[Len(log) + 1] = x
         /\ \A m \in 1..Len(log') : m \in 1..Len(log) \/ m = Len(log) + 1
<1>1. log \in Seq(Message)
  BY DEF Shaped, Message
<1>2. /\ Len(log) \in Nat /\ Len(log') = Len(log) + 1
      /\ \A m \in 1..Len(log) : log'[m] = log[m]
      /\ log'[Len(log) + 1] = x
  BY <1>1, AppendProperties, LenProperties
<1> QED
  BY <1>2

\* Delivering an event keeps what is stored behind what is on the wire.
LEMMA DeliverKeeps ==
  ASSUME Inv, Deliver, Shaped'
  PROVE  Ordered' /\ Behind' /\ Apart' /\ Known'
<1> DEFINE h == wire[1]
<1>1. /\ wire # <<>> /\ wire' = Tail(wire) /\ item' = item /\ sent' = sent /\ queued' = queued
      /\ lost' = lost /\ kind' = kind
  BY DEF Deliver, theAgent
<1>2. /\ wire \in Seq(Events) /\ Len(wire) \in Nat \ {0} /\ h \in Events
      /\ \A p \in 1..Len(wire') : p + 1 \in 1..Len(wire) /\ wire'[p] = wire[p + 1]
  BY <1>1, TailFacts DEF Shaped, Inv
<1>3. Top' = Top /\ Begun' = Begun /\ Top \in Nat /\ Begun \in Nat
  BY <1>1, TopType DEF Top, Begun, Nothing, Inv
<1>4. Ordered'
  <2>1. Top' >= Top /\ Begun' >= Begun /\ 1 \in Nat
    BY <1>3
  <2> QED
    BY <1>2, <2>1, Shifted
<1>5. /\ IF h \in Echoes THEN h.item[2] <= Begun ELSE Stamp(h) <= Top
      /\ h.item[2] \in Nat /\ Stamp(h) \in Nat
  BY <1>2, StampType DEF Ordered, Inv
\* what comes after h
<1>6. ASSUME NEW p \in 1..Len(wire')
      PROVE  /\ wire'[p] \in Events /\ Stamp(wire'[p]) \in Nat /\ wire'[p].item[2] \in Nat
             /\ wire'[p] \notin Echoes /\ h \notin Echoes =>
                  /\ Stamp(h) <= Stamp(wire'[p])
                  /\ h \in Parts => Stamp(h) < Stamp(wire'[p])
             /\ wire'[p] \in Echoes /\ h \in Echoes /\ h.ev = "final" =>
                  h.item[2] < wire'[p].item[2]
             /\ IF wire'[p] \in Echoes
                THEN \A m \in 1..Len(log) : \A i \in log[m].items :
                       i[1] = "user" => wire'[p].item[2] > i[2]
                ELSE /\ \A i \in pend : Stamp(wire'[p]) > 4 * i[2] + 2
                     /\ \A m \in 1..Len(log) : \A i \in log[m].items :
                          i[1] # "user" => Stamp(wire'[p]) > 4 * i[2] + 3
  <2>1. p + 1 \in 1..Len(wire) /\ wire'[p] = wire[p + 1] /\ 1 < p + 1 /\ 1 \in 1..Len(wire)
    BY <1>2
  <2>2. wire[p + 1] \in Events
    BY <1>2, <2>1, ElementOfSeq
  <2>3. Stamp(wire'[p]) \in Nat /\ wire'[p].item[2] \in Nat
    BY <2>1, <2>2, StampType
  <2>4. /\ wire[p + 1] \notin Echoes /\ h \notin Echoes =>
             /\ Stamp(h) <= Stamp(wire[p + 1])
             /\ h \in Parts => Stamp(h) < Stamp(wire[p + 1])
        /\ wire[p + 1] \in Echoes /\ h \in Echoes /\ h.ev = "final" =>
             h.item[2] < wire[p + 1].item[2]
    BY <2>1 DEF Ordered, InOrder, Inv
  <2>5. IF wire[p + 1] \in Echoes
        THEN \A m \in 1..Len(log) : \A i \in log[m].items :
               i[1] = "user" => wire[p + 1].item[2] > i[2]
        ELSE /\ \A i \in pend : Stamp(wire[p + 1]) > 4 * i[2] + 2
             /\ \A m \in 1..Len(log) : \A i \in log[m].items :
                  i[1] # "user" => Stamp(wire[p + 1]) > 4 * i[2] + 3
    BY <2>1 DEF Behind, Inv
  <2> QED
    BY <2>1, <2>2, <2>3, <2>4, <2>5
\* what is held and stored, against h
<1>7. /\ \A i \in pend : i \in {"text", "reason"} \X Nat /\ 4 * i[2] + 2 <= Top
      /\ h \notin Echoes => \A i \in pend : Stamp(h) > 4 * i[2] + 2
      /\ \A m \in 1..Len(log) : \A i \in log[m].items :
           /\ i \in Spoken \cup ({"user"} \X Nat) /\ i[2] \in Nat
           /\ IF i[1] = "user" THEN i[2] <= Begun ELSE 4 * i[2] + 3 <= Top
           /\ IF h \in Echoes THEN i[1] = "user" => h.item[2] > i[2]
              ELSE i[1] # "user" => Stamp(h) > 4 * i[2] + 3
  <2>1. \A m \in 1..Len(log) : log[m] \in Message
    BY ElementOfSeq DEF Shaped, Message, Inv
  <2>2. \A i \in Spoken \cup ({"user"} \X Nat) : i[2] \in Nat
    BY DEF Spoken
  <2>3. 1 \in 1..Len(wire)
    BY <1>2
  <2> QED
    BY <2>1, <2>2, <2>3 DEF Shaped, Behind, Message, Inv
<1>8. Known'
  <2> SUFFICES ASSUME ~lost PROVE Told(wire)'
    BY <1>1 DEF Known, Inv
  <2>1. Told(wire)
    BY DEF Known, Inv
  <2>2. /\ knows' = IF h.ev = "role" THEN knows \cup {h.item[2]} ELSE knows
        /\ think' = IF h.ev # "role" /\ h.item[1] = "reason" THEN think \cup {h.item} ELSE think
    <3>1. /\ knows' = IF Head(wire).ev = "role" THEN knows \cup {Head(wire).item[2]} ELSE knows
          /\ think' = IF Head(wire).ev # "role" /\ Head(wire).item[1] = "reason"
                      THEN think \cup {Head(wire).item} ELSE think
      BY DEF Deliver
    <3>2. Head(wire) = h
      BY <1>1, <1>2, TailFacts
    <3> QED
      BY <3>1, <3>2
  <2> SUFFICES ASSUME NEW p \in 1..Len(wire')
               PROVE  /\ wire'[p] \in Echoes => kind # "codex"
                      /\ wire'[p].ev = "delta" /\ wire'[p].item[1] = "reason" =>
                          \/ wire'[p].item \in think'
                          \/ \E q \in 1..p - 1 : wire'[q] = [ev |-> "open", item |-> wire'[p].item]
                      /\ wire'[p].ev = "final" /\ wire'[p] \in Echoes =>
                          \/ wire'[p].item[2] \in knows'
                          \/ \E q \in 1..p - 1 : wire'[q] = [ev |-> "role", item |-> wire'[p].item]
    BY <1>1 DEF Told
  <2> DEFINE x == wire'[p]
  <2>3. x = wire'[p]
    OBVIOUS
  <2> HIDE DEF x
  <2>4. /\ x \in Echoes => kind # "codex"
        /\ x.ev = "delta" /\ x.item[1] = "reason" =>
             \/ x.item \in think
             \/ \E q \in 1..p : wire[q] = [ev |-> "open", item |-> x.item]
        /\ x.ev = "final" /\ x \in Echoes =>
             \/ x.item[2] \in knows
             \/ \E q \in 1..p : wire[q] = [ev |-> "role", item |-> x.item]
    <3>1. p + 1 \in 1..Len(wire) /\ x = wire[p + 1] /\ (p + 1) - 1 = p
      BY <1>2, <2>3
    <3> QED
      BY <2>1, <3>1 DEF Told
  <2>5. \A q \in 1..p : q = 1 \/ (q - 1 \in 1..p - 1 /\ wire'[q - 1] = wire[q])
    BY <1>2
  <2>6. /\ h.ev = "open" /\ h.item[1] = "reason" => h.item \in think'
        /\ h.ev = "role" => h.item[2] \in knows'
        /\ knows \subseteq knows' /\ think \subseteq think'
    BY <2>2
  <2>7. ASSUME NEW e, NEW q \in 1..p, wire[q] = [ev |-> e, item |-> x.item]
        PROVE  \/ h.ev = e /\ h.item = x.item
               \/ \E r \in 1..p - 1 : wire'[r] = [ev |-> e, item |-> x.item]
    BY <2>5, <2>7
  <2> QED
    BY <2>3, <2>4, <2>6, <2>7
\* a piece is held
<1>9. CASE /\ h.ev = "delta" /\ h \in Parts /\ h.item \in {"text", "reason"} \X Nat
           /\ pend' = pend \cup {h.item} /\ log' = log
           /\ h.item[1] = "reason" => lost
  <2>1. h \notin Echoes /\ Stamp(h) = 4 * h.item[2] + 2
    BY <1>2, <1>9, EventKinds, StampType
  <2>2. Behind'
    <3>1. \A i \in pend' : i[2] \in Nat /\ 4 * i[2] + 2 <= Top
      BY <1>5, <1>7, <1>9, <2>1
    <3>2. ASSUME NEW p \in 1..Len(wire'), wire'[p] \notin Echoes, NEW i \in pend'
          PROVE  Stamp(wire'[p]) > 4 * i[2] + 2
      BY <1>5, <1>6, <1>9, <2>1, <3>2
    <3> QED
      BY <1>3, <1>6, <1>7, <1>9, <3>1, <3>2 DEF Behind, Inv
  <2>3. ASSUME NEW m \in 1..Len(log), h.item \in log[m].items
        PROVE  FALSE
    BY <1>5, <1>7, <1>9, <2>1, <2>3, SMTT(30)
  <2>4. Apart'
    BY <1>1, <1>9, <2>3 DEF Apart, NothingTwice, Inv
  <2> QED
    BY <1>4, <1>8, <2>2, <2>4
\* a message is stored
<1>10. CASE /\ h.ev = "final" /\ h \in Echoes \cup Parts
            /\ log' = Append(log, [full |-> TRUE, items |-> {h.item}])
            /\ pend' \subseteq pend /\ (h.item[1] = "text" => pend' = {})
  <2>1. h.item \in Spoken \cup ({"user"} \X Nat) /\ (h \in Echoes <=> h.item[1] = "user")
    BY <1>10, <1>2, EventKinds DEF Spoken, Echoes
  <2>2. Stamp(h) = 4 * h.item[2] + 3
    BY <1>2, <1>10, StampType
  <2>3. [full |-> TRUE, items |-> {h.item}] \in Message
    BY <2>1 DEF Message
  <2>4. /\ \A m \in 1..Len(log) : log'[m] = log[m]
        /\ Len(log) \in Nat /\ Len(log') = Len(log) + 1
        /\ log'[Len(log) + 1] = [full |-> TRUE, items |-> {h.item}]
        /\ \A m \in 1..Len(log') : m \in 1..Len(log) \/ m = Len(log) + 1
    BY <1>10, <2>3, Stores
  <2>5. \A m \in 1..Len(log') : \A i \in log'[m].items :
          (m \in 1..Len(log) /\ i \in log[m].items) \/ (m = Len(log) + 1 /\ i = h.item)
    BY <2>4
  <2>6. Behind'
    <3>1. \A m \in 1..Len(log') : \A i \in log'[m].items :
            IF i[1] = "user" THEN i[2] <= Begun ELSE 4 * i[2] + 3 <= Top
      BY <1>5, <1>7, <2>1, <2>2, <2>5
    <3>2. ASSUME NEW p \in 1..Len(wire'), NEW m \in 1..Len(log'), NEW i \in log'[m].items
          PROVE  IF wire'[p] \in Echoes THEN i[1] = "user" => wire'[p].item[2] > i[2]
                 ELSE i[1] # "user" => Stamp(wire'[p]) > 4 * i[2] + 3
      <4>1. CASE m \in 1..Len(log) /\ i \in log[m].items
        BY <1>6, <4>1
      <4>2. CASE i = h.item
        <5>1. CASE h \in Echoes
          BY <1>5, <1>6, <1>10, <2>1, <4>2, <5>1
        <5>2. CASE h \notin Echoes
          <6>1. h \in Parts
            BY <1>10, <5>2
          <6> QED
            BY <1>5, <1>6, <2>1, <2>2, <4>2, <5>2, <6>1
        <5> QED
          BY <5>1, <5>2
      <4> QED
        BY <2>5, <4>1, <4>2
    <3>3. \A i \in pend' : i \in pend
      BY <1>10
    <3> QED
      BY <1>3, <1>6, <1>7, <3>1, <3>2, <3>3 DEF Behind, Inv
  <2>7. ASSUME NEW m \in 1..Len(log), h.item \in log[m].items
        PROVE  FALSE
    BY <1>5, <1>7, <2>1, <2>2, <2>7, SMTT(30)
  <2>8. ASSUME h.item \in pend'
        PROVE  h.item[1] = "reason"
    BY <1>10, <1>7, <2>8
  <2>9. Apart'
    <3>1. \A i \in pend' : \A m \in 1..Len(log') : i \in log'[m].items => i[1] = "reason"
      BY <1>10, <2>5, <2>8 DEF Apart, Inv
    <3>2. NothingTwice'
      <4> SUFFICES ASSUME NEW m \in 1..Len(log'), NEW n \in 1..Len(log'), m # n,
                          NEW i \in log'[m].items \cap log'[n].items
                   PROVE  i[1] = "reason" /\ lost
        BY <1>1 DEF NothingTwice
      <4>1. CASE m \in 1..Len(log) /\ n \in 1..Len(log)
        BY <2>4, <4>1 DEF Apart, NothingTwice, Inv
      <4>2. CASE m \notin 1..Len(log) \/ n \notin 1..Len(log)
        BY <2>4, <2>5, <2>7, <4>2
      <4> QED
        BY <4>1, <4>2
    <3> QED
      BY <1>1, <1>10, <3>1, <3>2 DEF Apart, Inv
  <2> QED
    BY <1>4, <1>8, <2>6, <2>9
\* neither
<1>12. ASSUME pend' = pend, log' = log
       PROVE  Behind' /\ Apart'
  <2>1. Behind'
    <3>1. \A m \in 1..Len(log) : \A i \in log[m].items :
            IF i[1] = "user" THEN i[2] <= Begun ELSE 4 * i[2] + 3 <= Top
      BY <1>7
    <3>2. \A p \in 1..Len(wire') :
            IF wire'[p] \in Echoes
            THEN \A m \in 1..Len(log) : \A i \in log[m].items :
                   i[1] = "user" => wire'[p].item[2] > i[2]
            ELSE /\ \A i \in pend : Stamp(wire'[p]) > 4 * i[2] + 2
                 /\ \A m \in 1..Len(log) : \A i \in log[m].items :
                      i[1] # "user" => Stamp(wire'[p]) > 4 * i[2] + 3
      BY <1>6
    <3>3. \A i \in pend : 4 * i[2] + 2 <= Top
      BY <1>7
    <3> QED
      BY <1>3, <1>12, <3>1, <3>2, <3>3 DEF Behind, Inv
  <2>2. Apart'
    BY <1>1, <1>12 DEF Apart, NothingTwice, Inv
  <2> QED
    BY <2>1, <2>2
\* a turn is over
<1>11. CASE /\ h.ev = "idle" /\ h \in Turns
            /\ pend' = {} /\ log' = Flushed(pend)
  <2>1. h \notin Echoes /\ Stamp(h) = 4 * h.item[2] + 4
    BY <1>2, <1>11, EventKinds, StampType
  <2>2. CASE pend = {}
    <3>1. log' = log /\ pend' = pend
      BY <1>11, <2>2 DEF Flushed
    <3> QED
      BY <1>4, <1>8, <1>12, <3>1
  <2>3. CASE pend # {}
    <3>1. log' = Append(log, [full |-> FALSE, items |-> pend])
      BY <1>11, <2>3 DEF Flushed
    <3>2. [full |-> FALSE, items |-> pend] \in Message
      BY DEF Shaped, Message, Spoken, Inv
    <3>3. /\ \A m \in 1..Len(log) : log'[m] = log[m]
          /\ Len(log) \in Nat /\ Len(log') = Len(log) + 1
          /\ log'[Len(log) + 1] = [full |-> FALSE, items |-> pend]
          /\ \A m \in 1..Len(log') : m \in 1..Len(log) \/ m = Len(log) + 1
      BY <3>1, <3>2, Stores
    <3>4. \A m \in 1..Len(log') : \A i \in log'[m].items :
            (m \in 1..Len(log) /\ i \in log[m].items) \/ (m = Len(log) + 1 /\ i \in pend)
      BY <3>3
    <3>5. \A i \in pend : i[1] # "user" /\ i[2] \in Nat /\ 4 * i[2] + 4 <= Stamp(h)
      <4> TAKE i \in pend
      <4>1. i \in {"text", "reason"} \X Nat /\ Stamp(h) > 4 * i[2] + 2
        BY <1>7, <2>1
      <4>2. i[1] # "user" /\ i[2] \in Nat /\ h.item[2] \in Nat
        BY <1>5, <4>1
      <4> QED
        BY <2>1, <4>1, <4>2, Reached
    <3>6. Behind'
      <4>1. \A m \in 1..Len(log') : \A i \in log'[m].items :
              IF i[1] = "user" THEN i[2] <= Begun ELSE 4 * i[2] + 3 <= Top
        <5>1. \A i \in pend : i[1] # "user" /\ 4 * i[2] + 3 <= Top
          BY <1>3, <1>5, <2>1, <3>5
        <5> QED
          BY <1>7, <3>4, <5>1
      <4>2. ASSUME NEW p \in 1..Len(wire'), NEW m \in 1..Len(log'), NEW i \in log'[m].items
            PROVE  IF wire'[p] \in Echoes THEN i[1] = "user" => wire'[p].item[2] > i[2]
                   ELSE i[1] # "user" => Stamp(wire'[p]) > 4 * i[2] + 3
        <5>1. CASE m \in 1..Len(log) /\ i \in log[m].items
          BY <1>6, <5>1
        <5>2. CASE i \in pend
          <6>1. i[1] # "user" /\ i[2] \in Nat /\ 4 * i[2] + 4 <= Stamp(h)
            BY <3>5, <5>2
          <6>2. CASE wire'[p] \in Echoes
            BY <6>1, <6>2
          <6>3. CASE wire'[p] \notin Echoes
            <7>1. Stamp(h) <= Stamp(wire'[p]) /\ Stamp(wire'[p]) \in Nat
              BY <1>6, <2>1, <6>3
            <7> QED
              BY <1>5, <6>1, <6>3, <7>1, SMTT(30)
          <6> QED
            BY <6>2, <6>3
        <5> QED
          BY <3>4, <5>1, <5>2
      <4> QED
        BY <1>3, <1>11, <4>1, <4>2 DEF Behind, Inv
    <3>7. NothingTwice'
      <4> SUFFICES ASSUME NEW m \in 1..Len(log'), NEW n \in 1..Len(log'), m # n,
                          NEW i \in log'[m].items \cap log'[n].items
                   PROVE  i[1] = "reason" /\ lost
        BY <1>1 DEF NothingTwice
      <4>1. CASE m \in 1..Len(log) /\ n \in 1..Len(log)
        BY <3>3, <4>1 DEF Apart, NothingTwice, Inv
      <4>2. CASE m \notin 1..Len(log) \/ n \notin 1..Len(log)
        BY <3>3, <3>4, <4>2 DEF Apart, Inv
      <4> QED
        BY <4>1, <4>2
    <3> QED
      BY <1>4, <1>8, <1>11, <3>6, <3>7 DEF Apart, Inv
  <2> QED
    BY <2>2, <2>3
<1> QED
  BY <1>4, <1>8, <1>9, <1>10, <1>11, <1>12, Handled

-----------------------------------------------------------------------------
(* What the history has of what was said.                                   *)

\* A message that is stored in full is one more, and the others stay.
LEMMA PlaceFacts ==
  ASSUME Shaped
  PROVE  /\ Stored \in Nat
         /\ \A x \in Message : log' = Append(log, x) =>
              /\ \A n \in 1..Len(log) : Place(n)' = Place(n)
              /\ Stored' = IF x.full THEN Stored + 1 ELSE Stored
<1> DEFINE S == {k \in 1..Len(log) : log[k].full}
<1>1. Len(log) \in Nat
  BY LenProperties DEF Shaped
<1>2. IsFiniteSet(S) /\ Stored = Cardinality(S) /\ Stored \in Nat
  <2>1. IsFiniteSet(1..Len(log)) /\ S \subseteq 1..Len(log)
    BY <1>1, FS_Interval
  <2>2. IsFiniteSet(S)
    BY <2>1, FS_Subset
  <2>3. Stored = Cardinality(S)
    BY DEF Stored, Place
  <2> QED
    BY <2>2, <2>3, FS_CardinalityType
<1>3. ASSUME NEW x \in Message, log' = Append(log, x)
      PROVE  /\ \A n \in 1..Len(log) : Place(n)' = Place(n)
             /\ Stored' = IF x.full THEN Stored + 1 ELSE Stored
  <2>1. /\ Len(log') = Len(log) + 1
        /\ \A m \in 1..Len(log) : log'[m] = log[m]
        /\ log'[Len(log) + 1] = x
    BY <1>3, Stores
  <2>2. ASSUME NEW n \in 1..Len(log)
        PROVE  Place(n)' = Place(n)
    <3>1. {k \in 1..n : log'[k].full} = {k \in 1..n : log[k].full}
      BY <1>1, <2>1
    <3> QED
      BY <3>1 DEF Place
  <2>3. Stored' = Cardinality({k \in 1..Len(log) + 1 : log'[k].full})
    BY <2>1 DEF Stored, Place
  <2>4. CASE x.full
    <3>1. {k \in 1..Len(log) + 1 : log'[k].full} = S \cup {Len(log) + 1}
      BY <1>1, <2>1, <2>4
    <3>2. Len(log) + 1 \notin S
      BY <1>1
    <3>3. Cardinality(S \cup {Len(log) + 1}) = Cardinality(S) + 1
      BY <1>2, <3>2, FS_AddElement
    <3>4. Stored' = Cardinality(S) + 1
      BY <2>3, <3>1, <3>3
    <3> QED
      BY <1>2, <2>2, <2>4, <3>4
  <2>5. CASE ~x.full
    <3>1. {k \in 1..Len(log) + 1 : log'[k].full} = S
      BY <1>1, <2>1, <2>5
    <3>2. Stored' = Cardinality(S)
      BY <2>3, <3>1
    <3> QED
      BY <1>2, <2>2, <2>5, <3>2
  <2> QED
    BY <2>2, <2>4, <2>5
<1> QED
  BY <1>2, <1>3

\* What was said and not stored is on the wire, and nothing else is.
LEMMA DeliverFaithful ==
  ASSUME Inv, Deliver, Shaped'
  PROVE  Faithful'
<1> DEFINE h == wire[1]
<1>1. /\ wire # <<>> /\ wire' = Tail(wire) /\ said' = said /\ lost' = lost
  BY DEF Deliver, theAgent
<1> SUFFICES ASSUME ~lost PROVE Faithful'
  BY <1>1 DEF Faithful, Inv
<1>2. /\ wire \in Seq(Events) /\ Len(wire) \in Nat \ {0} /\ h \in Events
      /\ Len(wire') = Len(wire) - 1
      /\ \A p \in 1..Len(wire') : p + 1 \in 1..Len(wire) /\ wire'[p] = wire[p + 1]
      /\ \A p \in 1..Len(wire) : p = 1 \/ (p - 1 \in 1..Len(wire') /\ wire'[p - 1] = wire[p])
  BY <1>1, TailFacts DEF Shaped, Inv
<1>3. /\ Len(said) \in Nat /\ Len(log) \in Nat /\ Stored \in Nat
      /\ \A k \in 1..Len(said) : said[k] \in Spoken /\ said[k][2] \in Nat
  <2>1. Len(said) \in Nat /\ Len(log) \in Nat /\ Stored \in Nat
    BY LenProperties, PlaceFacts DEF Shaped, Inv
  <2>2. \A k \in 1..Len(said) : said[k] \in Spoken
    BY ElementOfSeq DEF Shaped, Inv
  <2> QED
    BY <2>1, <2>2 DEF Spoken
<1>4. /\ Stored <= Len(said)
      /\ \A n \in 1..Len(log) :
           IF log[n].full THEN Place(n) \in 1..Stored /\ log[n].items = {said[Place(n)]}
           ELSE \A i \in log[n].items : i[1] = "text" /\ \A k \in 1..Len(said) : said[k] # i
      /\ \A k \in 1..Stored : \E n \in 1..Len(log) : log[n].items = {said[k]}
  BY DEF Faithful, Inv
<1>5. \A k \in Stored + 1..Len(said) :
        \E p \in 1..Len(wire) : wire[p] = [ev |-> "final", item |-> said[k]]
  BY DEF Faithful, Inv
<1>6. \A p \in 1..Len(wire) : wire[p].ev = "final" /\ wire[p] \in Parts =>
         \E k \in Stored + 1..Len(said) : wire[p].item = said[k]
  BY DEF Faithful, Inv
\* the wire without h, as long as h is not what was said
<1>7. ASSUME NEW k \in Stored + 1..Len(said), h # [ev |-> "final", item |-> said[k]]
      PROVE  [ev |-> "final", item |-> said[k]] \in {wire'[p] : p \in 1..Len(wire')}
  <2>1. PICK p \in 1..Len(wire) : wire[p] = [ev |-> "final", item |-> said[k]]
    BY <1>5
  <2>2. p - 1 \in 1..Len(wire') /\ wire'[p - 1] = wire[p]
    BY <1>2, <1>7, <2>1
  <2> QED
    BY <2>1, <2>2
<1>8. ASSUME NEW p \in 1..Len(wire'), wire'[p].ev = "final", wire'[p] \in Parts
      PROVE  \E k \in Stored + 1..Len(said) : wire'[p].item = said[k]
  <2>1. p + 1 \in 1..Len(wire) /\ wire'[p] = wire[p + 1]
    BY <1>2
  <2> QED
    BY <1>6, <1>8, <2>1
\* nothing is stored
<1>9. CASE log' = log /\ (h.ev = "final" => h \in Echoes)
  <2>1. \A k \in 1..Len(said) : h # [ev |-> "final", item |-> said[k]]
    <3> SUFFICES ASSUME NEW k \in 1..Len(said), h = [ev |-> "final", item |-> said[k]]
                 PROVE FALSE
      OBVIOUS
    <3>1. h \in Echoes /\ h.item = said[k]
      BY <1>9
    <3>2. h.item[1] = "user" /\ h.item \in Spoken
      BY <1>2, <1>3, <3>1, EventKinds
    <3> QED
      BY <3>2 DEF Spoken
  <2>2. Stored' = Stored /\ \A n : Place(n)' = Place(n)
    BY <1>9 DEF Stored, Place
  <2>3. \A k \in Stored + 1..Len(said) : k \in 1..Len(said)
    BY <1>3
  <2>4. \A k \in Stored + 1..Len(said) :
          [ev |-> "final", item |-> said[k]] \in {wire'[p] : p \in 1..Len(wire')}
    BY <1>7, <2>1, <2>3
  <2> QED
    BY <1>1, <1>4, <1>8, <1>9, <2>2, <2>4 DEF Faithful, Inv
\* what is finished is stored: it is the next
<1>10. CASE /\ h.ev = "final" /\ h \in Parts
            /\ log' = Append(log, [full |-> TRUE, items |-> {h.item}])
  <2>1. PICK k \in Stored + 1..Len(said) : h.item = said[k]
    BY <1>2, <1>6, <1>10
  <2>2. k = Stored + 1
    <3> SUFFICES ASSUME k # Stored + 1 PROVE FALSE
      OBVIOUS
    <3>1. Stored + 1 \in Stored + 1..Len(said) /\ Stored + 1 < k
          /\ Stored + 1 \in 1..Len(said) /\ k \in 1..Len(said)
      BY <1>3
    <3>2. PICK p \in 1..Len(wire) : wire[p] = [ev |-> "final", item |-> said[Stored + 1]]
      BY <1>5, <3>1
    <3>3. said[Stored + 1][2] < said[k][2]
      BY <3>1 DEF SaidInOrder, Inv
    <3>4. p # 1
      BY <1>3, <2>1, <3>1, <3>2, <3>3
    <3>5. wire[p] \in Events /\ 1 \in 1..Len(wire) /\ 1 < p
      BY <1>2, <3>4, ElementOfSeq
    <3>6. wire[p] \notin Echoes /\ h \notin Echoes
      <4>1. wire[p].item \in Spoken
        BY <1>3, <3>1, <3>2
      <4> QED
        BY <1>2, <1>10, <3>5, <4>1, EventKinds DEF Spoken
    <3>7. Stamp(h) <= Stamp(wire[p])
      BY <3>5, <3>6 DEF Ordered, InOrder, Inv
    <3>8. Stamp(h) = 4 * said[k][2] + 3 /\ Stamp(wire[p]) = 4 * said[Stored + 1][2] + 3
      <4>1. wire[p].ev = "final" /\ wire[p].item = said[Stored + 1]
        BY <3>2
      <4> QED
        BY <1>2, <1>10, <2>1, <3>5, <4>1, StampType
    <3>9. said[k][2] \in Nat /\ said[Stored + 1][2] \in Nat
          /\ 4 * said[k][2] + 3 <= 4 * said[Stored + 1][2] + 3
      <4>1. k \in 1..Len(said) /\ Stored + 1 \in 1..Len(said)
        BY <3>1
      <4> QED
        BY <1>3, <3>7, <3>8, <4>1
    <3> QED
      BY <3>3, <3>9, NotLater
  <2>3. h.item \in Spoken /\ [full |-> TRUE, items |-> {h.item}] \in Message
    BY <1>3, <2>1 DEF Message
  <2>4. /\ \A n \in 1..Len(log) : Place(n)' = Place(n) /\ log'[n] = log[n]
        /\ Stored' = Stored + 1
        /\ Len(log') = Len(log) + 1
        /\ log'[Len(log) + 1] = [full |-> TRUE, items |-> {said[Stored + 1]}]
        /\ \A n \in 1..Len(log') : n \in 1..Len(log) \/ n = Len(log) + 1
    BY <1>10, <2>1, <2>2, <2>3, PlaceFacts, Stores DEF Inv
  <2>5. \A n \in 1..Len(log') :
          IF log'[n].full THEN Place(n)' \in 1..Stored' /\ log'[n].items = {said[Place(n)']}
          ELSE \A i \in log'[n].items : i[1] = "text" /\ \A j \in 1..Len(said) : said[j] # i
    <3> TAKE n \in 1..Len(log')
    <3>1. CASE n \in 1..Len(log)
      <4>1. IF log[n].full THEN Place(n) \in 1..Stored /\ log[n].items = {said[Place(n)]}
            ELSE \A i \in log[n].items : i[1] = "text" /\ \A j \in 1..Len(said) : said[j] # i
        BY <1>4, <3>1
      <4>2. Place(n)' = Place(n) /\ log'[n] = log[n] /\ 1..Stored \subseteq 1..Stored'
        BY <1>3, <2>4, <3>1
      <4> QED
        BY <4>1, <4>2
    <3>2. CASE n = Len(log) + 1
      <4>1. Place(n)' = Stored + 1
        BY <2>4, <3>2 DEF Stored
      <4>2. Stored + 1 \in 1..Stored'
        BY <1>3, <2>4
      <4> QED
        BY <2>4, <3>2, <4>1, <4>2
    <3> QED
      BY <2>4, <3>1, <3>2
  <2>6. \A j \in 1..Stored' : \E n \in 1..Len(log') : log'[n].items = {said[j]}
    <3> TAKE j \in 1..Stored'
    <3>1. CASE j \in 1..Stored
      <4>1. PICK n \in 1..Len(log) : log[n].items = {said[j]}
        BY <1>4, <3>1
      <4>2. n \in 1..Len(log') /\ log'[n] = log[n]
        BY <1>3, <2>4
      <4> QED
        BY <4>1, <4>2
    <3>2. CASE j = Stored + 1
      <4>1. Len(log) + 1 \in 1..Len(log')
        BY <1>3, <2>4
      <4> QED
        BY <2>4, <3>2, <4>1
    <3> QED
      BY <1>3, <2>4, <3>1, <3>2, SMTT(30)
  <2>7. \A j \in Stored' + 1..Len(said) :
          [ev |-> "final", item |-> said[j]] \in {wire'[p] : p \in 1..Len(wire')}
    <3> TAKE j \in Stored' + 1..Len(said)
    <3>1. j \in Stored + 1..Len(said) /\ k \in 1..Len(said) /\ j \in 1..Len(said) /\ k < j
      BY <1>3, <2>2, <2>4
    <3>2. said[j][2] # said[k][2]
      BY <1>3, <3>1, SMTT(30) DEF SaidInOrder, Inv
    <3> QED
      BY <1>7, <2>1, <3>1, <3>2
  <2>8. ASSUME NEW p \in 1..Len(wire'), wire'[p].ev = "final", wire'[p] \in Parts
        PROVE  \E j \in Stored' + 1..Len(said) : wire'[p].item = said[j]
    <3>1. PICK j \in Stored + 1..Len(said) : wire'[p].item = said[j]
      BY <1>8, <2>8
    <3>2. p + 1 \in 1..Len(wire) /\ wire'[p] = wire[p + 1] /\ 1 < p + 1 /\ 1 \in 1..Len(wire)
      BY <1>2
    <3>3. wire[p + 1] \in Events /\ wire[p + 1] \notin Echoes /\ h \notin Echoes
      BY <1>2, <1>10, <2>8, <3>2, ElementOfSeq, EventKinds
    <3>4. Stamp(h) < Stamp(wire[p + 1])
      BY <1>10, <3>2, <3>3 DEF Ordered, InOrder, Inv
    <3>5. Stamp(h) = 4 * said[k][2] + 3 /\ Stamp(wire[p + 1]) = 4 * said[j][2] + 3
      BY <1>2, <1>10, <2>1, <2>8, <3>1, <3>2, <3>3, StampType
    <3>6. j # k
      BY <3>4, <3>5, <1>3, <2>2
    <3> QED
      BY <1>3, <2>2, <2>4, <3>1, <3>6
  <2>9. Stored' <= Len(said)
    BY <1>3, <2>2, <2>4
  <2> QED
    BY <1>1, <2>5, <2>6, <2>7, <2>8, <2>9 DEF Faithful, Inv
\* pieces are stored: their part was broken off
<1>11. CASE /\ h.ev = "idle" /\ h \in Turns /\ pend # {}
            /\ log' = Append(log, [full |-> FALSE, items |-> pend])
  <2>1. [full |-> FALSE, items |-> pend] \in Message
    BY DEF Shaped, Message, Spoken, Inv
  <2>2. /\ \A n \in 1..Len(log) : Place(n)' = Place(n) /\ log'[n] = log[n]
        /\ Stored' = Stored /\ Len(log') = Len(log) + 1
        /\ log'[Len(log) + 1] = [full |-> FALSE, items |-> pend]
        /\ \A n \in 1..Len(log') : n \in 1..Len(log) \/ n = Len(log) + 1
    BY <1>11, <2>1, PlaceFacts, Stores DEF Inv
  <2>3. ASSUME NEW i \in pend
        PROVE  i[1] = "text" /\ \A k \in 1..Len(said) : said[k] # i
    <3>1. i[1] = "text" /\ i[2] \in Nat
      BY DEF Apart, Shaped, Inv
    <3>2. ASSUME NEW k \in 1..Stored, said[k] = i
          PROVE  FALSE
      BY <1>4, <3>1, <3>2 DEF Apart, Inv
    <3>3. ASSUME NEW k \in Stored + 1..Len(said), said[k] = i
          PROVE  FALSE
      <4>1. PICK p \in 1..Len(wire) : wire[p] = [ev |-> "final", item |-> i]
        BY <1>5, <3>3
      <4>2. p # 1 /\ 1 \in 1..Len(wire) /\ 1 < p
        BY <1>2, <1>11, <4>1
      <4>3. wire[p] \in Events /\ wire[p] \notin Echoes /\ h \notin Echoes
        BY <1>2, <1>11, <3>1, <4>1, ElementOfSeq, EventKinds
      <4>4. Stamp(h) <= Stamp(wire[p])
        BY <4>2, <4>3 DEF Ordered, InOrder, Inv
      <4>5. Stamp(h) = 4 * h.item[2] + 4 /\ Stamp(wire[p]) = 4 * i[2] + 3 /\ h.item[2] \in Nat
        <5>1. wire[p].ev = "final" /\ wire[p].item = i
          BY <4>1
        <5>2. Stamp(wire[p]) = 4 * wire[p].item[2] + 3
          BY <4>3, <5>1, StampType
        <5>3. h \in Events /\ h \in Turns
          BY <1>2, <1>11
        <5>4. Stamp(h) = 4 * h.item[2] + 4 /\ h.item[2] \in Nat
          BY <5>3, StampType
        <5> QED
          BY <5>1, <5>2, <5>4
      <4>6. Stamp(h) > 4 * i[2] + 2
        BY <4>2, <4>3 DEF Behind, Inv
      <4> QED
        <5>1. 4 * h.item[2] + 4 > 4 * i[2] + 2
          BY <4>5, <4>6
        <5>2. 4 * h.item[2] + 4 <= 4 * i[2] + 3
          BY <4>4, <4>5
        <5> QED
          BY <3>1, <4>5, <5>1, <5>2, Between
    <3>4. \A k \in 1..Len(said) : k \in 1..Stored \/ k \in Stored + 1..Len(said)
      BY <1>3
    <3> QED
      BY <3>1, <3>2, <3>3, <3>4
  <2>4. \A n \in 1..Len(log') :
          IF log'[n].full THEN Place(n)' \in 1..Stored' /\ log'[n].items = {said[Place(n)']}
          ELSE \A i \in log'[n].items : i[1] = "text" /\ \A j \in 1..Len(said) : said[j] # i
    <3> TAKE n \in 1..Len(log')
    <3>1. CASE n \in 1..Len(log)
      BY <1>4, <2>2, <3>1
    <3>2. CASE n = Len(log) + 1
      BY <2>2, <2>3, <3>2
    <3> QED
      BY <2>2, <3>1, <3>2
  <2>5. \A j \in 1..Stored : \E n \in 1..Len(log') : log'[n].items = {said[j]}
    <3> TAKE j \in 1..Stored
    <3>1. PICK n \in 1..Len(log) : log[n].items = {said[j]}
      BY <1>4
    <3>2. n \in 1..Len(log') /\ log'[n] = log[n]
      BY <1>3, <2>2
    <3> QED
      BY <3>1, <3>2
  <2>6. \A k \in Stored + 1..Len(said) :
          [ev |-> "final", item |-> said[k]] \in {wire'[p] : p \in 1..Len(wire')}
    BY <1>7, <1>11
  <2> QED
    BY <1>1, <1>4, <1>8, <2>2, <2>4, <2>5, <2>6 DEF Faithful, Inv
<1>12. \/ log' = log /\ (h.ev = "final" => h \in Echoes)
       \/ /\ h.ev = "final" /\ h \in Parts
          /\ log' = Append(log, [full |-> TRUE, items |-> {h.item}])
       \/ h.ev = "idle" /\ h \in Turns /\ log' = Flushed(pend)
  <2> HIDE DEF h
  <2>1. h = wire[1]
    BY DEF h
  <2> QED
    BY <2>1, Handled
<1>13. Flushed(pend) = IF pend = {} THEN log ELSE Append(log, [full |-> FALSE, items |-> pend])
  BY DEF Flushed
<1> QED
  BY <1>9, <1>10, <1>11, <1>12, <1>13

-----------------------------------------------------------------------------
(* The steps of the agent.                                                  *)

Sends(evs) ==
  /\ evs \in Seq(Events) /\ Emit(evs) /\ InOrder(evs) /\ Told(evs)
  /\ \A p \in 1..Len(evs) : Fresh(evs[p])

\* Nothing to send.
LEMMA NoneSent ==
  ASSUME Emit(<<>>)
  PROVE  Sends(<<>>)
<1>1. <<>> \in Seq(Events) /\ Len(<<>>) = 0
  BY EmptySeq
<1> QED
  BY <1>1 DEF Sends, InOrder, Told

\* One event that is new.
LEMMA OneSent ==
  ASSUME NEW a \in Events, Emit(<<a>>), Fresh(a), a.ev # "delta", a \notin Echoes
  PROVE  Sends(<<a>>) /\ \A p \in 1..Len(<<a>>) : <<a>>[p] = a
<1>1. <<a>> \in Seq(Events) /\ Len(<<a>>) = 1 /\ \A p \in 1..1 : <<a>>[p] = a
  BY OneEvent
<1>2. InOrder(<<a>>)
  BY <1>1 DEF InOrder
<1>3. Told(<<a>>)
  BY <1>1 DEF Told
<1> QED
  BY <1>1, <1>2, <1>3 DEF Sends

\* Two, the second after the first.
LEMMA TwoSent ==
  ASSUME NEW a \in Events, NEW b \in Events, Emit(<<a>> \o <<b>>), Fresh(a), Fresh(b),
         a \in Echoes \/ b \in Echoes => kind # "codex",
         a.ev # "delta", ~(a.ev = "final" /\ a \in Echoes),
         b.ev = "delta" => a = [ev |-> "open", item |-> b.item],
         b.ev = "final" /\ b \in Echoes => a = [ev |-> "role", item |-> b.item],
         a \notin Echoes /\ b \notin Echoes =>
           Stamp(a) <= Stamp(b) /\ (a \in Parts => Stamp(a) < Stamp(b)),
         a \in Echoes /\ b \in Echoes => a.item[2] <= b.item[2]
  PROVE  Sends(<<a>> \o <<b>>) /\ \A p \in 1..Len(<<a>> \o <<b>>) : (<<a>> \o <<b>>)[p] \in {a, b}
<1> DEFINE s == <<a>> \o <<b>>
<1>1. s \in Seq(Events) /\ Len(s) = 2 /\ s[1] = a /\ s[2] = b /\ 1..2 = {1, 2}
  BY TwoEvents
<1> HIDE DEF s
<1>2. InOrder(s)
  <2> SUFFICES ASSUME NEW p \in 1..Len(s), NEW q \in 1..Len(s), p < q
               PROVE  p = 1 /\ q = 2
    BY <1>1 DEF InOrder
  <2> QED
    BY <1>1
<1>3. Told(s)
  <2> SUFFICES ASSUME NEW p \in 1..Len(s)
               PROVE  /\ s[p] \in Echoes => kind # "codex"
                      /\ s[p].ev = "delta" /\ s[p].item[1] = "reason" =>
                          \/ s[p].item \in think
                          \/ \E q \in 1..p - 1 : s[q] = [ev |-> "open", item |-> s[p].item]
                      /\ s[p].ev = "final" /\ s[p] \in Echoes =>
                          \/ s[p].item[2] \in knows
                          \/ \E q \in 1..p - 1 : s[q] = [ev |-> "role", item |-> s[p].item]
    BY DEF Told
  <2>1. CASE p = 1
    BY <1>1, <2>1
  <2>2. CASE p = 2
    <3>1. 1 \in 1..p - 1
      BY <2>2
    <3> QED
      BY <1>1, <2>2, <3>1
  <2> QED
    BY <1>1, <2>1, <2>2
<1>4. \A p \in 1..Len(s) : s[p] \in {a, b}
  BY <1>1
<1>5. Sends(s)
  BY <1>1, <1>2, <1>3, <1>4 DEF Sends, s
<1> QED
  BY <1>4, <1>5 DEF s

\* What the steps of the agent have in common
Speaks(evs) ==
  /\ Sends(evs) /\ Shaped' /\ Top' >= Top /\ Begun' >= Begun
  /\ \/ said' = said /\ \A p \in 1..Len(evs) : evs[p].ev # "final" \/ evs[p] \in Echoes
     \/ /\ item \in Spoken /\ Nothing' /\ item'[2] = item[2]
        /\ said' = Append(said, item)
        /\ evs = <<[ev |-> "final", item |-> item]>>
  /\ (failed => failed') /\ \A p \in 1..Len(evs) : evs[p].ev = "error" => failed'
  /\ agent' = "off" => evs # <<>> /\ evs[1].ev = "idle"

\* What an agent does not touch
Rest ==
  /\ wire' \in Seq(Events) /\ lost' \in BOOLEAN
  /\ UNCHANGED <<kind, sent, calls, up, abort, pend, log, status, streams>>

\* What a step of the agent leaves as it was.
LEMMA SpeaksShape ==
  ASSUME Inv, NEW evs \in Seq(Events), Emit(evs)
  PROVE  Rest
<1>1. wire' \in Seq(Events)
  BY EmitFacts DEF Inv
<1> QED
  BY <1>1 DEF Emit, bridge, rows, Inv, Shaped, Rest

\* The echo of the message, or that Codex is busy.
LEMMA AgentBeginsSpeaks ==
  ASSUME Inv, AgentBegins
  PROVE  \E evs : Speaks(evs)
<1>1. queued \in Nat \ {0} /\ queued' = queued - 1 /\ sent \in Nat /\ queued <= sent
  BY DEF AgentBegins, Shaped, Inv
<1>2. item' = item /\ said' = said /\ failed' = failed /\ Nothing /\ agent = "off"
      /\ item \in {"none"} \X Nat
  BY DEF AgentBegins, Shaped, Nothing, Spoken, Inv
<1>3. CASE kind = "codex"
  <2> DEFINE a == [ev |-> "busy", item |-> item]
  <2>1. a \in Turns /\ a \in Events /\ a.item = item
    BY <1>2, EventType DEF Events
  <2>2. Emit(<<a>>) /\ agent' = "on"
    BY <1>3 DEF AgentBegins, Event
  <2>3. Stamp(a) = 4 * item[2] + 4 /\ Top = 4 * item[2] + 4 /\ Top' = Top /\ item[2] \in Nat
    BY <1>2, <2>1, StampType DEF Top, Nothing
  <2>4. Fresh(a) /\ a \notin Echoes
    BY <2>1, <2>3, EventKinds DEF Fresh
  <2>5. Sends(<<a>>) /\ \A p \in 1..Len(<<a>>) : <<a>>[p] = a
    BY <2>1, <2>2, <2>4, OneSent
  <2>6. Rest
    BY <2>5, SpeaksShape DEF Sends
  <2>7. Shaped' /\ Begun' >= Begun
    BY <1>1, <1>2, <2>2, <2>6 DEF Shaped, Nothing, Rest, Begun, Inv
  <2> QED
    BY <1>2, <2>2, <2>3, <2>5, <2>6, <2>7 DEF Speaks
<1>4. CASE kind # "codex"
  <2> DEFINE u == <<"user", sent - queued + 1>>
             a == [ev |-> "role", item |-> u]
             b == [ev |-> "final", item |-> u]
  <2>1. a \in Echoes /\ b \in Echoes /\ a \in Events /\ b \in Events /\ u[2] = sent - queued + 1
    <3>1. u \in {"user"} \X Nat
      BY <1>1
    <3> QED
      BY <3>1, EventType DEF Events
  <2>2. Emit(<<a>> \o <<b>>) /\ agent' = "begin"
    BY <1>4 DEF AgentBegins, Event
  <2>3. <<a>> \o <<b>> \in Seq(Events)
    BY <2>1, TwoEvents
  <2>10. Rest
    BY <2>2, <2>3, SpeaksShape
  <2>4. Begun = sent - queued /\ Begun' = sent - queued + 1
    BY <1>1, <2>10 DEF Begun, Rest
  <2>5. Fresh(a) /\ Fresh(b)
    BY <1>1, <2>1, <2>4 DEF Fresh
  <2>9. /\ a.item[2] <= b.item[2] /\ a.ev = "role" /\ a = [ev |-> "role", item |-> b.item]
         /\ b.ev = "final" /\ kind # "codex"
    BY <1>1, <1>4, <2>1
  <2>6. /\ Sends(<<a>> \o <<b>>)
        /\ \A p \in 1..Len(<<a>> \o <<b>>) : (<<a>> \o <<b>>)[p] \in {a, b}
    BY <2>1, <2>2, <2>5, <2>9, TwoSent
  <2>7. Shaped'
    BY <1>1, <1>2, <2>2, <2>10 DEF Shaped, Nothing, Rest, Inv
  <2>8. Top' = Top /\ Top \in Nat /\ Begun' >= Begun
    BY <1>1, <1>2, <2>4 DEF Top, Nothing
  <2>11. \A p \in 1..Len(<<a>> \o <<b>>) :
           (<<a>> \o <<b>>)[p] \in Echoes /\ (<<a>> \o <<b>>)[p].ev # "error"
    BY <2>1, <2>6
  <2>12. Speaks(<<a>> \o <<b>>)
    BY <1>2, <2>2, <2>6, <2>7, <2>8, <2>11, SMTT(30) DEF Speaks
  <2> QED
    BY <2>12
<1> QED
  BY <1>3, <1>4

\* That OpenCode is busy comes after the echo.
LEMMA AgentBusySpeaks ==
  ASSUME Inv, AgentBusy
  PROVE  \E evs : Speaks(evs)
<1> DEFINE a == [ev |-> "busy", item |-> item]
<1>1. /\ item' = item /\ said' = said /\ failed' = failed /\ Nothing /\ queued' = queued
      /\ item \in {"none"} \X Nat /\ agent' = "on"
  BY DEF AgentBusy, Shaped, Nothing, Spoken, Inv
<1>2. a \in Turns /\ a \in Events /\ a.item = item
  BY <1>1, EventType DEF Events
<1>3. Emit(<<a>>)
  BY DEF AgentBusy, Event
<1>4. Stamp(a) = 4 * item[2] + 4 /\ Top = 4 * item[2] + 4 /\ Top' = Top /\ item[2] \in Nat
  BY <1>1, <1>2, StampType DEF Top, Nothing
<1>5. Fresh(a) /\ a \notin Echoes
  BY <1>2, <1>4, EventKinds DEF Fresh
<1>6. Sends(<<a>>) /\ \A p \in 1..Len(<<a>>) : <<a>>[p] = a
  BY <1>2, <1>3, <1>5, OneSent
<1>7. Rest
  BY <1>6, SpeaksShape DEF Sends
<1>8. Shaped' /\ Begun' >= Begun
  BY <1>1, <1>7 DEF Shaped, Nothing, Rest, Begun, Inv
<1> QED
  BY <1>1, <1>4, <1>6, <1>7, <1>8 DEF Speaks

\* A part stands after everything that was sent.
LEMMA AgentStartsSpeaks ==
  ASSUME Inv, NEW k \in {"text", "reason", "tool"}, AgentStarts(k)
  PROVE  \E evs : Speaks(evs)
<1> DEFINE i == <<k, item[2] + 1>>
           a == [ev |-> "open", item |-> i]
           b == [ev |-> "delta", item |-> i]
<1>1. /\ item' = i /\ said' = said /\ failed' = failed /\ queued' = queued
      /\ agent' = "on" /\ Nothing /\ item \in {"none"} \X Nat
  BY DEF AgentStarts, Shaped, Nothing, Spoken, Inv
<1>2. i \in Spoken /\ i[2] = item[2] + 1 /\ item[2] \in Nat /\ i[1] = k /\ k # "none"
  BY <1>1 DEF Spoken
<1>3. a \in Parts /\ a \in Events /\ a \notin Echoes
  BY <1>2, EventType, EventKinds DEF Events
<1>4. /\ Stamp(a) = 4 * (item[2] + 1) + 1 /\ Top = 4 * item[2] + 4
      /\ Top' = 4 * (item[2] + 1) + 2
  BY <1>1, <1>2, <1>3, StampType DEF Top, Nothing
<1>5. Fresh(a) /\ Top' >= Top
  BY <1>2, <1>3, <1>4 DEF Fresh
<1>6. CASE k = "tool"
  <2>1. Emit(<<a>> \o <<>>)
    BY <1>1, <1>6 DEF AgentStarts, Event
  <2>2. Emit(<<a>>)
    BY <1>3, <2>1, OneEvent, ConcatEmptySeq
  <2>3. Sends(<<a>>) /\ \A p \in 1..Len(<<a>>) : <<a>>[p] = a
    BY <1>3, <1>5, <2>2, OneSent
  <2>4. Rest
    BY <2>3, SpeaksShape DEF Sends
  <2>5. Shaped' /\ Begun' >= Begun
    BY <1>1, <1>2, <2>4 DEF Shaped, Rest, Begun, Inv
  <2> QED
    <3>1. a.ev = "open" /\ agent' # "off"
      BY <1>1
    <3>2. Speaks(<<a>>)
      BY <1>1, <1>5, <2>3, <2>5, <3>1 DEF Speaks
    <3> QED
      BY <3>2
<1>7. CASE k # "tool"
  <2>1. b \in Parts /\ b \in Events /\ b \notin Echoes
    <3>1. i \in {"text", "reason"} \X Nat
      BY <1>2, <1>7
    <3> QED
      BY <3>1, EventType, EventKinds DEF Events
  <2>2. Emit(<<a>> \o <<b>>)
    BY <1>1, <1>7 DEF AgentStarts, Event
  <2>3. Stamp(b) = 4 * (item[2] + 1) + 2
    BY <1>2, <2>1, StampType
  <2>4. Fresh(b) /\ Stamp(a) < Stamp(b)
    BY <1>2, <1>4, <2>1, <2>3 DEF Fresh
  <2>5. /\ a.ev = "open" /\ b.ev = "delta" /\ a = [ev |-> "open", item |-> b.item]
        /\ Stamp(a) <= Stamp(b)
    BY <1>2, <1>4, <2>3
  <2>6. /\ Sends(<<a>> \o <<b>>)
        /\ \A p \in 1..Len(<<a>> \o <<b>>) : (<<a>> \o <<b>>)[p] \in {a, b}
    BY <1>3, <1>5, <2>1, <2>2, <2>4, <2>5, TwoSent
  <2>7. Rest
    BY <2>6, SpeaksShape DEF Sends
  <2>8. Shaped' /\ Begun' >= Begun
    BY <1>1, <1>2, <2>7 DEF Shaped, Rest, Begun, Inv
  <2>9. \A p \in 1..Len(<<a>> \o <<b>>) :
          (<<a>> \o <<b>>)[p].ev # "final" /\ (<<a>> \o <<b>>)[p].ev # "error"
    BY <2>6
  <2>10. Speaks(<<a>> \o <<b>>)
    BY <1>1, <1>5, <2>6, <2>8, <2>9 DEF Speaks
  <2> QED
    BY <2>10
<1> QED
  BY <1>6, <1>7

\* Its end stands after its delta.
LEMMA AgentFinishesSpeaks ==
  ASSUME Inv, AgentFinishes
  PROVE  \E evs : Speaks(evs)
<1> DEFINE a == [ev |-> "final", item |-> item]
<1>1. /\ item' = <<"none", item[2]>> /\ failed' = failed /\ queued' = queued
      /\ agent' = agent /\ agent = "on" /\ ~Nothing /\ item \in Spoken
  BY DEF AgentFinishes, Shaped, Nothing, Spoken, Inv
<1>2. /\ Nothing' /\ item'[2] = item[2] /\ item[2] \in Nat
      /\ Top = 4 * item[2] + 2 /\ Top' = 4 * item[2] + 4 /\ Top' >= Top
      /\ item' \in {"none"} \X Nat
  BY <1>1 DEF Nothing, Top, Spoken
<1>3. CASE kind = "codex" /\ item[1] = "reason"
  <2>1. said' = said /\ Emit(<<>>)
    BY <1>3 DEF AgentFinishes
  <2>2. Sends(<<>>)
    BY <2>1, NoneSent
  <2>3. Rest
    BY <2>2, SpeaksShape DEF Sends
  <2>4. Shaped' /\ Begun' >= Begun
    BY <1>1, <1>2, <2>1, <2>3, SMTT(30) DEF Shaped, Rest, Begun, Inv
  <2>5. Len(<<>>) = 0
    BY EmptySeq
  <2>6. agent' # "off"
    BY <1>1
  <2>7. Speaks(<<>>)
    BY <1>1, <1>2, <2>1, <2>2, <2>4, <2>5, <2>6 DEF Speaks
  <2> QED
    BY <2>7
<1>4. CASE ~(kind = "codex" /\ item[1] = "reason")
  <2>1. said' = Append(said, item) /\ Emit(<<a>>)
    BY <1>4 DEF AgentFinishes, Event
  <2>2. a \in Parts /\ a \in Events /\ a \notin Echoes
    <3>1. a \in Parts /\ a \in Events
      BY <1>1, EventType DEF Events
    <3> QED
      BY <3>1, EventKinds
  <2>3. Stamp(a) = 4 * item[2] + 3
    BY <2>2, StampType
  <2>4. Fresh(a)
    BY <1>2, <2>2, <2>3 DEF Fresh
  <2>5. Sends(<<a>>) /\ \A p \in 1..Len(<<a>>) : <<a>>[p] = a
    BY <2>1, <2>2, <2>4, OneSent
  <2>6. Rest
    BY <2>5, SpeaksShape DEF Sends
  <2>7. said' \in Seq(Spoken)
    BY <1>1, <2>1, AppendProperties DEF Shaped, Inv
  <2>8. Shaped' /\ Begun' >= Begun
    BY <1>1, <1>2, <2>6, <2>7, SMTT(30) DEF Shaped, Rest, Begun, Inv
  <2>9. Speaks(<<a>>)
    BY <1>1, <1>2, <2>1, <2>5, <2>8 DEF Speaks
  <2> QED
    BY <2>9
<1> QED
  BY <1>3, <1>4

\* An error ends the turn and stands after the part it broke off.
LEMMA AgentFailsSpeaks ==
  ASSUME Inv, AgentFails
  PROVE  \E evs : Speaks(evs)
<1> DEFINE i == <<"none", item[2]>>
           a == [ev |-> "error", item |-> i]
<1>1. /\ item' = i /\ said' = said /\ failed' = TRUE /\ queued' = queued
      /\ agent' = "end" /\ item[2] \in Nat
  BY DEF AgentFails, Shaped, Spoken, Inv
<1>2. i \in {"none"} \X Nat /\ i[2] = item[2] /\ i[1] = "none"
  BY <1>1
<1>3. a \in Turns /\ a \in Events /\ a \notin Echoes
  BY <1>2, EventType, EventKinds DEF Events
<1>4. Emit(<<a>>)
  BY <1>1 DEF AgentFails, Event
<1>5. Stamp(a) = 4 * item[2] + 4 /\ Top' = 4 * item[2] + 4
      /\ Top \in {4 * item[2] + 2, 4 * item[2] + 4}
  BY <1>1, <1>2, <1>3, StampType DEF Top, Nothing
<1>6. Fresh(a) /\ Top' >= Top
  BY <1>1, <1>3, <1>5 DEF Fresh
<1>7. Sends(<<a>>) /\ \A p \in 1..Len(<<a>>) : <<a>>[p] = a
  BY <1>3, <1>4, <1>6, OneSent
<1>8. Rest
  BY <1>7, SpeaksShape DEF Sends
<1>9. Shaped' /\ Begun' >= Begun
  BY <1>1, <1>2, <1>8 DEF Shaped, Rest, Begun, Nothing, Inv
<1> QED
  BY <1>1, <1>6, <1>7, <1>9 DEF Speaks

\* The end of the turn, twice.
LEMMA AgentEndsSpeaks ==
  ASSUME Inv, AgentEnds
  PROVE  \E evs : Speaks(evs)
<1> DEFINE a == [ev |-> "idle", item |-> item]
<1>1. /\ item' = item /\ said' = said /\ failed' = failed /\ Nothing /\ queued' = queued
      /\ item \in {"none"} \X Nat /\ agent' = "off"
  BY DEF AgentEnds, Shaped, Nothing, Spoken, Inv
<1>2. a \in Turns /\ a \in Events /\ a.item = item /\ a \notin Echoes /\ a \notin Parts
  BY <1>1, EventType, EventKinds DEF Events
<1>3. Stamp(a) = 4 * item[2] + 4 /\ Top = 4 * item[2] + 4 /\ Top' = Top /\ item[2] \in Nat
  BY <1>1, <1>2, StampType DEF Top, Nothing
<1>4. Fresh(a)
  BY <1>2, <1>3 DEF Fresh
<1>5. PICK evs : /\ Sends(evs) /\ evs # <<>> /\ evs[1].ev = "idle"
                 /\ \A p \in 1..Len(evs) : evs[p] = a
  <2>1. CASE kind = "codex"
    <3>1. Emit(<<a>>)
      BY <2>1 DEF AgentEnds, Event
    <3>2. Sends(<<a>>) /\ \A p \in 1..Len(<<a>>) : <<a>>[p] = a
      BY <1>2, <1>4, <3>1, OneSent
    <3>3. <<a>> # <<>> /\ <<a>>[1] = a
      OBVIOUS
    <3> QED
      BY <3>2, <3>3
  <2>2. CASE kind # "codex"
    <3>1. Emit(<<a>> \o <<a>>)
      BY <2>2 DEF AgentEnds, Event
    <3>2. a.ev # "delta" /\ a.ev # "final" /\ Stamp(a) <= Stamp(a)
      BY <1>3
    <3>3. /\ Sends(<<a>> \o <<a>>)
          /\ \A p \in 1..Len(<<a>> \o <<a>>) : (<<a>> \o <<a>>)[p] \in {a, a}
      BY <1>2, <1>4, <3>1, <3>2, TwoSent
    <3>4. <<a>> \o <<a>> # <<>> /\ (<<a>> \o <<a>>)[1] = a
      BY <1>2, TwoEvents, EmptySeq
    <3>5. \A p \in 1..Len(<<a>> \o <<a>>) : (<<a>> \o <<a>>)[p] = a
      BY <3>3
    <3>6. (<<a>> \o <<a>>)[1].ev = "idle"
      BY <3>4
    <3> HIDE DEF a
    <3> QED
      BY <3>3, <3>4, <3>5, <3>6
  <2> QED
    BY <2>1, <2>2
<1>6. Rest
  BY <1>5, SpeaksShape DEF Sends
<1>7. Shaped' /\ Begun' >= Begun
  BY <1>1, <1>6 DEF Shaped, Rest, Begun, Nothing, Inv
<1>8. Top' >= Top
  BY <1>3
<1> QED
  BY <1>1, <1>5, <1>7, <1>8 DEF Speaks

\* What every step of the agent sends is new.
LEMMA AgentSpeaks ==
  ASSUME Inv, AgentStep
  PROVE  \E evs : Speaks(evs)
BY AgentBeginsSpeaks, AgentBusySpeaks, AgentStartsSpeaks, AgentFinishesSpeaks, AgentFailsSpeaks,
   AgentEndsSpeaks DEF AgentStep

\* A step of the agent keeps the whole.
LEMMA AgentKeeps ==
  ASSUME Inv, AgentStep
  PROVE  Inv'
<1>1. PICK evs : Speaks(evs)
  BY AgentSpeaks
<1>2. /\ Shaped' /\ Top' >= Top /\ Begun' >= Begun
      /\ evs \in Seq(Events) /\ Emit(evs) /\ InOrder(evs) /\ Told(evs)
      /\ \A p \in 1..Len(evs) : Fresh(evs[p])
      /\ Len(evs) \in Nat /\ \A p \in 1..Len(evs) : evs[p] \in Events
  BY <1>1, ElementOfSeq, LenProperties DEF Speaks, Sends
<1>3. Ordered' /\ Behind' /\ Apart' /\ Known'
  BY <1>2, EmitKeeps
<1>4. /\ UNCHANGED <<kind, sent, calls, up, abort, pend, log, status, streams>>
      /\ wire \in Seq(Events) /\ Len(wire) \in Nat
  BY <1>2, SpeaksShape, LenProperties DEF Rest, Shaped, Inv
<1>5. /\ wire' = wire \/ wire' = wire \o evs
      /\ wire' # wire \o evs => lost'
      /\ lost => lost'
  BY <1>2, EmitFacts DEF Inv
<1>6. /\ Len(wire \o evs) = Len(wire) + Len(evs)
      /\ \A p \in 1..Len(wire) : p \in 1..Len(wire \o evs) /\ (wire \o evs)[p] = wire[p]
      /\ \A p \in 1..Len(evs) : Len(wire) + p \in 1..Len(wire \o evs)
                                /\ (wire \o evs)[Len(wire) + p] = evs[p]
      /\ \A p \in 1..Len(wire \o evs) :
           \/ p \in 1..Len(wire) /\ (wire \o evs)[p] = wire[p]
           \/ \E q \in 1..Len(evs) : (wire \o evs)[p] = evs[q]
  <2>1. /\ Len(wire \o evs) = Len(wire) + Len(evs)
        /\ \A i \in 1 .. Len(wire) + Len(evs) : (wire \o evs)[i] =
                     IF i <= Len(wire) THEN wire[i] ELSE evs[i - Len(wire)]
    BY <1>2, <1>4, ConcatProperties
  <2>2. \A p \in 1..Len(evs) : /\ Len(wire) + p \in 1..Len(wire) + Len(evs)
                               /\ ~(Len(wire) + p <= Len(wire)) /\ (Len(wire) + p) - Len(wire) = p
    BY <1>2, <1>4
  <2>3. \A p \in 1..Len(wire) + Len(evs) : p \notin 1..Len(wire) =>
          p - Len(wire) \in 1..Len(evs) /\ ~(p <= Len(wire))
    BY <1>2, <1>4
  <2>4. \A p \in 1..Len(wire) : p \in 1..Len(wire) + Len(evs) /\ p <= Len(wire)
    BY <1>2, <1>4
  <2> QED
    BY <2>1, <2>2, <2>3, <2>4
<1>7. Linked'
  <2>1. streams' = streams /\ up' = up /\ kind' = kind
    BY <1>4
  <2> QED
    BY <1>5, <2>1 DEF Linked, Current, Inv
<1>8. /\ said' \in Seq(Spoken) /\ said \in Seq(Spoken) /\ Len(said) \in Nat
      /\ \A k \in 1..Len(said) : said[k] \in Spoken /\ said[k][2] \in Nat
      /\ Top \in Nat /\ Top' \in Nat /\ item[2] \in Nat
  <2>1. \A k \in 1..Len(said) : said[k] \in Spoken
    BY ElementOfSeq DEF Shaped, Inv
  <2> QED
    BY <1>2, <2>1, TopType, LenProperties DEF Shaped, Spoken, Inv
<1>9. \A k \in 1..Len(said) : 4 * said[k][2] + 3 <= Top
  BY DEF SaidInOrder, Inv
<1>10. ASSUME said' = said, \A p \in 1..Len(evs) : evs[p].ev # "final" \/ evs[p] \in Echoes
       PROVE  SaidInOrder' /\ Faithful'
  <2>1. SaidInOrder'
    <3>1. \A k \in 1..Len(said) : 4 * said[k][2] + 3 <= Top'
      BY <1>2, <1>8, <1>9, SMTT(30)
    <3> QED
      BY <1>10, <3>1 DEF SaidInOrder, Inv
  <2>2. Faithful'
    <3> SUFFICES ASSUME ~lost' PROVE Faithful'
      BY DEF Faithful, Inv
    <3>1. wire' = wire \o evs /\ ~lost /\ log' = log
      BY <1>4, <1>5
    <3>2. Stored' = Stored /\ \A n : Place(n)' = Place(n)
      BY <3>1 DEF Stored, Place
    <3>3. ASSUME NEW k \in Stored + 1..Len(said)
          PROVE  [ev |-> "final", item |-> said[k]] \in {wire'[p] : p \in 1..Len(wire')}
      <4>1. PICK p \in 1..Len(wire) : wire[p] = [ev |-> "final", item |-> said[k]]
        BY <3>1 DEF Faithful, Inv
      <4> QED
        BY <1>6, <3>1, <4>1
    <3>4. ASSUME NEW p \in 1..Len(wire'), wire'[p].ev = "final", wire'[p] \in Parts
          PROVE  \E k \in Stored + 1..Len(said) : wire'[p].item = said[k]
      <4>1. ASSUME NEW q \in 1..Len(evs), wire'[p] = evs[q]
            PROVE  FALSE
        BY <1>2, <1>10, <3>4, <4>1, EventKinds
      <4> QED
        BY <1>6, <3>1, <3>4, <4>1 DEF Faithful, Inv
    <3> QED
      BY <1>10, <3>1, <3>2, <3>3, <3>4 DEF Faithful, Inv
  <2> QED
    BY <2>1, <2>2
<1>11. ASSUME item \in Spoken, Nothing', item'[2] = item[2],
              said' = Append(said, item),
              evs = <<[ev |-> "final", item |-> item]>>
       PROVE  SaidInOrder' /\ Faithful'
  <2>1. /\ Len(said') = Len(said) + 1
        /\ \A k \in 1..Len(said) : said'[k] = said[k]
        /\ said'[Len(said) + 1] = item
        /\ \A k \in 1..Len(said') : k \in 1..Len(said) \/ k = Len(said) + 1
    BY <1>8, <1>11, AppendProperties
  <2>2. Top = 4 * item[2] + 2 /\ Top' = 4 * item[2] + 4
    BY <1>11 DEF Top, Nothing, Spoken
  <2>3. \A k \in 1..Len(said) : said[k][2] < item[2]
    BY <1>8, <1>9, <2>2, Below
  <2>4. SaidInOrder'
    <3>1. ASSUME NEW k \in 1..Len(said') PROVE 4 * said'[k][2] + 3 <= Top'
      <4>1. CASE k \in 1..Len(said)
        <5>1. 4 * said[k][2] + 3 <= Top
          BY <1>9, <4>1
        <5> QED
          BY <1>2, <1>8, <2>1, <4>1, <5>1, SMTT(30)
      <4>2. CASE k = Len(said) + 1
        BY <1>8, <2>1, <2>2, <4>2
      <4> QED
        BY <2>1, <4>1, <4>2
    <3>2. ASSUME NEW j \in 1..Len(said'), NEW k \in 1..Len(said'), j < k
          PROVE  said'[j][2] < said'[k][2]
      <4>1. j \in 1..Len(said)
        BY <1>8, <2>1, <3>2
      <4> QED
        BY <2>1, <2>3, <3>2, <4>1 DEF SaidInOrder, Inv
    <3> QED
      BY <3>1, <3>2 DEF SaidInOrder, Inv
  <2>5. Faithful'
    <3> SUFFICES ASSUME ~lost' PROVE Faithful'
      BY DEF Faithful, Inv
    <3>1. wire' = wire \o evs /\ ~lost /\ log' = log
      BY <1>4, <1>5
    <3>2. Stored' = Stored /\ (\A n : Place(n)' = Place(n)) /\ Stored \in Nat
      BY <3>1, PlaceFacts DEF Stored, Place, Inv
    <3>3. /\ Stored <= Len(said)
          /\ \A n \in 1..Len(log) :
               IF log[n].full THEN Place(n) \in 1..Stored /\ log[n].items = {said[Place(n)]}
               ELSE \A i \in log[n].items : i[1] = "text" /\ \A k \in 1..Len(said) : said[k] # i
          /\ \A k \in 1..Stored : \E n \in 1..Len(log) : log[n].items = {said[k]}
      BY <3>1 DEF Faithful, Inv
    <3>4. \A k \in 1..Stored : k \in 1..Len(said) /\ said'[k] = said[k]
      BY <1>8, <2>1, <3>2, <3>3, SMTT(30)
    <3>5. ASSUME NEW n \in 1..Len(log), ~log[n].full, NEW i \in log[n].items
          PROVE  i[1] = "text" /\ \A k \in 1..Len(said') : said'[k] # i
      <4>1. i[1] = "text" /\ \A k \in 1..Len(said) : said[k] # i
        BY <3>3, <3>5
      <4>2. 4 * i[2] + 3 <= Top
        BY <4>1 DEF Behind, Inv
      <4>3. i[2] \in Nat
        <5>1. log[n] \in Message
          BY ElementOfSeq DEF Shaped, Message, Inv
        <5> QED
          BY <5>1 DEF Message, Spoken
      <4>4. i # item
        BY <1>8, <2>2, <4>2, <4>3, SMTT(30)
      <4> QED
        BY <2>1, <4>1, <4>4
    <3>6. ASSUME NEW k \in Stored + 1..Len(said')
          PROVE  [ev |-> "final", item |-> said'[k]] \in {wire'[p] : p \in 1..Len(wire')}
      <4>1. CASE k \in 1..Len(said)
        <5>1. k \in Stored + 1..Len(said)
          BY <4>1
        <5>2. PICK p \in 1..Len(wire) : wire[p] = [ev |-> "final", item |-> said[k]]
          BY <3>1, <5>1 DEF Faithful, Inv
        <5> QED
          BY <1>6, <2>1, <3>1, <4>1, <5>2
      <4>2. CASE k = Len(said) + 1
        <5>1. Len(evs) = 1 /\ evs[1] = [ev |-> "final", item |-> item] /\ 1 \in 1..Len(evs)
          BY <1>11
        <5> QED
          BY <1>6, <2>1, <3>1, <4>2, <5>1
      <4> QED
        BY <1>8, <2>1, <3>2, <4>1, <4>2
    <3>7. ASSUME NEW p \in 1..Len(wire'), wire'[p].ev = "final", wire'[p] \in Parts
          PROVE  \E k \in Stored + 1..Len(said') : wire'[p].item = said'[k]
      <4>1. CASE p \in 1..Len(wire) /\ wire'[p] = wire[p]
        <5>1. PICK k \in Stored + 1..Len(said) : wire[p].item = said[k]
          BY <3>1, <3>7, <4>1 DEF Faithful, Inv
        <5>2. k \in 1..Len(said) /\ k \in Stored + 1..Len(said')
          BY <1>8, <2>1, <3>2
        <5> QED
          BY <2>1, <4>1, <5>1, <5>2
      <4>2. CASE \E q \in 1..Len(evs) : wire'[p] = evs[q]
        <5>1. wire'[p] = [ev |-> "final", item |-> item]
          BY <1>11, <4>2
        <5>2. Len(said) + 1 \in Stored + 1..Len(said')
          BY <1>8, <2>1, <3>2, <3>3
        <5> QED
          BY <2>1, <5>1, <5>2
      <4> QED
        BY <1>6, <3>1, <4>1, <4>2
    <3>8. Stored <= Len(said')
      BY <1>8, <2>1, <3>2, <3>3
    <3>9. \A n \in 1..Len(log) : log[n].full =>
            Place(n) \in 1..Stored /\ log[n].items = {said'[Place(n)]}
      BY <3>3, <3>4
    <3>10. \A k \in 1..Stored : \E n \in 1..Len(log) : log[n].items = {said'[k]}
      BY <3>3, <3>4
    <3> QED
      BY <3>1, <3>2, <3>5, <3>6, <3>7, <3>8, <3>9, <3>10 DEF Faithful, Inv
  <2> QED
    BY <2>4, <2>5
<1>12. Settling'
  <2>1. ASSUME status' = "busy", ~lost', agent' = "off"
        PROVE  \E p \in 1..Len(wire') : wire'[p].ev = "idle"
    <3>1. wire' = wire \o evs /\ 1 \in 1..Len(evs) /\ evs[1].ev = "idle"
      BY <1>1, <1>2, <1>5, <2>1, EmptySeq DEF Speaks
    <3> QED
      BY <1>6, <3>1
  <2>2. ASSUME kind # "codex"
        PROVE  /\ calls' = 0
               /\ status' = "error" => failed'
               /\ \A p \in 1..Len(wire') : wire'[p].ev = "error" => failed'
    <3>1. /\ failed => failed'
          /\ \A p \in 1..Len(evs) : evs[p].ev = "error" => failed'
      BY <1>1 DEF Speaks
    <3>2. /\ calls = 0
          /\ status = "error" => failed
          /\ \A p \in 1..Len(wire) : wire[p].ev = "error" => failed
      BY <2>2 DEF Settling, Inv
    <3>3. calls' = calls /\ status' = status
      BY <1>4
    <3> QED
      BY <1>5, <1>6, <3>1, <3>2, <3>3, SMTT(30)
  <2>3. kind' = kind /\ abort' = abort
    BY <1>4
  <2> QED
    BY <2>1, <2>2, <2>3 DEF Settling, Inv
<1> QED
  BY <1>1, <1>2, <1>3, <1>7, <1>10, <1>11, <1>12 DEF Speaks, Inv

-----------------------------------------------------------------------------
(* The other steps.                                                         *)

\* Delivering an event keeps the rest of the invariant.
LEMMA DeliverShape ==
  ASSUME Inv, Deliver
  PROVE  Shaped' /\ Linked' /\ SaidInOrder' /\ Settling'
<1> DEFINE h == wire[1]
<1>1. /\ wire # <<>> /\ wire' = Tail(wire)
      /\ UNCHANGED <<kind, agent, queued, item, said, failed, streams, up, lost, calls, abort, sent>>
  BY DEF Deliver, theAgent
<1>2. /\ wire \in Seq(Events) /\ h \in Events /\ Head(wire) = h /\ wire' \in Seq(Events)
      /\ Len(wire) \in Nat \ {0} /\ Len(wire') = Len(wire) - 1
      /\ \A p \in 1..Len(wire') : p + 1 \in 1..Len(wire) /\ wire'[p] = wire[p + 1]
      /\ \A p \in 1..Len(wire) : p = 1 \/ (p - 1 \in 1..Len(wire') /\ wire'[p - 1] = wire[p])
  BY <1>1, TailFacts, SMTT(30) DEF Shaped, Inv
<1>3. HandleEvent(Meaning(h), h.item)
  BY <1>2 DEF Deliver
<1>4. status' = CASE Meaning(h) = "turn.completed" -> AfterTurn
                  [] Meaning(h) = "error" -> Marked
                  [] OTHER -> status
  BY <1>3 DEF HandleEvent
<1>5. (Meaning(h) = "turn.completed" <=> h.ev = "idle") /\ (Meaning(h) = "error" <=> h.ev = "error")
  <2>1. h.ev \in {"role", "open", "delta", "final", "busy", "idle", "error"}
    BY <1>2, EventKinds
  <2>2. CASE kind = "codex"
    BY <2>1, <2>2 DEF Meaning, MapCodexEvent
  <2>3. CASE kind # "codex" /\ h.ev \in {"final", "delta"}
    <3>1. MessagePart(h) \notin {"turn.completed", "error"} /\ PartDelta(h) \notin {"turn.completed", "error"}
      BY DEF MessagePart, PartDelta
    <3> QED
      BY <2>3, <3>1 DEF Meaning, HandleSSEEvent
  <2>4. CASE kind # "codex" /\ h.ev \notin {"final", "delta"}
    BY <2>1, <2>4 DEF Meaning, HandleSSEEvent, SessionEvent
  <2> QED
    BY <2>2, <2>3, <2>4
<1>6. /\ status' \in {"idle", "busy", "error"}
      /\ status' = "busy" => status = "busy" /\ h.ev # "idle"
      /\ status' = "error" => status = "error" \/ h.ev = "error"
  BY <1>4, <1>5 DEF Shaped, AfterTurn, Marked, Inv
<1>7. log' \in Seq(Message) /\ pend' \subseteq {"text", "reason"} \X Nat
  <2>1. log \in Seq(Message) /\ pend \subseteq {"text", "reason"} \X Nat
    BY DEF Shaped, Message, Inv
  <2>2. \/ /\ h.item \in {"text", "reason"} \X Nat
           /\ pend' = pend \cup {h.item} /\ log' = log
        \/ /\ h \in Echoes \cup Parts /\ pend' \subseteq pend
           /\ log' = Append(log, [full |-> TRUE, items |-> {h.item}])
        \/ pend' = {} /\ log' = Flushed(pend)
        \/ pend' = pend /\ log' = log
    <3> HIDE DEF h
    <3>1. h = wire[1]
      BY DEF h
    <3> QED
      BY <3>1, Handled
  <2>3. h \in Echoes \cup Parts => [full |-> TRUE, items |-> {h.item}] \in Message
    BY <1>2, EventKinds DEF Message, Echoes
  <2>4. [full |-> FALSE, items |-> pend] \in Message
    BY <2>1 DEF Message, Spoken
  <2>5. Flushed(pend) \in Seq(Message)
    BY <2>1, <2>4, AppendProperties DEF Flushed
  <2>6. log' \in Seq(Message)
    <3>1. h \in Echoes \cup Parts =>
            Append(log, [full |-> TRUE, items |-> {h.item}]) \in Seq(Message)
      BY <2>1, <2>3, AppendProperties
    <3> QED
      BY <2>1, <2>2, <2>5, <3>1
  <2>7. pend' \subseteq {"text", "reason"} \X Nat
    <3> HIDE DEF h
    <3> QED
      BY <2>1, <2>2
  <2> QED
    BY <2>6, <2>7
<1>8. Shaped'
  BY <1>1, <1>2, <1>6, <1>7 DEF Shaped, Message, Nothing, Inv
<1>9. Linked'
  BY <1>1 DEF Linked, Current, Inv
<1>10. SaidInOrder'
  BY <1>1 DEF SaidInOrder, Top, Nothing, Inv
<1>11. Settling'
  <2>1. ASSUME status' = "busy", ~lost', ~(queued' > 0), agent' = "off"
        PROVE  \E p \in 1..Len(wire') : wire'[p].ev = "idle"
    <3>1. PICK p \in 1..Len(wire) : wire[p].ev = "idle"
      BY <1>1, <1>6, <2>1 DEF Settling, Inv
    <3>2. p # 1
      BY <1>6, <2>1, <3>1
    <3> QED
      BY <1>2, <3>1, <3>2
  <2>2. ASSUME kind # "codex"
        PROVE  /\ calls' = 0
               /\ status' = "error" => failed'
               /\ \A p \in 1..Len(wire') : wire'[p].ev = "error" => failed'
    <3>1. /\ calls = 0
          /\ status = "error" => failed
          /\ \A p \in 1..Len(wire) : wire[p].ev = "error" => failed
      BY <2>2 DEF Settling, Inv
    <3>2. 1 \in 1..Len(wire)
      BY <1>2
    <3> QED
      BY <1>1, <1>2, <1>6, <3>1, <3>2
  <2> QED
    BY <1>1, <2>1, <2>2 DEF Settling, Inv
<1> QED
  BY <1>8, <1>9, <1>10, <1>11

\* What the other steps have in common
Spares ==
  /\ \/ wire' \in {wire, <<>>}
     \/ wire # <<>> /\ wire' = Tail(wire)
  /\ wire' # wire => lost'
  /\ lost => lost'
  /\ (knows' = knows /\ think' = think) \/ lost'
  /\ pend' \subseteq pend
  /\ UNCHANGED <<kind, log, said, failed>>
  /\ item' \in {item, <<"none", item[2]>>}
  /\ Begun' >= Begun

\* They keep what the wire, the rows and the agent have to do with each other.
LEMMA SparesKeeps ==
  ASSUME Inv, Spares, Shaped', Linked', Settling'
  PROVE  Inv'
<1>1. item[2] \in Nat /\ item'[2] = item[2]
  BY SMTT(30) DEF Spares, Shaped, Spoken, Inv
<1>2. Top' >= Top /\ Top \in Nat /\ Top' \in Nat
  BY <1>1 DEF Spares, Top, Nothing
<1>3. Ordered' /\ Behind' /\ Apart' /\ Known'
  BY <1>2, CutKeeps DEF Spares
<1>4. SaidInOrder'
  <2>1. \A k \in 1..Len(said) : said[k] \in Spoken
    BY ElementOfSeq DEF Shaped, Inv
  <2>2. \A k \in 1..Len(said) : 4 * said[k][2] + 3 <= Top /\ said[k][2] \in Nat
    BY <2>1 DEF SaidInOrder, Spoken, Inv
  <2>3. \A k \in 1..Len(said) : 4 * said[k][2] + 3 <= Top'
    BY <1>2, <2>2
  <2>4. said' = said
    BY DEF Spares
  <2> QED
    BY <2>3, <2>4 DEF SaidInOrder, Inv
<1>5. Faithful'
  <2> SUFFICES ASSUME ~lost' PROVE Faithful'
    BY DEF Faithful, Inv
  <2>1. wire' = wire /\ ~lost /\ said' = said /\ log' = log
    BY DEF Spares
  <2>2. \A n : Place(n)' = Place(n)
    BY <2>1 DEF Place
  <2>3. Stored' = Stored
    BY <2>1 DEF Stored, Place
  <2>4. /\ Stored <= Len(said)
        /\ \A n \in 1..Len(log) :
             IF log[n].full THEN Place(n) \in 1..Stored /\ log[n].items = {said[Place(n)]}
             ELSE \A i \in log[n].items : i[1] = "text" /\ \A k \in 1..Len(said) : said[k] # i
        /\ \A k \in 1..Stored : \E n \in 1..Len(log) : log[n].items = {said[k]}
        /\ \A k \in Stored + 1..Len(said) : [ev |-> "final", item |-> said[k]] \in {wire[p] : p \in 1..Len(wire)}
        /\ \A p \in 1..Len(wire) : wire[p].ev = "final" /\ wire[p] \in Parts =>
             \E k \in Stored + 1..Len(said) : wire[p].item = said[k]
    BY <2>1 DEF Faithful, Inv
  <2>5. /\ Stored' <= Len(said')
        /\ \A n \in 1..Len(log') :
             IF log'[n].full THEN Place(n)' \in 1..Stored' /\ log'[n].items = {said'[Place(n)']}
             ELSE \A i \in log'[n].items : i[1] = "text" /\ \A k \in 1..Len(said') : said'[k] # i
        /\ \A k \in 1..Stored' : \E n \in 1..Len(log') : log'[n].items = {said'[k]}
        /\ \A k \in Stored' + 1..Len(said') : [ev |-> "final", item |-> said'[k]] \in {wire'[p] : p \in 1..Len(wire')}
        /\ \A p \in 1..Len(wire') : wire'[p].ev = "final" /\ wire'[p] \in Parts =>
             \E k \in Stored' + 1..Len(said') : wire'[p].item = said'[k]
    <3> HIDE DEF Inv
    <3>1. Stored' <= Len(said')
      BY <2>1, <2>3, <2>4
    <3>2. \A n \in 1..Len(log') :
             IF log'[n].full THEN Place(n)' \in 1..Stored' /\ log'[n].items = {said'[Place(n)']}
             ELSE \A i \in log'[n].items : i[1] = "text" /\ \A k \in 1..Len(said') : said'[k] # i
      BY <2>1, <2>2, <2>3, <2>4
    <3>3. \A k \in 1..Stored' : \E n \in 1..Len(log') : log'[n].items = {said'[k]}
      BY <2>1, <2>3, <2>4
    <3>4. \A k \in Stored' + 1..Len(said') : [ev |-> "final", item |-> said'[k]] \in {wire'[p] : p \in 1..Len(wire')}
      BY <2>1, <2>3, <2>4
    <3>5. \A p \in 1..Len(wire') : wire'[p].ev = "final" /\ wire'[p] \in Parts =>
             \E k \in Stored' + 1..Len(said') : wire'[p].item = said'[k]
      BY <2>1, <2>3, <2>4
    <3> QED
      BY <3>1, <3>2, <3>3, <3>4, <3>5
  <2> QED
    BY <2>5 DEF Faithful, Parts, Inv
<1> QED
  BY <1>3, <1>4, <1>5 DEF Inv

\* The shape of what a step leaves of wire and pend
LEMMA SparesShape ==
  ASSUME Inv, Spares
  PROVE  /\ wire' \in Seq(Events) /\ log' = log /\ said' = said /\ kind' = kind /\ failed' = failed
         /\ pend' \subseteq {"text", "reason"} \X Nat
         /\ item' \in Spoken \cup ({"none"} \X Nat)
<1>1. wire \in Seq(Events)
  BY DEF Inv, Shaped
<1>2. wire' \in Seq(Events)
  <2>1. <<>> \in Seq(Events)
    BY EmptySeq
  <2>2. wire # <<>> => Tail(wire) \in Seq(Events)
    BY <1>1, TailFacts
  <2> QED
    BY <1>1, <2>1, <2>2 DEF Spares
<1> QED
  BY <1>2 DEF Spares, Inv, Shaped, Spoken

\* Aborted connections are over.
LEMMA ClosedFacts ==
  ASSUME Linked
  PROVE  /\ Closed(streams) \in Seq({"connecting", "open", "failed", "over"})
         /\ Closed(streams) # <<>> /\ Len(Closed(streams)) = Current
         /\ \A i \in 1..Current : Closed(streams)[i] = "over"
<1>1. Current \in Nat \ {0}
  BY EmptySeq DEF Linked, Current
<1>2. /\ Closed(streams) \in Seq({"connecting", "open", "failed", "over"})
      /\ Len(Closed(streams)) = Current
      /\ \A i \in 1..Current : Closed(streams)[i] = "over"
  BY <1>1 DEF Closed, Current
<1> QED
  BY <1>1, <1>2, EmptySeq

\* The rows stand as long as the wire stands or is lost.
LEMMA SettlingStays ==
  ASSUME Inv, Spares, status' = status, calls' = calls, agent' = agent, queued' = queued,
         abort' = abort \/ ~abort'
  PROVE  Settling'
<1>1. CASE wire' = wire
  BY <1>1 DEF Inv, Spares, Settling
<1>2. CASE wire' # wire
  <2>1. lost'
    BY <1>2 DEF Spares
  <2>2. \A p \in 1..Len(wire') : \E q \in 1..Len(wire) : wire'[p] = wire[q]
    <3>1. CASE wire' = <<>>
      BY <3>1, EmptySeq
    <3>2. CASE wire # <<>> /\ wire' = Tail(wire)
      BY <3>2, TailFacts DEF Inv, Shaped
    <3> QED
      BY <1>2, <3>1, <3>2 DEF Spares
  <2> QED
    BY <2>1, <2>2 DEF Inv, Spares, Settling
<1> QED
  BY <1>1, <1>2

\* Opening, failing, retrying and ending a connection.
LEMMA StreamKeeps ==
  ASSUME Inv, NEW i \in 1..Current,
         StreamOpens(i) \/ StreamFails(i) \/ StreamRetries(i) \/ StreamEnds(i)
  PROVE  Inv'
<1>1. /\ UNCHANGED <<kind, agent, queued, item, said, failed, up, knows, think, calls, abort,
                     pend, log, status, sent>>
      /\ \/ wire' = wire /\ lost' = lost
         \/ wire' = <<>> /\ (wire # <<>> => lost') /\ (lost => lost')
  BY ConnectSSEFacts DEF StreamOpens, StreamFails, StreamRetries, StreamEnds, theAgent, bridge, rows, Inv
<1>2. Begun' = Begun /\ Begun \in Nat
  BY <1>1 DEF Begun, Shaped, Inv
<1>3. Spares
  BY <1>1, <1>2 DEF Spares
<1>4. Shaped'
  <2>1. lost' \in BOOLEAN
    BY DEF StreamOpens, StreamFails, StreamRetries, StreamEnds, ConnectSSE, Shaped, Inv
  <2> QED
    BY <1>1, <1>3, <2>1, SparesShape DEF Shaped, Nothing, Inv
<1>5. Settling'
  BY <1>1, <1>3, SettlingStays
<1>6. Current \in Nat \ {0} /\ streams \in Seq({"connecting", "open", "failed", "over"})
  BY EmptySeq DEF Linked, Current, Inv
<1>7. CASE StreamRetries(i)
  <2>1. ConnectSSE /\ streams[i] = "failed"
    BY <1>7 DEF StreamRetries
  <2>2. kind # "codex" \/ lost
    BY <2>1 DEF Linked, Inv
  <2>3. /\ streams' \in Seq({"connecting", "open", "failed", "over"}) /\ streams' # <<>>
        /\ \A j \in 1..Len(streams') - 1 : streams'[j] = "over"
    BY <1>6, <2>1, ConnectSSEFacts, EmptySeq DEF Inv
  <2>4. Linked'
    BY <1>1, <2>2, <2>3 DEF Linked, Current, Inv
  <2> QED
    BY <1>3, <1>4, <1>5, <2>4, SparesKeeps
<1>8. CASE ~StreamRetries(i)
  <2>1. PICK x \in {"open", "failed", "over"} : streams' = [streams EXCEPT ![i] = x]
    BY <1>8 DEF StreamOpens, StreamFails, StreamEnds
  <2>2. streams[i] # "over" /\ (kind = "codex" => streams[i] # "open")
    BY <1>8 DEF StreamOpens, StreamFails, StreamEnds
  <2>3. i = Current
    BY <1>6, <2>2 DEF Linked, Inv
  <2>4. /\ streams' \in Seq({"connecting", "open", "failed", "over"}) /\ Len(streams') = Current
        /\ \A j \in 1..Current : streams'[j] = IF j = i THEN x ELSE streams[j]
    BY <1>6, <2>1, ExceptSeq DEF Current
  <2>5. kind # "codex" \/ lost
    BY <2>2, <2>3 DEF Linked, Inv
  <2>6. streams' # <<>> /\ \A j \in 1..Len(streams') - 1 : streams'[j] = "over"
    BY <1>6, <2>3, <2>4, EmptySeq DEF Linked, Inv
  <2>7. Linked'
    BY <1>1, <2>4, <2>5, <2>6 DEF Linked, Current, Inv
  <2> QED
    BY <1>3, <1>4, <1>5, <2>7, SparesKeeps
<1> QED
  BY <1>7, <1>8

\* An event that is torn apart is lost.
LEMMA TornKeeps ==
  ASSUME Inv, Torn
  PROVE  Inv'
<1>1. /\ UNCHANGED <<kind, agent, queued, item, said, failed, streams, up, knows, think, calls,
                     abort, pend, log, status, sent>>
      /\ wire # <<>> /\ wire' = Tail(wire) /\ lost'
  BY DEF Torn, theAgent, bridge, rows
<1>2. Begun' = Begun /\ Begun \in Nat
  BY <1>1 DEF Begun, Shaped, Inv
<1>3. Spares
  BY <1>1, <1>2 DEF Spares
<1>4. lost' \in BOOLEAN
  BY DEF Torn
<1>5. Shaped'
  BY <1>1, <1>3, <1>4, SparesShape DEF Shaped, Nothing, Inv
<1>6. Settling'
  BY <1>1, <1>3, SettlingStays
<1>7. Linked'
  BY <1>1 DEF Linked, Current, Inv
<1> QED
  BY <1>3, <1>5, <1>6, <1>7, SparesKeeps

\* Sending a message begins nothing yet.
LEMMA SendKeeps ==
  ASSUME Inv, SendMessage
  PROVE  Inv'
<1>1. /\ UNCHANGED <<kind, agent, item, said, failed, abort, log>>
      /\ sent' = sent + 1 /\ status' = "busy" /\ pend' = {} /\ up' = TRUE
      /\ queued' \in {queued, queued + 1} /\ calls' \in {calls, calls + 1}
      /\ kind # "codex" => calls' = calls
  BY DEF SendMessage
<1>2. /\ up => UNCHANGED <<streams, wire, lost, knows, think>>
      /\ ~up => ConnectSSE /\ lost /\ lost'
  BY ConnectSSEFacts DEF SendMessage, bridge, Linked, Inv
<1>3. /\ wire' \in {wire, <<>>} /\ (wire' # wire => lost') /\ (lost => lost') /\ lost' \in BOOLEAN
      /\ (knows' = knows /\ think' = think) \/ lost'
  BY <1>2, ConnectSSEFacts DEF Shaped, ConnectSSE, Inv
<1>4. /\ {queued, sent, calls} \subseteq Nat /\ queued <= sent
      /\ {queued', sent', calls'} \subseteq Nat /\ queued' <= sent'
      /\ Begun' >= Begun
  BY <1>1 DEF Shaped, Begun, Inv
<1>5. Spares
  BY <1>1, <1>3, <1>4 DEF Spares
<1>6. Shaped'
  BY <1>1, <1>3, <1>4, <1>5, SparesShape DEF Shaped, Nothing, Inv
<1>7. Linked'
  <2>1. CASE up
    BY <1>1, <1>2, <2>1 DEF Linked, Current, Inv
  <2>2. CASE ~up
    <3>1. Current \in Nat
      BY LenProperties DEF Linked, Current, Inv
    <3>2. /\ streams' \in Seq({"connecting", "open", "failed", "over"}) /\ streams' # <<>>
          /\ \A j \in 1..Len(streams') - 1 : streams'[j] = "over"
      BY <1>2, <2>2, <3>1, ConnectSSEFacts, EmptySeq DEF Inv
    <3> QED
      BY <1>1, <1>2, <2>2, <3>2 DEF Linked, Current, Inv
  <2> QED
    BY <2>1, <2>2 DEF Shaped, Inv
<1>8. ~lost' => queued' > 0
  <2> SUFFICES ASSUME ~lost' PROVE queued' > 0
    OBVIOUS
  <2>1. ~lost
    BY <1>3
  <2>2. kind = "codex" => Open # {}
    <3> SUFFICES ASSUME kind = "codex" PROVE Open # {}
      OBVIOUS
    <3>1. Current = 1 /\ streams[1] = "open"
      BY <2>1 DEF Linked, Inv
    <3> QED
      BY <3>1 DEF Open
  <2>3. queued' = queued + 1
    BY <2>2 DEF SendMessage
  <2> QED
    BY <1>4, <2>3
<1>9. Settling'
  <2>1. \A p \in 1..Len(wire') : wire'[p].ev = "error" /\ kind # "codex" => failed
    BY <1>3, EmptySeq DEF Settling, Inv
  <2> QED
    BY <1>1, <1>8, <2>1 DEF Settling, Inv
<1> QED
  BY <1>5, <1>6, <1>7, <1>9, SparesKeeps

\* An answered or timed-out request is one of Codex.
LEMMA CallKeeps ==
  ASSUME Inv, CallAnswered \/ CallTimesOut
  PROVE  Inv'
<1>1. /\ UNCHANGED <<kind, agent, queued, item, said, failed, wire, streams, up, lost, knows, think,
                     abort, pend, log, sent>>
      /\ calls \in Nat \ {0} /\ calls' = calls - 1 /\ status' \in {status, Marked}
  BY DEF CallAnswered, CallTimesOut, theAgent, link, bridge, rows, Shaped, Inv
<1>2. Begun' = Begun /\ Begun \in Nat
  BY <1>1 DEF Begun, Shaped, Inv
<1>3. Spares
  BY <1>1, <1>2 DEF Spares
<1>4. status' \in {"idle", "busy", "error"} /\ (status' = "busy" => status = "busy")
  BY <1>1 DEF Marked, Shaped, Inv
<1>5. Shaped'
  BY <1>1, <1>3, <1>4, SparesShape DEF Shaped, Nothing, Inv
<1>6. Linked'
  BY <1>1 DEF Linked, Current, Inv
<1>7. kind = "codex"
  BY <1>1 DEF Settling, Inv
<1>8. Settling'
  BY <1>1, <1>4, <1>7 DEF Settling, Inv
<1> QED
  BY <1>3, <1>5, <1>6, <1>8, SparesKeeps

\* The process or the control plane is gone.
LEMMA StopKeeps ==
  ASSUME Inv, ProcessExit \/ Restart
  PROVE  Inv'
<1>1. /\ UNCHANGED <<kind, said, failed, knows, think, log, sent>>
      /\ streams' = Closed(streams) /\ wire' = <<>> /\ lost' = TRUE /\ calls' = 0
      /\ pend' \subseteq pend /\ status' \in {status, Marked}
      /\ kind # "codex" => status' = status
      /\ up' \in BOOLEAN /\ abort' \in {abort, FALSE}
      /\ \/ agent' = "off" /\ queued' = 0 /\ item' = <<"none", item[2]>>
         \/ UNCHANGED <<agent, queued, item>>
  BY DEF ProcessExit, Restart, bridge, Shaped, Inv
<1>2. /\ {queued, sent, calls} \subseteq Nat /\ queued <= sent
      /\ {queued', sent', calls'} \subseteq Nat /\ queued' <= sent'
      /\ Begun' >= Begun
  BY <1>1 DEF Shaped, Begun, Inv
<1>3. Spares
  BY <1>1, <1>2 DEF Spares
<1>4. status' \in {"idle", "busy", "error"}
  BY <1>1 DEF Marked, Shaped, Inv
<1>5. Shaped'
  <2>1. agent' \in {"off", "begin", "on", "aborted", "end"} /\ (agent' \notin {"on", "aborted"} => Nothing')
    BY <1>1 DEF Shaped, Nothing, Inv
  <2>2. {failed', up', abort', lost'} \subseteq BOOLEAN
    BY <1>1 DEF Shaped, Inv
  <2> QED
    BY <1>1, <1>2, <1>3, <1>4, <2>1, <2>2, SparesShape DEF Shaped, Inv
<1>6. Linked'
  <2>1. /\ streams' \in Seq({"connecting", "open", "failed", "over"}) /\ streams' # <<>>
        /\ \A j \in 1..Len(streams') - 1 : streams'[j] = "over"
    <3>1. Current \in Nat
      BY LenProperties DEF Linked, Current, Inv
    <3> QED
      BY <1>1, <3>1, ClosedFacts DEF Inv
  <2> QED
    BY <1>1, <2>1 DEF Linked, Current, Inv
<1>7. Settling'
  <2>1. 1..Len(wire') = {}
    BY <1>1, EmptySeq
  <2>2. kind' # "codex" => calls' = 0 /\ (status' = "error" => failed')
    BY <1>1 DEF Settling, Inv
  <2>3. abort' => kind' # "codex"
    BY <1>1 DEF Settling, Shaped, Inv
  <2> QED
    BY <1>1, <2>1, <2>2, <2>3 DEF Settling, Inv
<1> QED
  BY <1>3, <1>5, <1>6, <1>7, SparesKeeps

\* An interrupt settles the row, whatever the agent does.
LEMMA InterruptKeeps ==
  ASSUME Inv, Interrupt \/ Interrupted
  PROVE  Inv'
<1>1. /\ UNCHANGED <<kind, queued, item, said, failed, up, knows, think, calls, pend, log, sent>>
      /\ agent' \in {agent, Aborted} /\ abort' \in BOOLEAN
      /\ abort' => kind # "codex"
      /\ status' \in {status, "idle"}
      /\ agent' # agent => status' = "idle"
      /\ \/ UNCHANGED <<streams, wire, lost>>
         \/ ConnectSSE /\ abort
  <2>1. CASE Interrupt
    BY <2>1 DEF Interrupt, link, bridge, Settling, Shaped, Inv
  <2>2. CASE Interrupted
    BY <2>2 DEF Interrupted, bridge, Settling, Shaped, Inv
  <2> QED
    BY <2>1, <2>2
<1>2. /\ wire' \in {wire, <<>>} /\ (wire' # wire => lost') /\ (lost => lost') /\ lost' \in BOOLEAN
  BY <1>1, ConnectSSEFacts DEF Shaped, ConnectSSE, Inv
<1>3. Begun' = Begun /\ Begun \in Nat
  BY <1>1 DEF Begun, Shaped, Inv
<1>4. Spares
  BY <1>1, <1>2, <1>3 DEF Spares
<1>5. Shaped'
  <2>1. agent' \in {"off", "begin", "on", "aborted", "end"} /\ (agent' \notin {"on", "aborted"} => Nothing')
    BY <1>1 DEF Shaped, Nothing, Aborted, Inv
  <2>2. status' \in {"idle", "busy", "error"}
    BY <1>1 DEF Shaped, Inv
  <2> QED
    BY <1>1, <1>2, <1>4, <2>1, <2>2, SparesShape DEF Shaped, Inv
<1>6. Linked'
  <2>1. CASE UNCHANGED <<streams, wire, lost>>
    BY <1>1, <2>1 DEF Linked, Current, Inv
  <2>2. CASE ConnectSSE /\ abort
    <3>1. Current \in Nat
      BY LenProperties DEF Linked, Current, Inv
    <3>2. /\ streams' \in Seq({"connecting", "open", "failed", "over"}) /\ streams' # <<>>
          /\ \A j \in 1..Len(streams') - 1 : streams'[j] = "over"
      BY <2>2, <3>1, ConnectSSEFacts, EmptySeq DEF Inv
    <3>3. kind # "codex"
      BY <2>2 DEF Settling, Inv
    <3> QED
      BY <1>1, <1>2, <3>2, <3>3 DEF Linked, Current, Inv
  <2> QED
    BY <1>1, <2>1, <2>2
<1>7. Settling'
  <2>1. CASE wire' = wire
    BY <1>1, <1>2, <2>1 DEF Settling, Inv
  <2>2. CASE wire' = <<>> /\ lost'
    BY <1>1, <2>2, EmptySeq DEF Settling, Inv
  <2> QED
    BY <1>2, <2>1, <2>2
<1> QED
  BY <1>4, <1>5, <1>6, <1>7, SparesKeeps

\* A session begins with nothing said and nothing stored.
LEMMA InvInit ==
  ASSUME EventAssumption, Init
  PROVE  Inv
<1>1. /\ wire = <<>> /\ Len(wire) = 0 /\ log = <<>> /\ Len(log) = 0 /\ said = <<>> /\ Len(said) = 0
      /\ pend = {} /\ ~lost
  BY EmptySeq DEF Init
<1>2. Shaped /\ Linked
  <2>1. /\ wire \in Seq(Events) /\ said \in Seq(Spoken)
        /\ log \in Seq([full : BOOLEAN, items : SUBSET (Spoken \cup ({"user"} \X Nat))])
    BY <1>1, EmptySeq
  <2>2. kind \in {"opencode", "legacy", "codex"}
    BY DEF Init, EventAssumption
  <2>3. item = <<"none", 0>> /\ item \in {"none"} \X Nat /\ Nothing
    BY DEF Init, Nothing
  <2>4. agent = "off" /\ queued = 0 /\ sent = 0 /\ calls = 0 /\ status = "idle" /\ pend = {}
        /\ failed = FALSE /\ up = TRUE /\ abort = FALSE /\ lost = FALSE
    BY DEF Init
  <2>5. {queued, sent, calls} \subseteq Nat /\ queued <= sent
    <3> HIDE DEF Spoken
    <3> QED
      BY <2>4
  <2>6. {failed, up, abort, lost} \subseteq BOOLEAN
    BY <2>4
  <2>7. /\ pend \subseteq {"text", "reason"} \X Nat
         /\ status \in {"idle", "busy", "error"}
         /\ agent \in {"off", "begin", "on", "aborted", "end"}
    BY <2>4
  <2>8. item \in Spoken \cup ({"none"} \X Nat)
    BY <2>3
  <2>9. Shaped
    BY <2>1, <2>2, <2>3, <2>6, <2>7, <2>8, <2>5 DEF Shaped
  <2>10. /\ streams \in Seq({"connecting", "open", "failed", "over"}) /\ Len(streams) = 1
        /\ kind = "codex" => streams[1] = "open"
    BY DEF Init
  <2>11. streams # <<>>
    BY DEF Init
  <2>12. Linked
    BY <2>10, <2>11 DEF Init, Linked, Current
  <2> QED
    BY <2>12, <2>9
<1>3. Ordered /\ Behind /\ Apart /\ Known /\ SaidInOrder
  BY <1>1 DEF Ordered, InOrder, Behind, Apart, NothingTwice, Known, Told, SaidInOrder
<1>4. Stored = 0
  <2>1. {k \in 1..0 : log[k].full} = {}
    OBVIOUS
  <2> QED
    BY <1>1, <2>1, FS_EmptySet DEF Stored, Place
<1>5. Faithful
  BY <1>1, <1>4 DEF Faithful
<1>6. Settling
  BY <1>1 DEF Settling, Init
<1> QED
  BY <1>2, <1>3, <1>5, <1>6 DEF Inv

\* Every step keeps the invariant.
LEMMA InvStep ==
  ASSUME Inv, [Next]_vars
  PROVE  Inv'
<1>1. CASE Deliver
  <2>1. Shaped' /\ Linked' /\ SaidInOrder' /\ Settling'
    BY <1>1, DeliverShape
  <2>2. Ordered' /\ Behind' /\ Apart' /\ Known'
    BY <1>1, <2>1, DeliverKeeps
  <2>3. Faithful'
    BY <1>1, <2>1, DeliverFaithful
  <2> QED
    BY <2>1, <2>2, <2>3 DEF Inv
<1>2. CASE UNCHANGED vars
  <2>1. UNCHANGED <<kind, agent, queued, item, said, failed, wire, streams, up, knows, think,
                    calls, abort, pend, log, status, sent, lost>>
    BY <1>2 DEF vars, theAgent, link, bridge, rows
  <2>2. Begun' = Begun /\ Begun \in Nat
    BY <2>1 DEF Begun, Inv, Shaped
  <2>3. Spares
    BY <2>1, <2>2 DEF Spares
  <2>4. Shaped' /\ Linked'
    BY <2>1 DEF Inv, Shaped, Nothing, Linked, Current
  <2>5. Settling'
    BY <2>1 DEF Inv, Settling
  <2> QED
    BY <2>3, <2>4, <2>5, SparesKeeps
<1> QED
  BY <1>1, <1>2, AgentKeeps, TornKeeps, StreamKeeps, SendKeeps, CallKeeps, StopKeeps,
     InterruptKeeps DEF Next

\* Nothing the agent said is stored twice.
THEOREM StoredOnce == EventAssumption => (Spec => []NothingTwice)
<1> SUFFICES ASSUME EventAssumption PROVE Spec => []NothingTwice
  OBVIOUS
<1>1. Init => Inv
  BY InvInit
<1>2. Inv => NothingTwice
  BY DEF Inv, Apart
<1> QED
  BY <1>1, <1>2, InvStep, PTL DEF Spec

\* As long as no event is lost the history is what the agent said.
THEOREM HistoryTells == EventAssumption => (Spec => []HistoryFaithful)
<1> SUFFICES ASSUME EventAssumption PROVE Spec => []HistoryFaithful
  OBVIOUS
<1>1. Init => Inv
  BY InvInit
<1>2. Inv => HistoryFaithful
  <2> SUFFICES ASSUME Inv, ~lost, wire = <<>> PROVE HistoryFaithful
    BY DEF HistoryFaithful
  <2>1. Len(wire) = 0 /\ Len(said) \in Nat /\ Stored \in Nat
    BY EmptySeq, PlaceFacts, LenProperties DEF Inv, Shaped
  <2>2. Stored = Len(said)
    <3> SUFFICES ASSUME Stored # Len(said) PROVE FALSE
      OBVIOUS
    <3>1. Len(said) \in Stored + 1..Len(said)
      BY <2>1 DEF Inv, Faithful
    <3> QED
      BY <2>1, <3>1 DEF Inv, Faithful
  <2> QED
    BY <2>2 DEF Inv, Faithful, HistoryFaithful, Stored
<1> QED
  BY <1>1, <1>2, InvStep, PTL DEF Spec

\* Once the agent rests and nothing was lost, the session says so.
THEOREM StatusTells == EventAssumption => (Spec => []StatusSettles)
<1> SUFFICES ASSUME EventAssumption PROVE Spec => []StatusSettles
  OBVIOUS
<1>1. Init => Inv
  BY InvInit
<1>2. Inv => StatusSettles
  <2>1. wire = <<>> => Len(wire) = 0
    BY EmptySeq
  <2> QED
    BY <2>1 DEF Inv, Settling, StatusSettles
<1> QED
  BY <1>1, <1>2, InvStep, PTL DEF Spec

-----------------------------------------------------------------------------
(* The panel.                                                              *)

(* Where an event stands in what is on its way to the browser.              *)
Marks   == {"started", "ended", "ready", "failed"}
Topics   == Marks \cup {"said", "asked", "created", "createdBare"}
Notices == [s : Sessions, ev : Topics]

Places(q, s, E) == {n \in 1..Len(q) : q[n].s = s /\ q[n].ev \in E}

\* What the browser has still to hear of a session: so many messages; no news
\* of a turn; a turn's news that is of the set E in the end; a question.
Unread(q, s)       == Cardinality(Places(q, s, {"said"}))
NoMark(q, s)       == Places(q, s, Marks) = {}
LastMark(q, s, E)  == \E n \in Places(q, s, E) : \A m \in Places(q, s, Marks) : m <= n
Question(q, s)     == Places(q, s, {"asked"}) # {}

Asked(op, s)      == \E i \in Slots : reqs[i].op = op /\ reqs[i].s = s
Posted(op, s, at) == \E i \in Slots : reqs[i].op = op /\ reqs[i].s = s /\ reqs[i].at = at

Made(s) == s \in Sessions /\ boot[s] # "new"

Requests == [op : {"free", "list", "load", "send", "stop", "reply", "bare", "prompt", "archive"},
             s : Sessions \cup {NoSession}, at : {"sent", "read", "done"}, stored : Nat,
             busy : BOOLEAN, init : BOOLEAN, ask : BOOLEAN, hit : BOOLEAN]

\* A request is about a session that is there; a creation's is once it is served.
Sound(i) ==
  /\ reqs[i].op = "free" => reqs[i].s = NoSession
  /\ reqs[i].op = "list" => reqs[i].s = NoSession \/ (Made(reqs[i].s) /\ reqs[i].at # "sent")
  /\ reqs[i].op \in {"load", "send", "stop", "reply", "archive"} => Made(reqs[i].s)
  /\ reqs[i].op \in {"bare", "prompt"} =>
       reqs[i].s \in Sessions /\ (reqs[i].at = "done" => Made(reqs[i].s))

PanelShaped ==
  /\ PanelTypeOK
  /\ queue \in Seq(Notices)
  /\ reqs \in [Slots -> Requests]
  /\ \A i \in Slots : Sound(i)
  /\ \A s \in Old \cup there \cup list \cup run : Made(s)
  /\ \A n \in 1..Len(queue) : Made(queue[n].s)
  /\ active # NoSession => Made(active)

\* n messages and the status b are what the rows of s say, once what is on the
\* way has been heard: with a message more while one is posted (u), and whatever the
\* turn while a stop is answered (x).
Agrees(s, n, b, u, x) ==
  /\ n + Unread(queue, s) = stored[s] + (IF u THEN 1 ELSE 0)
  /\ NoMark(queue, s) => (s \in busy => b) /\ (b => s \in busy \cup run \/ u \/ x)
  /\ LastMark(queue, s, {"started"}) => s \in run
  /\ LastMark(queue, s, Marks \ {"started"}) => s \notin busy

\* The question of s has a card, c, or is on the way.
Shows(s, c) == s \in ask => c \/ Question(queue, s)

Idle(s) == NoMark(queue, s) => s \notin busy

\* What an answer tells, if nothing has happened since that it does not tell.
Tells(r) ==
  ~r.hit =>
    /\ r.op = "load" /\ r.at # "sent" => Agrees(r.s, r.stored, r.busy, FALSE, FALSE)
    /\ r.op = "load" /\ r.at = "done" => Shows(r.s, r.ask)
    /\ r.op = "reply" /\ r.at = "done" => Shows(r.s, FALSE)
    /\ r.op = "stop" /\ r.at = "done" => Idle(r.s)

AnswersFresh == \A i \in Slots, r \in Requests : reqs[i] = r => Tells(r)

\* Nothing else is asked of a session while a load of it is on its way back.
LoadsAlone ==
  \A i, j \in Slots :
    reqs[i].op = "load" /\ reqs[i].at # "sent" /\ ~reqs[i].hit /\ reqs[j].s = reqs[i].s =>
      reqs[j].op \in {"load", "list"}

\* A creation that is heard of before it is answered has its load.
CreatesLoad ==
  \A i \in Slots :
    reqs[i].op \in {"bare", "prompt"} /\ reqs[i].s = active /\ ~skew => Asked("load", active)

OneSend ==
  \A i, j \in Slots : reqs[i].op = "send" => sending /\ (reqs[j].op = "send" => i = j)

Synced ==
  \A s \in Sessions, n \in Nat, b, u, x, c \in BOOLEAN :
    /\ ~skew /\ active = s /\ ~Asked("load", s) /\ ~Asked("archive", s)
    /\ n = Len(view) /\ (b <=> uiBusy) /\ (c <=> s \in cards)
    /\ (u <=> Posted("send", s, "sent")) /\ (x <=> Posted("stop", s, "done"))
    => /\ Agrees(s, n, b, u, x) /\ Shows(s, c)
       /\ \A k \in 1..Len(view) : view[k][1] = s

PanelInv == PanelShaped /\ CardsBelong /\ AnswersFresh /\ LoadsAlone /\ CreatesLoad /\ OneSend /\ Synced
-----------------------------------------------------------------------------

\* Places are positions of the queue, so they can be counted.
LEMMA PlacesFinite ==
  ASSUME NEW q \in Seq(Notices), NEW s, NEW E
  PROVE  /\ IsFiniteSet(Places(q, s, E)) /\ Cardinality(Places(q, s, E)) \in Nat
         /\ Places(q, s, E) \subseteq 1..Len(q)
<1>1. Places(q, s, E) \subseteq 1..Len(q)
  BY DEF Places
<1>2. IsFiniteSet(1..Len(q))
  BY FS_Interval
<1> QED
  BY <1>1, <1>2, FS_Subset, FS_CardinalityType

\* What a new event adds.
LEMMA PlacesAppend ==
  ASSUME NEW q \in Seq(Notices), NEW e \in Notices, NEW s, NEW E
  PROVE  /\ Places(Append(q, e), s, E) =
              Places(q, s, E) \cup (IF e.s = s /\ e.ev \in E THEN {Len(q) + 1} ELSE {})
         /\ Len(q) + 1 \notin Places(q, s, E)
  BY DEF Places

\* What is left when the first is heard: one place nearer.
LEMMA PlacesTail ==
  ASSUME NEW q \in Seq(Notices), q # <<>>, NEW s, NEW E
  PROVE  /\ \A n : n \in Places(Tail(q), s, E) <=> n \in Nat \ {0} /\ n + 1 \in Places(q, s, E)
         /\ 1 \in Places(q, s, E) <=> Head(q).s = s /\ Head(q).ev \in E
<1>1. Len(q) \in Nat \ {0} /\ Len(Tail(q)) = Len(q) - 1
  OBVIOUS
<1>2. \A n \in 1..Len(q) - 1 : Tail(q)[n] = q[n + 1]
  OBVIOUS
<1>3. Head(q) = q[1]
  OBVIOUS
<1> QED
  BY <1>1, <1>2, <1>3 DEF Places

\* When the first event is heard, there is a message less to hear if it was one.
LEMMA UnreadTail ==
  ASSUME NEW q \in Seq(Notices), q # <<>>, NEW s
  PROVE  Unread(q, s) = Unread(Tail(q), s) + (IF Head(q).s = s /\ Head(q).ev = "said" THEN 1 ELSE 0)
<1> DEFINE P == Places(q, s, {"said"})
           T == Places(Tail(q), s, {"said"})
           f == [n \in T |-> n + 1]
<1>1. Tail(q) \in Seq(Notices)
  OBVIOUS
<1>2. /\ \A n : n \in T <=> n \in Nat \ {0} /\ n + 1 \in P
      /\ 1 \in P <=> Head(q).s = s /\ Head(q).ev = "said"
  BY PlacesTail
<1>3. /\ IsFiniteSet(P) /\ Cardinality(P) \in Nat /\ P \subseteq 1..Len(q)
      /\ IsFiniteSet(T) /\ Cardinality(T) \in Nat /\ T \subseteq 1..Len(Tail(q))
  BY <1>1, PlacesFinite
<1>4. \A m \in P : m \in Nat /\ (m = 1 \/ (m # 1 /\ m - 1 \in Nat \ {0} /\ m - 1 + 1 = m))
  BY <1>3
<1> HIDE DEF P, T
<1>5. f \in Bijection(T, P \ {1})
  <2>1. f \in [T -> P \ {1}]
    BY <1>2
  <2>2. \A a, b \in T : f[a] = f[b] => a = b
    BY <1>2
  <2>3. \A m \in P \ {1} : \E a \in T : f[a] = m
    <3> SUFFICES ASSUME NEW m \in P \ {1} PROVE m - 1 \in T /\ f[m - 1] = m
      OBVIOUS
    <3> QED
      BY <1>2, <1>4
  <2> QED
    <3>1. f \in Injection(T, P \ {1})
      BY <2>1, <2>2 DEF Injection, IsInjective
    <3>2. f \in Surjection(T, P \ {1})
      BY <2>1, <2>3 DEF Surjection
    <3> QED
      BY <3>1, <3>2 DEF Bijection
<1>6. Cardinality(T) = Cardinality(P \ {1})
  BY <1>3, <1>5, FS_Bijection DEF ExistsBijection
<1>7. Cardinality(P \ {1}) = IF 1 \in P THEN Cardinality(P) - 1 ELSE Cardinality(P)
  BY <1>3, FS_RemoveElement
<1>8. Unread(q, s) = Cardinality(P) /\ Unread(Tail(q), s) = Cardinality(T)
  BY DEF Unread, P, T
<1> QED
  BY <1>2, <1>3, <1>6, <1>7, <1>8

\* A new event adds a message to hear if it is one.
LEMMA UnreadAppend ==
  ASSUME NEW q \in Seq(Notices), NEW e \in Notices, NEW s
  PROVE  Unread(Append(q, e), s) = Unread(q, s) + (IF e.s = s /\ e.ev = "said" THEN 1 ELSE 0)
<1>1. /\ Places(Append(q, e), s, {"said"}) =
           Places(q, s, {"said"}) \cup (IF e.s = s /\ e.ev = "said" THEN {Len(q) + 1} ELSE {})
      /\ Len(q) + 1 \notin Places(q, s, {"said"})
  BY PlacesAppend
<1>2. IsFiniteSet(Places(q, s, {"said"})) /\ Cardinality(Places(q, s, {"said"})) \in Nat
  BY PlacesFinite
<1>3. CASE e.s = s /\ e.ev = "said"
  BY <1>1, <1>2, <1>3, FS_AddElement DEF Unread
<1>4. CASE ~(e.s = s /\ e.ev = "said")
  <2>1. Places(Append(q, e), s, {"said"}) = Places(q, s, {"said"})
    BY <1>1, <1>4
  <2> QED
    BY <1>2, <1>4, <2>1 DEF Unread
<1> QED
  BY <1>3, <1>4

\* How many messages are still to be heard is a number.
LEMMA UnreadType == \A q \in Seq(Notices) : \A s : Unread(q, s) \in Nat
  BY PlacesFinite DEF Unread

\* With an empty queue there is nothing to hear.
LEMMA NothingUnread ==
  ASSUME NEW s
  PROVE  /\ Unread(<<>>, s) = 0 /\ NoMark(<<>>, s) /\ ~Question(<<>>, s)
         /\ \A E : ~LastMark(<<>>, s, E)
<1>1. \A E : Places(<<>>, s, E) = {}
  BY DEF Places
<1> QED
  BY <1>1, FS_EmptySet DEF Unread, NoMark, Question, LastMark

\* An event is added at the end.
LEMMA NewsAppend ==
  ASSUME NEW q \in Seq(Notices), NEW e \in Notices, NEW s
  PROVE  /\ NoMark(Append(q, e), s) <=> NoMark(q, s) /\ ~(e.s = s /\ e.ev \in Marks)
         /\ Question(Append(q, e), s) <=> Question(q, s) \/ (e.s = s /\ e.ev = "asked")
         /\ \A E \in SUBSET Marks :
              /\ e.s = s /\ e.ev \in Marks => (LastMark(Append(q, e), s, E) <=> e.ev \in E)
              /\ ~(e.s = s /\ e.ev \in Marks) => (LastMark(Append(q, e), s, E) <=> LastMark(q, s, E))
<1>1. \A E : /\ Places(Append(q, e), s, E) =
                  Places(q, s, E) \cup (IF e.s = s /\ e.ev \in E THEN {Len(q) + 1} ELSE {})
             /\ Places(q, s, E) \subseteq 1..Len(q)
  BY PlacesAppend, PlacesFinite
<1>2. NoMark(Append(q, e), s) <=> NoMark(q, s) /\ ~(e.s = s /\ e.ev \in Marks)
  BY <1>1 DEF NoMark
<1>3. Question(Append(q, e), s) <=> Question(q, s) \/ (e.s = s /\ e.ev = "asked")
  BY <1>1 DEF Question
<1>4. ASSUME NEW E \in SUBSET Marks
      PROVE  /\ e.s = s /\ e.ev \in Marks => (LastMark(Append(q, e), s, E) <=> e.ev \in E)
             /\ ~(e.s = s /\ e.ev \in Marks) => (LastMark(Append(q, e), s, E) <=> LastMark(q, s, E))
  <2> DEFINE A == Append(q, e)
  <2>1. /\ Places(A, s, E) = Places(q, s, E) \cup (IF e.s = s /\ e.ev \in E THEN {Len(q) + 1} ELSE {})
        /\ Places(A, s, Marks) =
             Places(q, s, Marks) \cup (IF e.s = s /\ e.ev \in Marks THEN {Len(q) + 1} ELSE {})
        /\ Places(q, s, E) \subseteq 1..Len(q) /\ Places(q, s, Marks) \subseteq 1..Len(q)
        /\ Len(q) \in Nat
    BY <1>1
  <2> HIDE DEF A
  <2>2. LastMark(A, s, E) <=> \E n \in Places(A, s, E) : \A m \in Places(A, s, Marks) : m <= n
    BY DEF LastMark
  <2>3. ASSUME e.s = s, e.ev \in Marks PROVE LastMark(A, s, E) <=> e.ev \in E
    <3> DEFINE l == Len(q) + 1
    <3>0. /\ l \in Places(A, s, Marks) /\ l \notin Places(q, s, E)
          /\ \A m \in Places(A, s, Marks) : m <= l
          /\ \A n \in Places(q, s, E) : ~(l <= n)
      BY <2>1, <2>3
    <3>1. CASE e.ev \in E
      <4>1. l \in Places(A, s, E)
        BY <2>1, <2>3, <3>1
      <4> QED
        BY <2>2, <2>3, <3>0, <3>1, <4>1
    <3>2. CASE e.ev \notin E
      <4>1. Places(A, s, E) = Places(q, s, E)
        BY <2>1, <3>2
      <4> QED
        BY <2>2, <2>3, <3>0, <3>2, <4>1
    <3> QED
      BY <3>1, <3>2
  <2>4. ASSUME ~(e.s = s /\ e.ev \in Marks) PROVE LastMark(A, s, E) <=> LastMark(q, s, E)
    <3>1. Places(A, s, E) = Places(q, s, E) /\ Places(A, s, Marks) = Places(q, s, Marks)
      BY <2>1, <2>4
    <3> QED
      <4>1. LastMark(A, s, E) <=> \E n \in Places(q, s, E) : \A m \in Places(q, s, Marks) : m <= n
        BY <2>2, <3>1
      <4>2. LastMark(q, s, E) <=> \E n \in Places(q, s, E) : \A m \in Places(q, s, Marks) : m <= n
        BY DEF LastMark
      <4> QED
        BY <2>4, <4>1, <4>2
  <2> QED
    BY <2>3, <2>4 DEF A
<1> QED
  BY <1>2, <1>3, <1>4

\* The first is heard.
LEMMA NewsTail ==
  ASSUME NEW q \in Seq(Notices), q # <<>>, NEW s
  PROVE  /\ NoMark(q, s) <=> NoMark(Tail(q), s) /\ ~(Head(q).s = s /\ Head(q).ev \in Marks)
         /\ Question(q, s) <=> Question(Tail(q), s) \/ (Head(q).s = s /\ Head(q).ev = "asked")
         /\ \A E \in SUBSET Marks :
              LastMark(q, s, E) <=>
                LastMark(Tail(q), s, E) \/ (NoMark(Tail(q), s) /\ Head(q).s = s /\ Head(q).ev \in E)
<1>1. \A E : /\ \A n : n \in Places(Tail(q), s, E) <=> n \in Nat \ {0} /\ n + 1 \in Places(q, s, E)
             /\ 1 \in Places(q, s, E) <=> Head(q).s = s /\ Head(q).ev \in E
             /\ Places(q, s, E) \subseteq 1..Len(q)
  BY PlacesTail, PlacesFinite
<1>2. Len(q) \in Nat
  OBVIOUS
<1>3. \A n \in 1..Len(q) : n = 1 \/ (n # 1 /\ n - 1 \in Nat \ {0} /\ (n - 1) + 1 = n)
  BY <1>2
<1>4. ASSUME NEW E
      PROVE  Places(q, s, E) = {} <=> Places(Tail(q), s, E) = {} /\ ~(Head(q).s = s /\ Head(q).ev \in E)
  <2>1. \A n \in Places(q, s, E) : n = 1 \/ n - 1 \in Places(Tail(q), s, E)
    BY <1>1, <1>3
  <2> QED
    BY <1>1, <2>1
<1>5. ASSUME NEW E \in SUBSET Marks
      PROVE  LastMark(q, s, E) <=>
                LastMark(Tail(q), s, E) \/ (NoMark(Tail(q), s) /\ Head(q).s = s /\ Head(q).ev \in E)
  <2> DEFINE P == Places(q, s, E)
             M == Places(q, s, Marks)
             TP == Places(Tail(q), s, E)
             TM == Places(Tail(q), s, Marks)
  <2>1. /\ \A n : n \in TP <=> n \in Nat \ {0} /\ n + 1 \in P
        /\ \A n : n \in TM <=> n \in Nat \ {0} /\ n + 1 \in M
        /\ 1 \in P <=> Head(q).s = s /\ Head(q).ev \in E
        /\ P \subseteq 1..Len(q) /\ M \subseteq 1..Len(q)
    BY <1>1
  <2>2. LastMark(q, s, E) <=> \E n \in P : \A m \in M : m <= n
    BY DEF LastMark
  <2>3. LastMark(Tail(q), s, E) <=> \E n \in TP : \A m \in TM : m <= n
    BY DEF LastMark
  <2>4. NoMark(Tail(q), s) <=> TM = {}
    BY DEF NoMark
  <2> HIDE DEF P, M, TP, TM
  <2>5. ASSUME NEW n \in P, \A m \in M : m <= n
        PROVE  (\E k \in TP : \A m \in TM : m <= k) \/ (TM = {} /\ 1 \in P)
    <3>1. CASE n = 1
      <4>1. TM = {}
        <5> SUFFICES ASSUME NEW k \in TM PROVE FALSE
          OBVIOUS
        <5>1. k \in Nat \ {0} /\ k + 1 \in M
          BY <2>1
        <5> QED
          BY <5>1, <2>5, <3>1
      <4> QED
        BY <4>1, <3>1
    <3>2. CASE n # 1
      <4>1. n \in 1..Len(q) /\ n - 1 \in Nat \ {0} /\ (n - 1) + 1 = n
        BY <3>2, <2>1, <1>2
      <4>2. n - 1 \in TP
        BY <4>1, <2>1
      <4>3. ASSUME NEW m \in TM PROVE m <= n - 1
        <5>1. m \in Nat \ {0} /\ m + 1 \in M
          BY <2>1
        <5> QED
          BY <5>1, <4>1, <2>5
      <4> QED
        BY <4>2, <4>3
    <3> QED
      BY <3>1, <3>2
  <2>6. ASSUME NEW k \in TP, \A m \in TM : m <= k
        PROVE  \E n \in P : \A m \in M : m <= n
    <3>1. k \in Nat \ {0} /\ k + 1 \in P
      BY <2>1
    <3>2. ASSUME NEW m \in M PROVE m <= k + 1
      <4>1. m \in 1..Len(q)
        BY <2>1
      <4>2. CASE m = 1
        BY <4>2, <3>1
      <4>3. CASE m # 1
        <5>1. m - 1 \in Nat \ {0} /\ (m - 1) + 1 = m
          BY <4>1, <4>3, <1>2
        <5>2. m - 1 \in TM
          BY <5>1, <2>1
        <5>3. m - 1 <= k
          BY <5>2, <2>6
        <5> QED
          BY <5>3, <5>1, <3>1, <4>1
      <4> QED
        BY <4>2, <4>3
    <3> QED
      BY <3>1, <3>2
  <2>7. ASSUME TM = {}, 1 \in P PROVE \A m \in M : m <= 1
    <3> SUFFICES ASSUME NEW m \in M, m # 1 PROVE FALSE
      BY <2>1, <1>2
    <3>1. m - 1 \in Nat \ {0} /\ (m - 1) + 1 = m
      BY <2>1, <1>2
    <3> QED
      BY <3>1, <2>1, <2>7
  <2> QED
    BY <2>1, <2>2, <2>3, <2>4, <2>5, <2>6, <2>7
<1> QED
  BY <1>4, <1>5 DEF NoMark, Question

\* Request j is as before, but that it may have been overtaken.
Carried(j) ==
  /\ reqs'[j].op = reqs[j].op /\ reqs'[j].s = reqs[j].s /\ reqs'[j].at = reqs[j].at
  /\ reqs'[j].stored = reqs[j].stored /\ reqs'[j].busy = reqs[j].busy /\ reqs'[j].ask = reqs[j].ask
  /\ reqs[j].hit => reqs'[j].hit

\* What a request looks like when it is made.
LEMMA RequestFacts ==
  /\ Free \in Requests /\ Free.op = "free" /\ Free.s = NoSession
  /\ \A op \in {"list", "load", "send", "stop", "reply", "bare", "prompt", "archive"},
        s \in Sessions \cup {NoSession} :
       /\ Request(op, s) \in Requests /\ Request(op, s).op = op /\ Request(op, s).s = s
       /\ Request(op, s).at = "sent" /\ ~Request(op, s).hit
BY DEF Free, Request, Requests

\* To mark requests as overtaken changes nothing else in them.
LEMMA HitFacts ==
  ASSUME NEW r \in Requests, NEW h \in BOOLEAN
  PROVE  LET m == [r EXCEPT !.hit = h]
         IN  /\ m \in Requests /\ m.op = r.op /\ m.s = r.s /\ m.at = r.at /\ m.hit = h
             /\ m.stored = r.stored /\ m.busy = r.busy /\ m.ask = r.ask
BY DEF Requests

\* The marks that news of session t leaves on the requests.
LEMMA HitSlots ==
  ASSUME reqs \in [Slots -> Requests], NEW t, NEW j \in Slots
  PROVE  /\ Hit(t) \in [Slots -> Requests]
         /\ Hit(t)[j].op = reqs[j].op /\ Hit(t)[j].s = reqs[j].s /\ Hit(t)[j].at = reqs[j].at
         /\ Hit(t)[j].stored = reqs[j].stored /\ Hit(t)[j].busy = reqs[j].busy
         /\ Hit(t)[j].ask = reqs[j].ask /\ (reqs[j].hit => Hit(t)[j].hit)
         /\ IF reqs[j].s = t THEN Hit(t)[j].hit ELSE Hit(t)[j] = reqs[j]
<1>1. \A k \in Slots : [reqs[k] EXCEPT !.hit = TRUE] \in Requests
  BY HitFacts
<1>2. Hit(t) \in [Slots -> Requests]
  BY <1>1 DEF Hit
<1>3. Hit(t)[j] = IF reqs[j].s = t THEN [reqs[j] EXCEPT !.hit = TRUE] ELSE reqs[j]
  BY DEF Hit
<1> QED
  BY <1>2, <1>3, HitFacts

\* What a row's event does to the requests.
LEMMA PassedSlots ==
  ASSUME reqs \in [Slots -> Requests], NEW t, NEW j \in Slots
  PROVE  /\ Passed(t) \in [Slots -> Requests]
         /\ Passed(t)[j].op = reqs[j].op /\ Passed(t)[j].s = reqs[j].s /\ Passed(t)[j].at = reqs[j].at
         /\ Passed(t)[j].stored = reqs[j].stored /\ Passed(t)[j].busy = reqs[j].busy
         /\ Passed(t)[j].ask = reqs[j].ask /\ (reqs[j].hit => Passed(t)[j].hit)
         /\ reqs[j].s # t \/ sock = "open" => Passed(t)[j] = reqs[j]
         /\ reqs[j].s = t /\ sock # "open" => Passed(t)[j].hit
BY HitSlots DEF Passed

-----------------------------------------------------------------------------
(* The shape of the state. *)

\* At first every session that is known is an old one.
LEMMA PanelShapeInit == PanelInit => PanelShaped
<1> SUFFICES ASSUME PanelInit PROVE PanelShaped
  OBVIOUS
<1> USE PanelAssumption DEF PanelInit, Sessions
<1>1. PanelTypeOK
  <2>1. {MaxLog, MaxActs} \subseteq Nat \ {0}
    OBVIOUS
  <2>2. stored \in [Sessions -> 0..MaxLog] /\ acts \in 0..MaxActs
    BY <2>1
  <2>3. boot \in [Sessions -> {"new", "no", "bare", "prompt"}]
    OBVIOUS
  <2>4. {uiBusy, creating, timer, sending, skew} \subseteq BOOLEAN
    OBVIOUS
  <2>5. view \in Seq(Sessions \X Nat) /\ cards \subseteq Sessions /\ active \in Sessions \cup {NoSession}
    OBVIOUS
  <2>6. {there, busy, spoke, run, ask, list} \subseteq SUBSET Sessions
    OBVIOUS
  <2>7. sock \in {"none", "open", "gap", "closed"}
    OBVIOUS
  <2> HIDE DEF PanelInit
  <2> QED
    BY <2>2, <2>3, <2>4, <2>5, <2>6, <2>7 DEF PanelTypeOK
<1>2. queue \in Seq(Notices) /\ \A n \in 1..Len(queue) : Made(queue[n].s)
  OBVIOUS
<1>3. reqs \in [Slots -> Requests] /\ \A i \in Slots : Sound(i)
  BY RequestFacts DEF Sound
<1> QED
  BY <1>1, <1>2, <1>3 DEF PanelShaped, Made

\* Rows, once there, stay known; so the parts of the shape are kept apart.
LEMMA ShapeFrom ==
  ASSUME PanelShaped, PanelTypeOK',
         \A s : Made(s) => Made(s)',
         \A s \in Old \cup there' \cup list' \cup run' : Made(s)',
         queue' \in Seq(Notices), (\A n \in 1..Len(queue) : Made(queue[n].s))',
         reqs' \in [Slots -> Requests], \A i \in Slots : Carried(i) \/ Sound(i)',
         active' # NoSession => Made(active)'
  PROVE  PanelShaped'
<1>1. \A i \in Slots : Carried(i) => Sound(i)'
  BY DEF PanelShaped, Sound, Carried
<1> QED
  BY <1>1 DEF PanelShaped, Made

\* An event is put on the socket, or lost.
LEMMA BroadcastShape ==
  ASSUME PanelShaped, NEW t \in Sessions, NEW e \in Topics, Broadcast(t, e), Made(t)',
         \A s : Made(s) => Made(s)'
  PROVE  /\ queue' \in Seq(Notices) /\ (\A n \in 1..Len(queue) : Made(queue[n].s))'
         /\ skew' \in BOOLEAN
         /\ UNCHANGED <<sock, list, active, view, uiBusy, creating, timer, sending, cards>>
<1>1. [s |-> t, ev |-> e] \in Notices
  BY DEF Notices
<1>2. queue' \in Seq(Notices) /\ (\A n \in 1..Len(queue) : Made(queue[n].s))'
  <2>1. CASE sock = "open"
    <3>1. queue' = Append(queue, [s |-> t, ev |-> e])
      BY <2>1 DEF Broadcast
    <3>2. \A n \in 1..Len(queue') : (n \in 1..Len(queue) /\ queue'[n] = queue[n]) \/ queue'[n].s = t
      BY <3>1, <1>1 DEF PanelShaped
    <3> QED
      BY <3>1, <3>2, <1>1 DEF PanelShaped, Made
  <2>2. CASE sock # "open"
    BY <2>2 DEF Broadcast, PanelShaped, Made
  <2> QED
    BY <2>1, <2>2
<1>3. skew' \in BOOLEAN
  BY DEF Broadcast, PanelShaped, PanelTypeOK
<1> QED
  BY <1>2, <1>3 DEF Broadcast, panel

\* The requests that an event overtakes.
LEMMA UnheardShape ==
  ASSUME PanelShaped, NEW t, Unheard(t)
  PROVE  reqs' \in [Slots -> Requests] /\ \A j \in Slots : Carried(j)
<1>1. reqs' = Passed(t) /\ reqs \in [Slots -> Requests]
  BY DEF Unheard, PanelShaped
<1>2. Passed(t) \in [Slots -> Requests]
  BY <1>1, PassedSlots, PanelAssumption, 1 \in Slots DEF Slots
<1>3. ASSUME NEW j \in Slots PROVE Carried(j)
  BY <1>1, PassedSlots DEF Carried
<1> QED
  BY <1>1, <1>2, <1>3

\* The rows of t change, and an event is sent.
LEMMA EventShape ==
  ASSUME PanelShaped, acts' \in 0..MaxActs, NEW t \in Sessions,
         \E e \in Topics : Broadcast(t, e),
         {there', busy', spoke', run', ask'} \subseteq SUBSET Sessions,
         stored' \in [Sessions -> 0..MaxLog],
         boot' \in [Sessions -> {"new", "no", "bare", "prompt"}],
         there' \subseteq there \cup {t}, run' \subseteq run \cup {t},
         Made(t)', \A s \in Sessions : boot'[s] = "new" => boot[s] = "new",
         reqs' \in [Slots -> Requests], \A j \in Slots : Carried(j) \/ Sound(j)'
  PROVE  PanelShaped'
<1>1. \A s : Made(s) => Made(s)'
  BY DEF Made
<1>2. PICK e \in Topics : Broadcast(t, e)
  OBVIOUS
<1>3. /\ queue' \in Seq(Notices) /\ (\A n \in 1..Len(queue) : Made(queue[n].s))'
      /\ skew' \in BOOLEAN
      /\ UNCHANGED <<sock, list, active, view, uiBusy, creating, timer, sending, cards>>
  BY <1>1, <1>2, BroadcastShape
<1>4. PanelTypeOK'
  BY <1>3 DEF PanelShaped, PanelTypeOK
<1>5. (\A s \in Old \cup there \cup list \cup run : Made(s))' /\ (active # NoSession => Made(active))'
  BY <1>1, <1>3 DEF PanelShaped, Made
<1> QED
  BY <1>1, <1>3, <1>4, <1>5, ShapeFrom

\* The agent's steps keep the shape.
LEMMA AgentShape ==
  ASSUME PanelShaped, UNCHANGED acts, NEW t \in Sessions,
         Started(t) \/ StartFails(t) \/ AgentSays(t) \/ AgentAsks(t) \/ TurnEnds(t)
  PROVE  PanelShaped'
<1> USE PanelAssumption
<1>0. Made(t)
  BY DEF Started, StartFails, AgentSays, AgentAsks, TurnEnds, PanelShaped, PanelTypeOK, Made
<1>1. acts' \in 0..MaxActs /\ PanelTypeOK
  BY DEF PanelShaped, PanelTypeOK
<1>2. reqs' \in [Slots -> Requests] /\ \A j \in Slots : Carried(j)
  BY UnheardShape DEF Started, StartFails, AgentSays, AgentAsks, TurnEnds
<1>3. \E e \in Topics : Broadcast(t, e)
  BY DEF Started, StartFails, AgentSays, AgentAsks, TurnEnds, Topics, Marks
<1>4. /\ there' = there /\ run' \subseteq run \cup {t} /\ busy' \subseteq busy \cup {t}
      /\ spoke' \subseteq spoke \cup {t} /\ ask' \subseteq ask \cup {t}
  BY DEF Started, StartFails, AgentSays, AgentAsks, TurnEnds
<1>5. boot' = boot \/ boot' = [boot EXCEPT ![t] = "no"]
  BY DEF Started, StartFails, AgentSays, AgentAsks, TurnEnds
<1>6. stored' = stored \/ (stored[t] < MaxLog /\ stored' = [stored EXCEPT ![t] = @ + 1])
  BY DEF Started, StartFails, AgentSays, AgentAsks, TurnEnds
<1>7. {there', busy', spoke', run', ask'} \subseteq SUBSET Sessions
  BY <1>1, <1>4 DEF PanelTypeOK
<1>8. stored' \in [Sessions -> 0..MaxLog]
  BY <1>1, <1>6, SMTT(30) DEF PanelTypeOK
<1>9. /\ boot' \in [Sessions -> {"new", "no", "bare", "prompt"}] /\ Made(t)'
      /\ \A s \in Sessions : boot'[s] = "new" => boot[s] = "new"
  BY <1>0, <1>1, <1>5 DEF PanelTypeOK, Made
<1> QED
  BY <1>1, <1>2, <1>3, <1>4, <1>7, <1>8, <1>9, EventShape

\* A row is written by createSession.
LEMMA CreateShape ==
  ASSUME PanelShaped, acts' \in 0..MaxActs, NEW t \in Sessions, NEW p \in {"bare", "prompt"}, CreateRow(t, p),
         reqs' \in [Slots -> Requests], \A j \in Slots : Carried(j) \/ Sound(j)'
  PROVE  PanelShaped'
<1>1. PanelTypeOK
  BY DEF PanelShaped
<1>2. \E e \in Topics : Broadcast(t, e)
  BY DEF CreateRow, Topics
<1>3. there' = there \cup {t} /\ run' = run /\ spoke' = spoke /\ ask' = ask /\ busy' \subseteq busy \cup {t}
  BY DEF CreateRow, Pick
<1>4. {there', busy', spoke', run', ask'} \subseteq SUBSET Sessions
  BY <1>1, <1>3 DEF PanelTypeOK
<1>5. stored' \in [Sessions -> 0..MaxLog]
  <2>1. MaxLog \in Nat \ {0}
    BY PanelAssumption
  <2> QED
    BY <1>1, <2>1 DEF CreateRow, PanelTypeOK
<1>6. /\ boot' \in [Sessions -> {"new", "no", "bare", "prompt"}] /\ Made(t)'
      /\ \A s \in Sessions : boot'[s] = "new" => boot[s] = "new"
  BY <1>1 DEF CreateRow, PanelTypeOK, Made
<1> QED
  BY <1>2, <1>3, <1>4, <1>5, <1>6, EventShape

\* One request is written anew.
LEMMA OneSlot ==
  ASSUME PanelShaped, NEW i \in Slots, NEW r \in Requests, reqs' = [reqs EXCEPT ![i] = r]
  PROVE  /\ reqs' \in [Slots -> Requests] /\ reqs'[i] = r
         /\ \A j \in Slots \ {i} : reqs'[j] = reqs[j] /\ Carried(j)
BY DEF PanelShaped, Carried

\* What the routes do, but for the two that send an event.
LEMMA ServeShape ==
  ASSUME PanelShaped, UNCHANGED acts, NEW i \in Slots,
         \/ ServeLoad(i) \/ ServePending(i) \/ ServeList(i)
         \/ ServeStop(i) \/ ServeReply(i) \/ ServeArchive(i)
  PROVE  PanelShaped'
<1>1. PanelTypeOK /\ reqs[i] \in Requests /\ Sound(i) /\ reqs \in [Slots -> Requests]
  BY DEF PanelShaped
<1>2. /\ busy' \subseteq busy /\ there' \subseteq there /\ run' \subseteq run /\ ask' \subseteq ask /\ spoke' = spoke
      /\ UNCHANGED <<stored, queue, sock, list, active, view, uiBusy, creating, timer, sending, cards, skew>>
      /\ boot' = boot \/ boot' = [boot EXCEPT ![reqs[i].s] = "no"]
  BY DEF ServeLoad, ServePending, ServeList, ServeStop, ServeReply, ServeArchive, sessionRows, panel
<1>3. PanelTypeOK' /\ \A s \in Sessions : boot'[s] = "new" => boot[s] = "new"
  <2>1. /\ boot' \in [Sessions -> {"new", "no", "bare", "prompt"}]
        /\ \A s \in Sessions : boot'[s] = "new" => boot[s] = "new"
    BY <1>1, <1>2 DEF PanelTypeOK
  <2>2. {there', busy', spoke', run', ask', list'} \subseteq SUBSET Sessions
    BY <1>1, <1>2 DEF PanelTypeOK
  <2> QED
    BY <1>1, <1>2, <2>1, <2>2 DEF PanelTypeOK
<1>4. \A s : Made(s) => Made(s)'
  BY <1>3 DEF Made
<1>5. \E r \in Requests : reqs' = [reqs EXCEPT ![i] = r] /\ Sound(i)'
  <2>1. CASE ServeLoad(i)
    <3> DEFINE r == [reqs[i] EXCEPT !.at = "read", !.stored = stored[reqs[i].s], !.busy = reqs[i].s \in busy,
                                    !.init = reqs[i].s \in busy \ spoke,
                                    !.hit = \/ InQueue(reqs[i].s)
                                            \/ \E j \in Slots : /\ reqs[j].s = reqs[i].s
                                                                /\ reqs[j].op # "load"]
    <3>1. reqs' = [reqs EXCEPT ![i] = r]
      BY <2>1 DEF ServeLoad, Served
    <3>2. r \in Requests /\ r.op = "load" /\ r.s = reqs[i].s
      <4> DEFINE n == stored[reqs[i].s]
                 b == reqs[i].s \in busy
                 u == reqs[i].s \in busy \ spoke
                 h == \/ InQueue(reqs[i].s)
                      \/ \E j \in Slots : reqs[j].s = reqs[i].s /\ reqs[j].op # "load"
      <4>1. n \in Nat /\ reqs[i].op = "load"
        BY <1>1, <2>1, PanelAssumption DEF ServeLoad, Sound, Made, PanelTypeOK
      <4>2. {b, u, h} \subseteq BOOLEAN
        BY DEF InQueue
      <4>3. r = [reqs[i] EXCEPT !.at = "read", !.stored = n, !.busy = b, !.init = u, !.hit = h]
        OBVIOUS
      <4> HIDE DEF n, b, u, h, r
      <4> QED
        BY <1>1, <4>1, <4>2, <4>3 DEF Requests
    <3>3. Sound(i)'
      BY <1>1, <1>4, <2>1, <3>1, <3>2 DEF ServeLoad, Sound
    <3> QED
      BY <3>1, <3>2, <3>3
  <2>2. CASE ServePending(i)
    <3> DEFINE r == [reqs[i] EXCEPT !.at = "done", !.ask = reqs[i].s \in ask]
    <3>1. reqs' = [reqs EXCEPT ![i] = r]
      BY <2>2 DEF ServePending, Served
    <3>2. r \in Requests /\ r.op = "load" /\ r.s = reqs[i].s
      <4> DEFINE a == reqs[i].s \in ask
      <4>1. a \in BOOLEAN /\ r = [reqs[i] EXCEPT !.at = "done", !.ask = a] /\ reqs[i].op = "load"
        BY <2>2 DEF ServePending
      <4> HIDE DEF a, r
      <4> QED
        BY <1>1, <4>1 DEF Requests
    <3>3. Sound(i)'
      BY <1>1, <1>4, <2>2, <3>1, <3>2 DEF ServePending, Sound
    <3> QED
      BY <3>1, <3>2, <3>3
  <2>3. CASE ServeList(i)
    <3> DEFINE c == CHOOSE s \in there \cup {NoSession} : there = {} \/ s \in there
               r == [reqs[i] EXCEPT !.at = "done", !.s = c]
    <3>1. reqs' = [reqs EXCEPT ![i] = r]
      BY <2>3 DEF ServeList, Served
    <3>2. c \in there \cup {NoSession}
      <4>1. \E s \in there \cup {NoSession} : there = {} \/ s \in there
        OBVIOUS
      <4> QED
        BY <4>1
    <3>3. r \in Requests /\ r.op = "list" /\ r.s = c /\ r.at = "done"
      BY <1>1, <2>3, <3>2 DEF ServeList, Requests, PanelTypeOK
    <3>4. c = NoSession \/ Made(c)
      BY <3>2 DEF PanelShaped
    <3>5. Sound(i)'
      BY <1>1, <1>4, <3>1, <3>3, <3>4 DEF Sound
    <3> QED
      BY <3>1, <3>3, <3>5
  <2>4. CASE ServeStop(i) \/ ServeReply(i) \/ ServeArchive(i)
    <3> DEFINE r == [reqs[i] EXCEPT !.at = "done"]
    <3>1. reqs' = [reqs EXCEPT ![i] = r] /\ reqs[i].op \in {"stop", "reply", "archive"}
      BY <2>4 DEF ServeStop, ServeReply, ServeArchive, Served
    <3>2. r \in Requests /\ r.op = reqs[i].op /\ r.s = reqs[i].s
      BY <1>1 DEF Requests
    <3>3. Sound(i)'
      BY <1>1, <1>4, <3>1, <3>2 DEF Sound
    <3> QED
      BY <3>1, <3>2, <3>3
  <2> QED
    BY <2>1, <2>2, <2>3, <2>4
<1>6. reqs' \in [Slots -> Requests] /\ \A j \in Slots : Carried(j) \/ Sound(j)'
  BY <1>5, OneSlot
<1>7. /\ queue' \in Seq(Notices) /\ (\A n \in 1..Len(queue) : Made(queue[n].s))'
      /\ (\A s \in Old \cup there \cup list \cup run : Made(s))' /\ (active # NoSession => Made(active))'
  BY <1>2, <1>4 DEF PanelShaped, Made
<1> QED
  BY <1>3, <1>4, <1>6, <1>7, ShapeFrom

\* The routes that send an event.
LEMMA ServeNewsShape ==
  ASSUME PanelShaped, UNCHANGED acts, NEW i \in Slots, ServeSend(i) \/ ServeCreate(i)
  PROVE  PanelShaped'
<1> DEFINE r == [reqs[i] EXCEPT !.at = "done"]
<1>1. PanelTypeOK /\ reqs[i] \in Requests /\ Sound(i) /\ reqs \in [Slots -> Requests]
  BY DEF PanelShaped
<1>0. PICK t \in Sessions : t = reqs[i].s
  BY <1>1 DEF ServeSend, ServeCreate, Sound, Made
<1>2. reqs' = [Passed(t) EXCEPT ![i] = r] /\ reqs[i].op \in {"send", "bare", "prompt"}
  BY <1>0 DEF ServeSend, ServeCreate
<1>3. r \in Requests /\ r.op = reqs[i].op /\ r.s = t /\ r.at = "done"
  BY <1>0, <1>1 DEF Requests
<1>4. Passed(t) \in [Slots -> Requests]
  BY <1>1, PassedSlots
<1>5. reqs' \in [Slots -> Requests] /\ reqs'[i] = r
  BY <1>2, <1>3, <1>4
<1>6. ASSUME NEW j \in Slots \ {i} PROVE Carried(j)
  <2>1. reqs'[j] = Passed(t)[j]
    BY <1>2, <1>4
  <2> QED
    BY <1>1, <2>1, PassedSlots DEF Carried
<1>8. Made(t)' => Sound(i)'
  BY <1>2, <1>3, <1>5, <1>0 DEF Sound
<1>9. CASE ServeSend(i)
  <2>1. \E e \in Topics : Broadcast(t, e)
    BY <1>0, <1>9 DEF ServeSend, Topics, Marks
  <2>2. there' = there /\ run' = run \cup {t} /\ spoke' = spoke /\ ask' = ask /\ busy' = busy \cup {t} /\ boot' = boot
    BY <1>0, <1>9 DEF ServeSend
  <2>3. {there', busy', spoke', run', ask'} \subseteq SUBSET Sessions
    BY <1>1, <1>0, <2>2 DEF PanelTypeOK
  <2>4. stored' \in [Sessions -> 0..MaxLog]
    <3>1. MaxLog \in Nat /\ stored[t] < MaxLog /\ stored' = [stored EXCEPT ![t] = @ + 1]
      BY <1>0, <1>9, PanelAssumption DEF ServeSend
    <3> QED
      BY <1>1, <1>0, <3>1 DEF PanelTypeOK
  <2>5. /\ boot' \in [Sessions -> {"new", "no", "bare", "prompt"}] /\ Made(t)'
        /\ \A s \in Sessions : boot'[s] = "new" => boot[s] = "new"
    <3>1. boot[t] = "no"
      BY <1>0, <1>9 DEF ServeSend
    <3> QED
      BY <1>1, <1>0, <2>2, <3>1 DEF PanelTypeOK, Made
  <2>6. acts' \in 0..MaxActs
    BY <1>1 DEF PanelTypeOK
  <2> HIDE DEF r
  <2> QED
    BY <1>5, <1>6, <1>0, <1>8, <2>1, <2>2, <2>3, <2>4, <2>5, <2>6, EventShape
<1>10. CASE ServeCreate(i)
  <2>1. reqs[i].op \in {"bare", "prompt"} /\ CreateRow(t, reqs[i].op)
    BY <1>0, <1>10 DEF ServeCreate
  <2>2. acts' \in 0..MaxActs
    BY <1>1 DEF PanelTypeOK
  <2>3. Made(t)'
    <3> QED
      BY <1>1, <1>0, <2>1 DEF CreateRow, PanelTypeOK, Made
  <2> HIDE DEF r
  <2> QED
    BY <1>5, <1>6, <1>0, <1>8, <2>1, <2>2, <2>3, CreateShape
<1> QED
  BY <1>9, <1>10

\* Steps that change no row.
LEMMA PanelShapeFrom ==
  ASSUME PanelShaped, UNCHANGED sessionRows, acts' \in 0..MaxActs,
         queue' \in Seq(Notices), \A n \in 1..Len(queue') : Made(queue'[n].s),
         reqs' \in [Slots -> Requests], \A j \in Slots : Carried(j) \/ Sound(j)',
         sock' \in {"none", "open", "gap", "closed"},
         list' \subseteq Sessions, \A s \in list' : Made(s), active' = NoSession \/ Made(active'),
         view' \in Seq(Sessions \X Nat), cards' \subseteq Sessions,
         {uiBusy', creating', timer', sending', skew'} \subseteq BOOLEAN
  PROVE  PanelShaped'
<1>1. UNCHANGED <<there, busy, stored, spoke, boot, run, ask>>
  BY DEF sessionRows
<1>2. \A s : Made(s)' <=> Made(s)
  BY <1>1 DEF Made
<1>3. active' \in Sessions \cup {NoSession}
  BY DEF Made
<1>4. PanelTypeOK'
  BY <1>1, <1>3 DEF PanelShaped, PanelTypeOK
<1>5. /\ (\A n \in 1..Len(queue) : Made(queue[n].s))' /\ (\A s \in Old \cup there \cup list \cup run : Made(s))'
      /\ (active # NoSession => Made(active))'
  BY <1>1 DEF PanelShaped, Made
<1> QED
  BY <1>2, <1>4, <1>5, ShapeFrom

\* What the effect on activeSessionId does.
LEMMA Activated ==
  ASSUME NEW s \in Sessions \cup {NoSession}, NEW rs \in [Slots -> Requests], Activate(s, rs)
  PROVE  /\ active' = s
         /\ reqs' \in [Slots -> Requests]
         /\ \A j \in Slots : \/ reqs'[j] = rs[j]
                             \/ rs[j] = Free /\ s # NoSession /\ s # active /\ reqs'[j] = Request("load", s)
         /\ s # active /\ s # NoSession => Asked("load", s)'
         /\ s = active \/ s = NoSession => reqs' = rs
<1>1. CASE s = active \/ s = NoSession
  BY <1>1 DEF Activate
<1>2. CASE ~(s = active \/ s = NoSession)
  <2>1. PICK j \in Slots : rs[j] = Free /\ reqs' = [rs EXCEPT ![j] = Request("load", s)]
    BY <1>2 DEF Activate
  <2>2. Request("load", s) \in Requests /\ Request("load", s).op = "load" /\ Request("load", s).s = s
    BY RequestFacts
  <2>3. reqs'[j] = Request("load", s) /\ \A k \in Slots \ {j} : reqs'[k] = rs[k]
    BY <2>1
  <2>4. Asked("load", s)'
    BY <2>2, <2>3 DEF Asked
  <2> QED
    BY <1>2, <2>1, <2>2, <2>3, <2>4 DEF Activate
<1> QED
  BY <1>1, <1>2

\* When a request is answered, its slot is free and the others are as before.
LEMMA OthersFacts ==
  ASSUME PanelShaped, NEW i \in Slots
  PROVE  /\ Others(i) \in [Slots -> Requests] /\ Others(i)[i] = Free
         /\ \A j \in Slots \ {i} : Others(i)[j] = reqs[j]
BY RequestFacts DEF Others, PanelShaped

\* A request that is as before, free, or asked anew is sound.
LEMMA SoundFrom ==
  ASSUME PanelShaped, UNCHANGED sessionRows, reqs' \in [Slots -> Requests], NEW j \in Slots,
         \/ reqs'[j] = reqs[j] \/ reqs'[j] = Free
         \/ \E s : Made(s) /\ \E op \in {"load", "send", "stop", "reply", "archive"} : reqs'[j] = Request(op, s)
         \/ \E s \in Sessions : \E op \in {"bare", "prompt"} : reqs'[j] = Request(op, s)
  PROVE  Carried(j) \/ Sound(j)'
<1>1. \A s : Made(s)' <=> Made(s)
  BY DEF Made, sessionRows
<1>2. CASE reqs'[j] = reqs[j]
  BY <1>2 DEF Carried
<1>3. CASE reqs'[j] = Free
  BY <1>3, RequestFacts DEF Sound
<1>4. ASSUME NEW s, Made(s), NEW op \in {"load", "send", "stop", "reply", "archive"}, reqs'[j] = Request(op, s)
      PROVE  Sound(j)'
  <2>1. reqs'[j].op = op /\ reqs'[j].s = s
    BY <1>4, RequestFacts DEF Made
  <2>2. Made(s)'
    BY <1>1, <1>4
  <2> QED
    BY <2>1, <2>2 DEF Sound
<1>5. ASSUME NEW s \in Sessions, NEW op \in {"bare", "prompt"}, reqs'[j] = Request(op, s)
      PROVE  Sound(j)'
  <2>1. reqs'[j].op = op /\ reqs'[j].s = s /\ reqs'[j].at = "sent"
    BY <1>5, RequestFacts
  <2> QED
    BY <2>1 DEF Sound
<1> QED
  BY <1>2, <1>3, <1>4, <1>5

\* Losing and regaining the socket keeps the shape.
LEMMA SocketShape ==
  ASSUME PanelShaped, acts' \in 0..MaxActs, SocketDrops \/ SocketReturns \/ SocketCloses
  PROVE  PanelShaped'
<1>1. PanelTypeOK /\ reqs \in [Slots -> Requests] /\ queue \in Seq(Notices)
  BY DEF PanelShaped
<1>2. /\ UNCHANGED sessionRows
      /\ UNCHANGED <<list, active, view, uiBusy, creating, timer, sending, cards>>
      /\ sock' \in {"none", "open", "gap", "closed"}
      /\ queue' = queue \/ queue' = <<>>
      /\ skew' \in BOOLEAN
  BY <1>1 DEF SocketDrops, SocketReturns, SocketCloses, panel, PanelTypeOK
<1>3. reqs' \in [Slots -> Requests] /\ \A j \in Slots : Carried(j)
  <2>1. CASE SocketDrops
    <3> DEFINE h(k) == reqs[k].hit \/ InQueue(reqs[k].s)
    <3>1. \A k \in Slots : reqs[k] \in Requests /\ h(k) \in BOOLEAN
      BY <1>1 DEF Requests, InQueue
    <3>2. reqs' = [k \in Slots |-> [reqs[k] EXCEPT !.hit = h(k)]]
      BY <2>1 DEF SocketDrops
    <3>3. \A k \in Slots : (reqs[k].hit => h(k))
      OBVIOUS
    <3> HIDE DEF h
    <3>4. \A k \in Slots : [reqs[k] EXCEPT !.hit = h(k)] \in Requests
      BY <3>1, HitFacts
    <3>5. reqs' \in [Slots -> Requests]
      BY <3>2, <3>4
    <3>6. ASSUME NEW j \in Slots PROVE Carried(j)
      <4>1. reqs'[j] = [reqs[j] EXCEPT !.hit = h(j)]
        BY <3>2
      <4> QED
        BY <3>1, <3>3, <4>1, HitFacts DEF Carried
    <3> QED
      BY <3>5, <3>6
  <2>2. CASE SocketReturns \/ SocketCloses
    BY <1>1, <2>2 DEF SocketReturns, SocketCloses, Carried
  <2> QED
    BY <2>1, <2>2
<1>4. queue' \in Seq(Notices) /\ \A n \in 1..Len(queue') : Made(queue'[n].s)
  <2>1. CASE queue' = queue
    BY <2>1 DEF PanelShaped
  <2>2. CASE queue' = <<>>
    BY <2>2
  <2> QED
    BY <1>2, <2>1, <2>2
<1> QED
  BY <1>1, <1>2, <1>3, <1>4, PanelShapeFrom DEF PanelShaped, PanelTypeOK

\* An answer is taken.
LEMMA AnswerShape ==
  ASSUME PanelShaped, UNCHANGED acts, NEW i \in Slots, Answer(i)
  PROVE  PanelShaped'
<1> DEFINE r == reqs[i]
<1>1. PanelTypeOK /\ r \in Requests /\ Sound(i) /\ reqs \in [Slots -> Requests] /\ queue \in Seq(Notices)
  BY DEF PanelShaped
<1>2. UNCHANGED sessionRows /\ queue' = queue /\ acts' \in 0..MaxActs
  BY <1>1 DEF Answer, AnswerLoad, AnswerList, AnswerSend, AnswerStop, AnswerReply, AnswerCreate,
              AnswerArchive, PanelTypeOK
<1>3. /\ queue' \in Seq(Notices) /\ \A n \in 1..Len(queue') : Made(queue'[n].s)
      /\ \A s \in list : Made(s)
      /\ active = NoSession \/ Made(active)
  BY <1>2 DEF PanelShaped
<1>4. Connected(sock) \in {"none", "open", "gap", "closed"}
  BY <1>1 DEF Connected, PanelTypeOK
<1>5. \A j \in Slots : Others(i)[j] = reqs[j] \/ Others(i)[j] = Free
  BY OthersFacts
<1>6. Others(i) \in [Slots -> Requests]
  BY OthersFacts
<1>7. r.op \in {"load", "stop", "reply", "archive"} \/ (r.op \in {"bare", "prompt"} /\ r.at = "done") => Made(r.s)
  BY <1>1 DEF Sound
<1>8. reqs' = Others(i) => reqs' \in [Slots -> Requests] /\ \A j \in Slots : Carried(j) \/ Sound(j)'
  BY <1>2, <1>5, <1>6, SoundFrom
<1>9. ASSUME NEW s, s = NoSession \/ Made(s), Activate(s, Others(i))
      PROVE  /\ active' = s
             /\ reqs' \in [Slots -> Requests] /\ \A j \in Slots : Carried(j) \/ Sound(j)'
  <2>1. s \in Sessions \cup {NoSession}
    BY <1>9 DEF Made
  <2>2. /\ active' = s /\ reqs' \in [Slots -> Requests]
        /\ \A j \in Slots : \/ reqs'[j] = Others(i)[j]
                            \/ s # NoSession /\ reqs'[j] = Request("load", s)
    BY <1>6, <1>9, <2>1, Activated
  <2>3. ASSUME NEW j \in Slots PROVE Carried(j) \/ Sound(j)'
    <3>1. CASE reqs'[j] = Others(i)[j]
      BY <1>2, <1>5, <2>2, <3>1, SoundFrom
    <3>2. CASE s # NoSession /\ reqs'[j] = Request("load", s)
      BY <1>2, <1>9, <2>2, <3>2, SoundFrom
    <3> QED
      BY <2>2, <3>1, <3>2
  <2> QED
    BY <2>2, <2>3
<1>10. /\ sock \in {"none", "open", "gap", "closed"} /\ list \subseteq Sessions
       /\ view \in Seq(Sessions \X Nat) /\ cards \subseteq Sessions
       /\ {uiBusy, creating, timer, sending, skew} \subseteq BOOLEAN
       /\ r.hit \in BOOLEAN /\ r.busy \in BOOLEAN /\ r.init \in BOOLEAN /\ r.stored \in Nat
       /\ r.s \in Sessions \cup {NoSession}
  BY <1>1 DEF PanelTypeOK, Requests
<1>11. r.s \in Sessions => Numbered(r.s, r.stored) \in Seq(Sessions \X Nat)
  BY <1>10, SMTT(30) DEF Numbered
<1>12. Made(r.s) => r.s \in Sessions
  BY DEF Made
<1> HIDE DEF r
<1>20. CASE AnswerLoad(i)
  <2>1. r.op = "load" /\ reqs' = Others(i)
    BY <1>20 DEF AnswerLoad, r
  <2>2. /\ UNCHANGED <<list, active, timer, sending>> /\ sock' = Connected(sock) /\ view' = Numbered(r.s, r.stored)
        /\ uiBusy' = r.busy /\ creating' = r.init /\ cards' \subseteq {r.s}
        /\ skew' = (r.hit \/ r.s # active \/ Connected(sock) # "open")
    BY <1>20 DEF AnswerLoad, Restored, r
  <2>3. skew' \in BOOLEAN
    BY <2>2
  <2>4. /\ list' \subseteq Sessions /\ (\A s \in list' : Made(s)) /\ (active' = NoSession \/ Made(active'))
        /\ view' \in Seq(Sessions \X Nat) /\ cards' \subseteq Sessions
        /\ {uiBusy', creating', timer', sending', skew'} \subseteq BOOLEAN
    BY <1>3, <1>7, <1>10, <1>11, <1>12, <2>1, <2>2, <2>3
  <2> QED
    BY <1>2, <1>3, <1>4, <1>8, <2>1, <2>2, <2>4, PanelShapeFrom
<1>21. CASE AnswerList(i)
  <2> DEFINE s == IF active = NoSession THEN r.s ELSE active
  <2>1. /\ r.op = "list" /\ r.at = "done" /\ Activate(s, Others(i))
        /\ list' = IF r.s = NoSession THEN {} ELSE Old \cup {r.s}
        /\ UNCHANGED <<sock, view, uiBusy, creating, timer, sending, cards, skew>>
    BY <1>21 DEF AnswerList, r
  <2>2. r.s = NoSession \/ Made(r.s)
    BY <1>1, <2>1 DEF Sound, r
  <2>3. s = NoSession \/ Made(s)
    BY <1>3, <2>2
  <2> HIDE DEF s
  <2>4. active' = s /\ reqs' \in [Slots -> Requests] /\ \A j \in Slots : Carried(j) \/ Sound(j)'
    BY <1>9, <2>1, <2>3
  <2>5. \A t \in Old : Made(t)
    BY DEF PanelShaped
  <2>6. list' \subseteq Sessions /\ \A t \in list' : Made(t)
    BY <1>12, <2>1, <2>2, <2>5 DEF Sessions
  <2> QED
    BY <1>2, <1>3, <1>10, <2>1, <2>3, <2>4, <2>6, PanelShapeFrom
<1>22. CASE AnswerSend(i) \/ AnswerStop(i) \/ AnswerReply(i)
  <2>1. /\ reqs' = Others(i) /\ UNCHANGED <<sock, list, active, view, creating, timer>>
        /\ uiBusy' \in {uiBusy, FALSE} /\ sending' \in {sending, FALSE} /\ cards' \subseteq cards
        /\ skew' \in BOOLEAN
    BY <1>10, <1>22 DEF AnswerSend, AnswerStop, AnswerReply, r
  <2>2. {uiBusy', creating', timer', sending', skew'} \subseteq BOOLEAN
    BY <1>10, <2>1
  <2> QED
    BY <1>2, <1>3, <1>8, <1>10, <2>1, <2>2, PanelShapeFrom
<1>23. CASE AnswerCreate(i)
  <2>1. /\ r.op \in {"bare", "prompt"} /\ r.at = "done" /\ Activate(r.s, Others(i))
        /\ list' = list \cup {r.s} /\ view' \in {<<<<r.s, 0>>>>, <<>>}
        /\ sock' = Connected(sock) /\ cards' = {} /\ UNCHANGED <<creating, sending>>
        /\ uiBusy' = TRUE /\ timer' = TRUE /\ skew' = (skew \/ r.hit \/ active # r.s)
    BY <1>23 DEF AnswerCreate, r
  <2>2. Made(r.s) /\ r.s \in Sessions
    BY <1>7, <1>12, <2>1
  <2>3. active' = r.s /\ reqs' \in [Slots -> Requests] /\ \A j \in Slots : Carried(j) \/ Sound(j)'
    BY <1>9, <2>1, <2>2
  <2>4. skew' \in BOOLEAN /\ uiBusy' \in BOOLEAN /\ timer' \in BOOLEAN
    BY <2>1
  <2>5. view' \in Seq(Sessions \X Nat)
    <3> DEFINE m == <<r.s, 0>>
    <3>1. m \in Sessions \X Nat /\ (view' = <<m>> \/ view' = <<>>)
      BY <2>1, <2>2
    <3> HIDE DEF m
    <3>2. <<m>> \in Seq(Sessions \X Nat) /\ <<>> \in Seq(Sessions \X Nat)
      BY <3>1
    <3> QED
      BY <3>1, <3>2
  <2>6. list' \subseteq Sessions /\ \A t \in list' : Made(t)
    BY <1>3, <1>10, <2>1, <2>2
  <2>7. {uiBusy', creating', timer', sending', skew'} \subseteq BOOLEAN
    BY <1>10, <2>1, <2>4
  <2> QED
    BY <1>2, <1>3, <1>4, <1>10, <2>1, <2>2, <2>3, <2>5, <2>6, <2>7, PanelShapeFrom
<1>24. CASE AnswerArchive(i)
  <2>1. /\ r.op = "archive" /\ list' = list \ {r.s} /\ view' = <<>> /\ cards' = {} /\ skew' = TRUE
        /\ UNCHANGED <<sock, uiBusy, creating, timer, sending>>
    BY <1>24 DEF AnswerArchive, r
  <2>2. PICK s \in IF list \ {r.s} = {} THEN {NoSession} ELSE list \ {r.s} : Activate(s, Others(i))
    BY <1>24 DEF AnswerArchive, r
  <2>3. s = NoSession \/ Made(s)
    BY <1>3, <2>2
  <2>4. active' = s /\ reqs' \in [Slots -> Requests] /\ \A j \in Slots : Carried(j) \/ Sound(j)'
    BY <1>9, <2>2, <2>3
  <2>5. {uiBusy', creating', timer', sending', skew'} \subseteq BOOLEAN
    BY <1>10, <2>1
  <2>6. list' \subseteq Sessions /\ \A t \in list' : Made(t)
    BY <1>3, <1>10, <2>1
  <2>7. view' \in Seq(Sessions \X Nat)
    BY <2>1
  <2> QED
    BY <1>2, <1>3, <1>10, <2>1, <2>3, <2>4, <2>5, <2>6, <2>7, PanelShapeFrom
<1> QED
  BY <1>20, <1>21, <1>22, <1>23, <1>24 DEF Answer

\* So does the timer.
LEMMA TimerShape ==
  ASSUME PanelShaped, UNCHANGED acts, TimerFires
  PROVE  PanelShaped'
<1>1. PanelTypeOK /\ reqs' \in [Slots -> Requests] /\ queue' = queue /\ UNCHANGED sessionRows
  BY DEF PanelShaped, TimerFires
<1>2. \A j \in Slots : Carried(j)
  BY DEF Carried, TimerFires
<1>3. {uiBusy', creating', timer', sending', skew'} \subseteq BOOLEAN
  BY <1>1 DEF TimerFires, PanelTypeOK
<1> QED
  BY <1>1, <1>2, <1>3, PanelShapeFrom DEF PanelShaped, PanelTypeOK, TimerFires

\* The rest of the queue, and its head.
LEMMA QueueFacts ==
  ASSUME PanelShaped, queue # <<>>
  PROVE  /\ Head(queue) \in Notices /\ Tail(queue) \in Seq(Notices) /\ Made(Head(queue).s)
         /\ \A n \in 1..Len(Tail(queue)) : Made(Tail(queue)[n].s)
<1>1. queue \in Seq(Notices)
  BY DEF PanelShaped
<1>2. /\ Head(queue) = queue[1] /\ 1 \in 1..Len(queue) /\ Tail(queue) \in Seq(Notices) /\ Head(queue) \in Notices
      /\ \A n \in 1..Len(Tail(queue)) : Tail(queue)[n] = queue[n + 1] /\ n + 1 \in 1..Len(queue)
  BY <1>1
<1> QED
  BY <1>2 DEF PanelShaped

\* The answers under way are overtaken by an event of their session.
HeardBy(t) == [j \in Slots |-> IF reqs[j].s = t /\ reqs[j].at # "sent"
                                  THEN [reqs[j] EXCEPT !.hit = TRUE] ELSE reqs[j]]

\* The marks that hearing an event of session t leaves on the answers under way.
LEMMA HeardSlots ==
  ASSUME reqs \in [Slots -> Requests], NEW t, NEW j \in Slots
  PROVE  /\ HeardBy(t) \in [Slots -> Requests]
         /\ HeardBy(t)[j].op = reqs[j].op /\ HeardBy(t)[j].s = reqs[j].s /\ HeardBy(t)[j].at = reqs[j].at
         /\ HeardBy(t)[j].stored = reqs[j].stored /\ HeardBy(t)[j].busy = reqs[j].busy
         /\ HeardBy(t)[j].ask = reqs[j].ask /\ (reqs[j].hit => HeardBy(t)[j].hit)
         /\ reqs[j].s = t /\ reqs[j].at # "sent" => HeardBy(t)[j].hit
         /\ ~(reqs[j].s = t /\ reqs[j].at # "sent") => HeardBy(t)[j] = reqs[j]
<1>1. \A k \in Slots : [reqs[k] EXCEPT !.hit = TRUE] \in Requests
  BY HitFacts
<1>2. HeardBy(t) \in [Slots -> Requests]
  BY <1>1 DEF HeardBy
<1>3. HeardBy(t)[j] = IF reqs[j].s = t /\ reqs[j].at # "sent" THEN [reqs[j] EXCEPT !.hit = TRUE] ELSE reqs[j]
  BY DEF HeardBy
<1> QED
  BY <1>2, <1>3, HitFacts

\* So does hearing an event.
LEMMA HearShape ==
  ASSUME PanelShaped, UNCHANGED acts, Hear
  PROVE  PanelShaped'
<1>1. PanelTypeOK /\ reqs \in [Slots -> Requests] /\ queue' = Tail(queue) /\ UNCHANGED <<sessionRows, sock, sending>>
      /\ queue # <<>>
  BY DEF PanelShaped, Hear
<1> DEFINE e == Head(queue)
<1>2. /\ e \in Notices /\ queue' \in Seq(Notices) /\ Made(e.s)
      /\ \A n \in 1..Len(queue') : Made(queue'[n].s)
  BY <1>1, QueueFacts
<1>3. e.s \in Sessions
  BY <1>2 DEF Notices
<1>4. /\ sock \in {"none", "open", "gap", "closed"} /\ list \subseteq Sessions
      /\ view \in Seq(Sessions \X Nat) /\ cards \subseteq Sessions
      /\ {uiBusy, creating, timer, sending, skew} \subseteq BOOLEAN
  BY <1>1 DEF PanelTypeOK
<1>5. acts' \in 0..MaxActs /\ (active = NoSession \/ Made(active)) /\ (\A s \in list : Made(s))
  BY <1>1 DEF PanelShaped, PanelTypeOK
<1>6. HearCreated(e) \/ HearOther(e)
  BY DEF Hear
<1> HIDE DEF e
<1>7. CASE HearCreated(e)
  <2>1. /\ list' = list \cup {e.s} /\ Activate(e.s, reqs) /\ view' \in {view, <<<<e.s, 0>>>>}
        /\ creating' = TRUE /\ uiBusy' = TRUE /\ skew' = TRUE /\ UNCHANGED <<timer, cards>>
    BY <1>7 DEF HearCreated
  <2>2. /\ active' = e.s /\ reqs' \in [Slots -> Requests]
        /\ \A j \in Slots : \/ reqs'[j] = reqs[j] \/ reqs'[j] = Request("load", e.s)
    BY <1>1, <1>3, <2>1, Activated
  <2>3. \A j \in Slots : Carried(j) \/ Sound(j)'
    BY <1>1, <1>2, <2>2, SoundFrom
  <2>4. {uiBusy', creating', timer', sending', skew'} \subseteq BOOLEAN
    BY <1>1, <1>4, <2>1
  <2>5. view' \in Seq(Sessions \X Nat)
    <3> DEFINE m == <<e.s, 0>>
    <3>1. m \in Sessions \X Nat /\ (view' = <<m>> \/ view' = view)
      BY <1>3, <2>1
    <3> HIDE DEF m
    <3> QED
      BY <1>4, <3>1
  <2>6. list' \subseteq Sessions /\ \A t \in list' : Made(t)
    BY <1>2, <1>3, <1>4, <1>5, <2>1
  <2> QED
    BY <1>1, <1>2, <1>4, <1>5, <2>1, <2>2, <2>3, <2>4, <2>5, <2>6, PanelShapeFrom
<1>8. CASE HearOther(e)
  <2>1. reqs' = HeardBy(e.s) /\ UNCHANGED <<list, active, skew>>
    BY <1>8 DEF HearOther, HeardBy
  <2>2. reqs' \in [Slots -> Requests] /\ \A j \in Slots : Carried(j)
    <3>1. reqs' \in [Slots -> Requests]
      BY <1>1, <2>1, HeardSlots, PanelAssumption, 1 \in Slots DEF Slots
    <3>2. ASSUME NEW j \in Slots PROVE Carried(j)
      BY <1>1, <2>1, HeardSlots DEF Carried
    <3> QED
      BY <3>1, <3>2
  <2>3. cards' \subseteq cards \cup {e.s} /\ view' \in {view, Append(view, <<e.s, Len(view) + 1>>)}
    BY <1>8 DEF HearOther
  <2>4. uiBusy' \in BOOLEAN /\ creating' \in BOOLEAN /\ timer' \in BOOLEAN
    BY <1>4, <1>8 DEF HearOther
  <2>5. view' \in Seq(Sessions \X Nat)
    <3> DEFINE m == <<e.s, Len(view) + 1>>
    <3>1. m \in Sessions \X Nat /\ view' \in {view, Append(view, m)}
      BY <1>3, <1>4, <2>3
    <3> HIDE DEF m
    <3>2. ASSUME NEW S, NEW q \in Seq(S), NEW a \in S PROVE Append(q, a) \in Seq(S)
      OBVIOUS
    <3>3. Append(view, m) \in Seq(Sessions \X Nat)
      BY <1>4, <3>1, <3>2
    <3> QED
      BY <1>4, <3>1, <3>3
  <2>6. {uiBusy', creating', timer', sending', skew'} \subseteq BOOLEAN
    BY <1>1, <1>4, <2>1, <2>4
  <2>7. cards' \subseteq Sessions
    BY <1>3, <1>4, <2>3
  <2> QED
    BY <1>1, <1>2, <1>4, <1>5, <2>1, <2>2, <2>5, <2>6, <2>7, PanelShapeFrom
<1> QED
  BY <1>6, <1>7, <1>8

\* What the user asks for.
LEMMA AskFacts ==
  ASSUME PanelShaped, NEW op \in {"load", "send", "stop", "reply", "archive"}, Ask(op), active # NoSession
  PROVE  /\ reqs' \in [Slots -> Requests]
         /\ \E i \in Slots :
              /\ reqs[i] = Free /\ reqs'[i] = Request(op, active)
              /\ \A j \in Slots \ {i} : reqs'[j] = Hit(active)[j]
<1>1. PICK i \in Slots : reqs[i] = Free /\ reqs' = [Hit(active) EXCEPT ![i] = Request(op, active)]
  BY DEF Ask
<1>2. active \in Sessions /\ reqs \in [Slots -> Requests]
  BY DEF PanelShaped, Made
<1>3. Hit(active) \in [Slots -> Requests] /\ Request(op, active) \in Requests
  <2>1. Hit(active) \in [Slots -> Requests]
    BY <1>1, <1>2, HitSlots
  <2> QED
    BY <1>2, <2>1, RequestFacts
<1> QED
  BY <1>1, <1>3

\* What the user does keeps the shape.
LEMMA UserShape ==
  ASSUME PanelShaped, acts' \in 0..MaxActs,
         \/ \E s \in Sessions : \/ Reply(s) \/ \E palette \in BOOLEAN : Select(s, palette)
                                \/ \E prompt \in {"bare", "prompt"} : Create(s, prompt)
         \/ Send \/ Stop \/ Archive
  PROVE  PanelShaped'
<1>1. PanelTypeOK /\ reqs \in [Slots -> Requests] /\ queue \in Seq(Notices)
  BY DEF PanelShaped
<1>2. UNCHANGED <<sessionRows, queue, sock, list, timer>>
  BY DEF Reply, Select, Create, Send, Stop, Archive, panel
<1>3. /\ queue' \in Seq(Notices) /\ (\A n \in 1..Len(queue') : Made(queue'[n].s))
      /\ (active = NoSession \/ Made(active)) /\ (\A s \in list' : Made(s)) /\ list' \subseteq Sessions
      /\ sock' \in {"none", "open", "gap", "closed"}
      /\ view \in Seq(Sessions \X Nat) /\ cards \subseteq Sessions
      /\ {uiBusy, creating, timer, sending, skew} \subseteq BOOLEAN
  BY <1>2 DEF PanelShaped, PanelTypeOK
<1>4. CASE Send \/ Stop \/ Archive \/ \E s \in Sessions : Reply(s)
  <2>1. active # NoSession /\ \E op \in {"send", "stop", "reply", "archive"} : Ask(op)
    BY <1>4 DEF Send, Stop, Archive, Reply
  <2>2. PICK op \in {"send", "stop", "reply", "archive"} : Ask(op)
    BY <2>1
  <2>3. reqs' \in [Slots -> Requests] /\ \E i \in Slots :
              /\ reqs[i] = Free /\ reqs'[i] = Request(op, active)
              /\ \A j \in Slots \ {i} : reqs'[j] = Hit(active)[j]
    BY <2>1, <2>2, AskFacts
  <2>4. ASSUME NEW j \in Slots PROVE Carried(j) \/ Sound(j)'
    <3>1. CASE reqs'[j] = Request(op, active)
      BY <1>2, <1>3, <2>1, <2>3, <3>1, SoundFrom
    <3>2. CASE reqs'[j] = Hit(active)[j]
      BY <1>1, <3>2, HitSlots DEF Carried
    <3> QED
      BY <2>3, <3>1, <3>2
  <2>5. /\ UNCHANGED <<active, cards, skew, creating>>
        /\ \/ UNCHANGED <<view, uiBusy, sending>>
           \/ view' = Append(view, <<active, 0>>) /\ uiBusy' = TRUE /\ sending' = TRUE
    BY <1>4 DEF Send, Stop, Archive, Reply, panel
  <2>6. {uiBusy', creating', timer', sending', skew'} \subseteq BOOLEAN
    BY <1>2, <1>3, <2>5
  <2>7. view' \in Seq(Sessions \X Nat)
    <3> DEFINE m == <<active, 0>>
    <3>1. m \in Sessions \X Nat /\ (view' = view \/ view' = Append(view, m))
      BY <1>3, <2>1, <2>5 DEF Made
    <3> HIDE DEF m
    <3>2. ASSUME NEW S, NEW q \in Seq(S), NEW a \in S PROVE Append(q, a) \in Seq(S)
      OBVIOUS
    <3>3. Append(view, m) \in Seq(Sessions \X Nat)
      BY <1>3, <3>1, <3>2
    <3> QED
      BY <1>3, <3>1, <3>3
  <2> QED
    BY <1>2, <1>3, <2>3, <2>4, <2>5, <2>6, <2>7, PanelShapeFrom
<1>5. ASSUME NEW s \in Sessions, NEW op \in {"bare", "prompt"}, Create(s, op)
      PROVE  PanelShaped'
  <2>1. PICK i \in Slots : reqs[i] = Free /\ reqs' = [reqs EXCEPT ![i] = Request(op, s)]
    BY <1>5 DEF Create
  <2>2. /\ Request(op, s) \in Requests /\ UNCHANGED <<active, view, uiBusy, sending, cards, skew>>
        /\ creating' = TRUE
    BY <1>5, RequestFacts DEF Create
  <2>3. reqs' \in [Slots -> Requests] /\ \A j \in Slots : reqs'[j] = reqs[j] \/ reqs'[j] = Request(op, s)
    BY <1>1, <2>1, <2>2
  <2>4. \A j \in Slots : Carried(j) \/ Sound(j)'
    BY <1>2, <2>3, SoundFrom
  <2>5. {uiBusy', creating', timer', sending', skew'} \subseteq BOOLEAN
    BY <1>2, <1>3, <2>2
  <2> QED
    BY <1>2, <1>3, <2>2, <2>3, <2>4, <2>5, PanelShapeFrom
<1>6. ASSUME NEW s \in Sessions, NEW palette \in BOOLEAN, Select(s, palette)
      PROVE  PanelShaped'
  <2>1. /\ Made(s) /\ Activate(s, reqs) /\ cards' = {} /\ skew' = TRUE /\ UNCHANGED <<view, sending>>
        /\ uiBusy' \in {uiBusy, FALSE} /\ creating' \in {creating, FALSE}
    BY <1>6 DEF Select, PanelShaped
  <2>2. /\ active' = s /\ reqs' \in [Slots -> Requests]
        /\ \A j \in Slots : reqs'[j] = reqs[j] \/ reqs'[j] = Request("load", s)
    BY <1>1, <2>1, Activated
  <2>3. \A j \in Slots : Carried(j) \/ Sound(j)'
    BY <1>2, <2>1, <2>2, SoundFrom
  <2>4. {uiBusy', creating', timer', sending', skew'} \subseteq BOOLEAN
    BY <1>2, <1>3, <2>1
  <2> QED
    BY <1>2, <1>3, <2>1, <2>2, <2>3, <2>4, PanelShapeFrom
<1> QED
  BY <1>4, <1>5, <1>6

\* Every step keeps the shape.
LEMMA PanelShapeStep == PanelShaped /\ [PanelNext]_panelVars => PanelShaped'
<1> SUFFICES ASSUME PanelShaped, [PanelNext]_panelVars PROVE PanelShaped'
  OBVIOUS
<1>1. CASE UNCHANGED panelVars
  BY <1>1 DEF panelVars, sessionRows, panel, PanelShaped, PanelTypeOK, Made, Sound
<1>2. CASE Act
  <2>1. acts' \in 0..MaxActs
    BY <1>2, PanelAssumption DEF Act, PanelShaped, PanelTypeOK
  <2>2. ASSUME NEW s \in Sessions, CreateElsewhere(s) PROVE PanelShaped'
    <3>1. PICK p \in {"bare", "prompt"} : CreateRow(s, p) /\ Unheard(s)
      BY <2>2 DEF CreateElsewhere
    <3> QED
      BY <2>1, <3>1, UnheardShape, CreateShape
  <2> QED
    BY <1>2, <2>1, <2>2, UserShape, SocketShape DEF Act
<1>3. CASE Happen
  <2>1. UNCHANGED acts /\ acts' \in 0..MaxActs
    BY <1>3 DEF Happen, PanelShaped, PanelTypeOK
  <2>2. \A i \in Slots : Serve(i) => PanelShaped'
    BY <2>1, ServeShape, ServeNewsShape DEF Serve
  <2> QED
    BY <1>3, <2>1, <2>2, AgentShape, AnswerShape, SocketShape, HearShape, TimerShape DEF Happen
<1> QED
  BY <1>1, <1>2, <1>3 DEF PanelNext

-----------------------------------------------------------------------------
(* What a step leaves true of what an answer or the panel tells of s. *)

KeepsTurn(s) ==
  \A n \in Nat : \A b, u, x \in BOOLEAN : Agrees(s, n, b, u, x) => Agrees(s, n, b, u, x)'

KeepsShown(s) ==
  /\ \A c \in BOOLEAN : Shows(s, c) => Shows(s, c)'
  /\ Idle(s) => Idle(s)'

Keeps(s) == KeepsTurn(s) /\ KeepsShown(s)

\* What is told of a session holds while its row and its events are as they were.
LEMMA SameKeeps ==
  ASSUME NEW s, stored'[s] = stored[s], s \in busy' <=> s \in busy, s \in run' <=> s \in run,
         s \in ask' => s \in ask, queue' = queue
  PROVE  Keeps(s)
BY DEF Keeps, KeepsTurn, KeepsShown, Agrees, Shows, Idle

\* An event goes to the socket, and the row is as the event says.
LEMMA NewsKeeps ==
  ASSUME PanelShaped, NEW t \in Sessions, NEW e \in Topics, Broadcast(t, e), NEW s \in Sessions,
         s # t \/ sock = "open",
         stored'[s] = stored[s] + (IF s = t /\ e = "said" THEN 1 ELSE 0),
         s = t /\ e = "started" => s \in run',
         s = t /\ e \in Marks \ {"started"} => s \notin busy',
         ~(s = t /\ e \in Marks) => (s \in busy' <=> s \in busy) /\ (s \in run' <=> s \in run),
         s \in ask' => s \in ask \/ (s = t /\ e = "asked")
  PROVE  Keeps(s)
<1> DEFINE f == [s |-> t, ev |-> e]
<1>1. f \in Notices /\ f.s = t /\ f.ev = e /\ queue \in Seq(Notices)
  BY DEF Notices, PanelShaped
<1>2. stored[s] \in Nat
  BY PanelAssumption DEF PanelShaped, PanelTypeOK
<1>3. Unread(queue, s) \in Nat
  BY <1>1, UnreadType
<1>4. CASE sock = "open"
  <2>1. queue' = Append(queue, f)
    BY <1>4 DEF Broadcast
  <2> HIDE DEF f
  <2>2. Unread(queue', s) = Unread(queue, s) + (IF s = t /\ e = "said" THEN 1 ELSE 0)
    BY <1>1, <2>1, UnreadAppend
  <2>3. /\ NoMark(queue', s) <=> NoMark(queue, s) /\ ~(t = s /\ e \in Marks)
        /\ Question(queue', s) <=> Question(queue, s) \/ (t = s /\ e = "asked")
        /\ \A E \in SUBSET Marks :
             /\ t = s /\ e \in Marks => (LastMark(queue', s, E) <=> e \in E)
             /\ ~(t = s /\ e \in Marks) => (LastMark(queue', s, E) <=> LastMark(queue, s, E))
    BY <1>1, <2>1, NewsAppend
  <2>4. {"started"} \in SUBSET Marks /\ Marks \ {"started"} \in SUBSET Marks
    BY DEF Marks
  <2>5. ASSUME NEW n \in Nat, NEW b \in BOOLEAN, NEW u \in BOOLEAN, NEW x \in BOOLEAN, Agrees(s, n, b, u, x)
        PROVE  Agrees(s, n, b, u, x)'
    <3>1. (n + Unread(queue, s) = stored[s] + (IF u THEN 1 ELSE 0))'
      BY <1>2, <1>3, <2>2, <2>5 DEF Agrees
    <3>2. CASE s = t /\ e \in Marks
      BY <2>3, <2>4, <3>1, <3>2 DEF Agrees
    <3>3. CASE ~(s = t /\ e \in Marks)
      <4>1. (NoMark(queue', s) <=> NoMark(queue, s))
        BY <2>3, <3>3
      <4>2. (LastMark(queue', s, {"started"}) <=> LastMark(queue, s, {"started"}))
            /\ (LastMark(queue', s, Marks \ {"started"}) <=> LastMark(queue, s, Marks \ {"started"}))
        BY <2>3, <2>4, <3>3
      <4> QED
        BY <2>5, <3>1, <3>3, <4>1, <4>2 DEF Agrees
    <3> QED
      BY <3>2, <3>3
  <2>6. ASSUME NEW c \in BOOLEAN, Shows(s, c) PROVE Shows(s, c)'
    BY <2>3, <2>6 DEF Shows
  <2>7. Idle(s) => Idle(s)'
    BY <2>3 DEF Idle
  <2> QED
    BY <2>5, <2>6, <2>7 DEF Keeps, KeepsTurn, KeepsShown
<1>5. CASE sock # "open"
  <2>1. queue' = queue /\ s # t
    BY <1>5 DEF Broadcast
  <2>2. stored'[s] = stored[s] /\ (s \in busy' <=> s \in busy) /\ (s \in run' <=> s \in run)
        /\ (s \in ask' => s \in ask)
    BY <1>2, <2>1
  <2> QED
    BY <2>1, <2>2, SameKeeps
<1> QED
  BY <1>4, <1>5

\* Marks on requests leave what is asked and posted as it is.
LEMMA CarriedFacts ==
  ASSUME \A j \in Slots : Carried(j)
  PROVE  \A op, s, at : (Asked(op, s)' <=> Asked(op, s)) /\ (Posted(op, s, at)' <=> Posted(op, s, at))
BY DEF Carried, Asked, Posted

\* Answers that are as before, overtaken, or of no interest.
LEMMA AnswersKept ==
  ASSUME PanelShaped, AnswersFresh,
         \A j \in Slots :
           \/ reqs'[j].hit
           \/ reqs'[j].at = "sent"
           \/ reqs'[j].op \notin {"load", "reply", "stop"}
           \/ /\ reqs'[j] = reqs[j]
              /\ \A s \in Sessions : reqs[j].s = s => KeepsShown(s) /\ (reqs[j].op = "load" => KeepsTurn(s))
           \/ \A r \in Requests : reqs'[j] = r => Tells(r)'
  PROVE  AnswersFresh'
<1> SUFFICES ASSUME NEW j \in Slots, NEW r \in Requests, reqs'[j] = r, ~r.hit,
                    r.at # "sent", r.op \in {"load", "reply", "stop"}
             PROVE  Tells(r)'
  BY DEF AnswersFresh, Tells
<1>1. CASE \A q \in Requests : reqs'[j] = q => Tells(q)'
  BY <1>1
<1>2. CASE /\ reqs'[j] = reqs[j]
           /\ \A s \in Sessions : reqs[j].s = s => KeepsShown(s) /\ (reqs[j].op = "load" => KeepsTurn(s))
  <2>1. reqs[j] = r /\ Tells(r)
    BY <1>2 DEF AnswersFresh
  <2>2. r.s \in Sessions
    BY <2>1 DEF PanelShaped, Sound, Made
  <2>3. KeepsShown(r.s) /\ (r.op = "load" => KeepsTurn(r.s))
    BY <1>2, <2>1, <2>2
  <2>4. r.stored \in Nat /\ r.busy \in BOOLEAN /\ r.ask \in BOOLEAN
    BY DEF Requests
  <2>5. r.op = "load" => Agrees(r.s, r.stored, r.busy, FALSE, FALSE)'
    BY <2>1, <2>3, <2>4 DEF Tells, KeepsTurn, KeepsShown
  <2>6. r.op = "load" /\ r.at = "done" => Shows(r.s, r.ask)'
    BY <2>1, <2>3, <2>4 DEF Tells, KeepsTurn, KeepsShown
  <2>7. /\ r.op = "reply" /\ r.at = "done" => Shows(r.s, FALSE)'
        /\ r.op = "stop" /\ r.at = "done" => Idle(r.s)'
    BY <2>1, <2>3 DEF Tells, KeepsTurn, KeepsShown
  <2> QED
    BY <2>5, <2>6, <2>7 DEF Tells
<1> QED
  BY <1>1, <1>2

\* A load on its way back stays alone.
LEMMA LoadsAloneKept ==
  ASSUME PanelShaped, PanelShaped', LoadsAlone,
         \A i \in Slots :
           \/ Carried(i) \/ reqs'[i].op # "load" \/ reqs'[i].at = "sent" \/ reqs'[i].hit
           \/ /\ reqs[i].op = "load" /\ reqs[i].at # "sent" /\ reqs'[i].s = reqs[i].s
              /\ reqs[i].hit => reqs'[i].hit
           \/ \A j \in Slots : reqs'[j].s = reqs'[i].s => reqs'[j].op \in {"load", "list"},
         \A j \in Slots :
           \/ Carried(j) \/ reqs'[j].op \in {"free", "load", "list"}
           \/ reqs'[j].op = reqs[j].op /\ reqs'[j].s = reqs[j].s
           \/ \A i \in Slots : reqs'[i].op = "load" /\ reqs'[i].s = reqs'[j].s => reqs'[i].hit \/ reqs'[i].at = "sent"
  PROVE  LoadsAlone'
<1> SUFFICES ASSUME NEW i \in Slots, NEW j \in Slots, reqs'[i].op = "load", reqs'[i].at # "sent",
                    ~reqs'[i].hit, reqs'[j].s = reqs'[i].s, reqs'[j].op \notin {"load", "list"}
             PROVE  FALSE
  BY DEF LoadsAlone
<1>1. reqs[i].op = "load" /\ reqs[i].at # "sent" /\ reqs'[i].s = reqs[i].s /\ ~reqs[i].hit
  BY DEF Carried
<1>2. reqs'[j].op # "free"
  <2>1. reqs'[i].s \in Sessions
    BY DEF PanelShaped, Sound, Made
  <2> QED
    BY <2>1, PanelAssumption DEF PanelShaped, Sound
<1>3. reqs'[j].op = reqs[j].op /\ reqs'[j].s = reqs[j].s
  BY <1>2 DEF Carried
<1> QED
  BY <1>1, <1>3 DEF LoadsAlone

\* What the panel shows of the active session, when no load of it is asked for.
LEMMA SyncedAt ==
  ASSUME Synced, NEW s \in Sessions, NEW n \in Nat,
         NEW b \in BOOLEAN, NEW u \in BOOLEAN, NEW x \in BOOLEAN, NEW c \in BOOLEAN,
         ~skew, active = s, ~Asked("load", s), ~Asked("archive", s),
         n = Len(view), b <=> uiBusy, c <=> s \in cards,
         u <=> Posted("send", s, "sent"), x <=> Posted("stop", s, "done")
  PROVE  Agrees(s, n, b, u, x) /\ Shows(s, c) /\ \A k \in 1..Len(view) : view[k][1] = s
BY DEF Synced

\* The panel is as it was, and what it shows still holds or is known to be missed.
LEMMA SyncedKept ==
  ASSUME PanelShaped, Synced, UNCHANGED <<active, view, uiBusy, cards>>, skew => skew',
         \A s \in Sessions :
           ~skew' /\ active = s =>
             /\ Asked("load", s) => Asked("load", s)'
             /\ Asked("archive", s) => Asked("archive", s)'
             /\ KeepsShown(s)
             /\ ~Asked("archive", s)' =>
                  \A n \in Nat : \A b, u, x, v, y \in BOOLEAN :
                    /\ Agrees(s, n, b, u, x)
                    /\ (u <=> Posted("send", s, "sent")) /\ (v <=> Posted("send", s, "sent")')
                    /\ (x <=> Posted("stop", s, "done")) /\ (y <=> Posted("stop", s, "done")')
                    => Agrees(s, n, b, v, y)'
  PROVE  Synced'
<1> SUFFICES ASSUME NEW s \in Sessions, NEW n \in Nat,
                    NEW b \in BOOLEAN, NEW u \in BOOLEAN, NEW x \in BOOLEAN, NEW c \in BOOLEAN,
                    ~skew', active' = s, ~Asked("load", s)', ~Asked("archive", s)',
                    n = Len(view'), b <=> uiBusy', c <=> s \in cards',
                    u <=> Posted("send", s, "sent")', x <=> Posted("stop", s, "done")'
             PROVE  /\ Agrees(s, n, b, u, x)' /\ Shows(s, c)'
                    /\ \A k \in 1..Len(view') : view'[k][1] = s
  BY DEF Synced
<1>1. PICK v, y \in BOOLEAN : (v <=> Posted("send", s, "sent")) /\ (y <=> Posted("stop", s, "done"))
  <2>1. Posted("send", s, "sent") \in BOOLEAN /\ Posted("stop", s, "done") \in BOOLEAN
    BY DEF Posted
  <2> QED
    BY <2>1
<1>2. Agrees(s, n, b, v, y) /\ Shows(s, c) /\ \A k \in 1..Len(view) : view[k][1] = s
  <2>1. ~skew /\ active = s /\ ~Asked("load", s) /\ ~Asked("archive", s)
        /\ n = Len(view) /\ (b <=> uiBusy) /\ (c <=> s \in cards)
    OBVIOUS
  <2> QED
    BY <1>1, <2>1, SyncedAt, SMTT(30)
<1>3. KeepsShown(s)
  OBVIOUS
<1>4. Agrees(s, n, b, u, x)'
  BY <1>1, <1>2
<1> QED
  BY <1>2, <1>3, <1>4 DEF KeepsShown

\* A step that the panel takes no part in, and that changes no request but to
\* mark it as overtaken.
LEMMA QuietStep ==
  ASSUME PanelInv, PanelShaped', UNCHANGED panel, skew => skew', \A j \in Slots : Carried(j),
         \A j \in Slots :
           \/ reqs'[j].hit \/ reqs'[j].op \notin {"load", "reply", "stop"}
           \/ reqs'[j] = reqs[j] /\ \A s \in Sessions : reqs[j].s = s => Keeps(s),
         \A s \in Sessions : ~skew' /\ active = s => Keeps(s)
  PROVE  PanelInv'
<1>1. UNCHANGED <<list, active, view, uiBusy, creating, timer, sending, cards>>
  BY DEF panel
<1>2. CardsBelong'
  BY <1>1 DEF PanelInv, CardsBelong
<1>3. AnswersFresh'
  <2>1. \A s : Keeps(s) => KeepsShown(s) /\ KeepsTurn(s)
    BY DEF Keeps
  <2> QED
    BY <2>1, AnswersKept DEF PanelInv
<1>4. LoadsAlone'
  BY LoadsAloneKept DEF PanelInv
<1>5. \A op, s, at : (Asked(op, s)' <=> Asked(op, s)) /\ (Posted(op, s, at)' <=> Posted(op, s, at))
  BY CarriedFacts
<1>6. CreatesLoad'
  <2> SUFFICES ASSUME NEW i \in Slots, reqs'[i].op \in {"bare", "prompt"}, reqs'[i].s = active', ~skew'
               PROVE  Asked("load", active)'
    BY DEF CreatesLoad
  <2>1. Asked("load", active)
    BY <1>1 DEF PanelInv, CreatesLoad, Carried
  <2> QED
    BY <1>1, <1>5, <2>1 DEF Asked
<1>7. OneSend'
  BY <1>1 DEF PanelInv, OneSend, Carried
<1>8. Synced'
  <2>1. ASSUME NEW s \in Sessions, ~skew', active = s
        PROVE  /\ Asked("load", s) => Asked("load", s)'
               /\ Asked("archive", s) => Asked("archive", s)'
               /\ KeepsShown(s)
               /\ \A n \in Nat : \A b, u, x, v, y \in BOOLEAN :
                    /\ Agrees(s, n, b, u, x)
                    /\ (u <=> Posted("send", s, "sent")) /\ (v <=> Posted("send", s, "sent")')
                    /\ (x <=> Posted("stop", s, "done")) /\ (y <=> Posted("stop", s, "done")')
                    => Agrees(s, n, b, v, y)'
    <3>1. Keeps(s)
      BY <2>1
    <3> QED
      BY <1>5, <3>1 DEF Keeps, KeepsTurn
  <2> QED
    BY <1>1, <2>1, SyncedKept DEF PanelInv
<1> QED
  BY <1>2, <1>3, <1>4, <1>6, <1>7, <1>8 DEF PanelInv

\* The requests and the panel after an event of t: all that does not hear of it is
\* marked, or skewed.
LEMMA PassedStep ==
  ASSUME PanelInv, PanelShaped', NEW t \in Sessions, \E e \in Topics : Broadcast(t, e), Unheard(t),
         \A s \in Sessions :
           s # t \/ (sock = "open" /\ ((\E j \in Slots : reqs[j].s = s /\ reqs[j].op \in {"load", "reply", "stop"})
                                       \/ active = s)) => Keeps(s)
  PROVE  PanelInv'
<1>1. PanelShaped /\ reqs \in [Slots -> Requests]
  BY DEF PanelInv, PanelShaped
<1>2. UNCHANGED panel /\ (skew => skew') /\ (active = t /\ sock # "open" => skew')
  BY DEF Broadcast
<1>3. \A j \in Slots : Carried(j)
  BY <1>1, UnheardShape
<1>4. ASSUME NEW j \in Slots
      PROVE  \/ reqs'[j].hit \/ reqs'[j].op \notin {"load", "reply", "stop"}
             \/ reqs'[j] = reqs[j] /\ \A s \in Sessions : reqs[j].s = s => Keeps(s)
  <2>1. /\ reqs[j].s # t \/ sock = "open" => reqs'[j] = reqs[j]
        /\ reqs[j].s = t /\ sock # "open" => reqs'[j].hit
    BY <1>1, PassedSlots DEF Unheard
  <2> QED
    BY <2>1
<1>5. \A s \in Sessions : ~skew' /\ active = s => Keeps(s)
  BY <1>2
<1> QED
  BY <1>2, <1>3, <1>4, <1>5, QuietStep

\* The agent's news reaches the queue, or else the marks.
LEMMA AgentNews ==
  ASSUME PanelInv, PanelShaped', NEW t \in Sessions,
         Started(t) \/ StartFails(t) \/ AgentSays(t) \/ AgentAsks(t) \/ TurnEnds(t)
  PROVE  PanelInv'
<1>1. PanelShaped /\ PanelTypeOK
  BY DEF PanelInv, PanelShaped
<1>2. \A s \in Sessions : stored[s] \in Nat
  BY <1>1, PanelAssumption DEF PanelTypeOK
<1>3. Unheard(t)
  BY DEF Started, StartFails, AgentSays, AgentAsks, TurnEnds
<1>4. PICK e \in Topics :
        /\ Broadcast(t, e)
        /\ \/ e = "started" /\ t \in run' /\ busy' = busy \cup {t} /\ run' = run \cup {t}
              /\ stored' = stored /\ ask' = ask
           \/ e \in Marks \ {"started"} /\ t \notin busy' /\ busy' = busy \ {t} /\ run' \in {run, run \ {t}}
              /\ stored' = stored /\ ask' \subseteq ask
           \/ e = "said" /\ stored' = [stored EXCEPT ![t] = @ + 1] /\ busy' = busy /\ run' = run /\ ask' = ask
           \/ e = "asked" /\ stored' = stored /\ busy' = busy /\ run' = run /\ ask' = ask \cup {t}
  <2>1. CASE Started(t)
    <3>1. CASE boot[t] = "prompt"
      BY <2>1, <3>1 DEF Started, Topics, Marks
    <3>2. CASE boot[t] # "prompt"
      BY <2>1, <3>2 DEF Started, Topics, Marks
    <3> QED
      BY <3>1, <3>2
  <2>2. CASE StartFails(t)
    BY <2>2 DEF StartFails, Topics, Marks
  <2>3. CASE AgentSays(t)
    BY <2>3 DEF AgentSays, Topics, Marks
  <2>4. CASE AgentAsks(t)
    BY <2>4 DEF AgentAsks, Topics, Marks
  <2>5. CASE TurnEnds(t)
    BY <2>5 DEF TurnEnds, Topics, Marks
  <2> QED
    BY <2>1, <2>2, <2>3, <2>4, <2>5
<1>5. ASSUME NEW s \in Sessions, s # t \/ sock = "open" PROVE Keeps(s)
  <2>1. stored'[s] = stored[s] + (IF s = t /\ e = "said" THEN 1 ELSE 0)
    BY <1>1, <1>2, <1>4 DEF PanelTypeOK, Marks
  <2>2. /\ s = t /\ e = "started" => s \in run'
        /\ s = t /\ e \in Marks \ {"started"} => s \notin busy'
        /\ ~(s = t /\ e \in Marks) => (s \in busy' <=> s \in busy) /\ (s \in run' <=> s \in run)
        /\ s \in ask' => s \in ask \/ (s = t /\ e = "asked")
    BY <1>4 DEF Marks
  <2> QED
    BY <1>1, <1>4, <1>5, <2>1, <2>2, NewsKeeps
<1>6. \E n \in Topics : Broadcast(t, n)
  BY <1>4
<1> QED
  BY <1>3, <1>5, <1>6, PassedStep

\* A session that nobody knows yet.
LEMMA CreateRowKeeps ==
  ASSUME PanelShaped, NEW t \in Sessions, NEW p \in {"bare", "prompt"}, CreateRow(t, p), NEW s \in Sessions, s # t
  PROVE  Keeps(s)
<1>1. PICK e \in {"created", "createdBare"} : Broadcast(t, e)
  BY DEF CreateRow
<1>2. e \in Topics /\ e \notin Marks /\ e # "said" /\ e # "asked"
  BY <1>1 DEF Topics, Marks
<1>3. stored'[s] = stored[s] /\ stored[s] \in Nat
  BY PanelAssumption DEF CreateRow, PanelShaped, PanelTypeOK
<1>4. /\ (s \in busy' <=> s \in busy) /\ (s \in run' <=> s \in run) /\ (s \in ask' => s \in ask)
  BY DEF CreateRow, Pick
<1>5. stored'[s] = stored[s] + (IF s = t /\ e = "said" THEN 1 ELSE 0)
  BY <1>3
<1> QED
  BY <1>1, <1>2, <1>4, <1>5, NewsKeeps

\* A session that somebody else creates is nobody's yet.
LEMMA ElsewhereStep ==
  ASSUME PanelInv, PanelShaped', NEW t \in Sessions, CreateElsewhere(t)
  PROVE  PanelInv'
<1>1. PICK p \in {"bare", "prompt"} : CreateRow(t, p) /\ Unheard(t)
  BY DEF CreateElsewhere
<1>2. PanelShaped /\ ~Made(t)
  BY <1>1 DEF PanelInv, CreateRow, Made
<1>3. active # t /\ \A j \in Slots : reqs[j].s = t => reqs[j].op \notin {"load", "reply", "stop"}
  BY <1>2, PanelAssumption DEF PanelShaped, Sound
<1>4. \E e \in Topics : Broadcast(t, e)
  BY <1>1 DEF CreateRow, Topics
<1> QED
  BY <1>1, <1>2, <1>3, <1>4, CreateRowKeeps, PassedStep

\* Events that are lost with the socket leave their mark.
LEMMA SocketStep ==
  ASSUME PanelInv, PanelShaped', SocketDrops \/ SocketReturns \/ SocketCloses
  PROVE  PanelInv'
<1>1. PanelShaped /\ reqs \in [Slots -> Requests] /\ queue \in Seq(Notices)
  BY DEF PanelInv, PanelShaped
<1>2. UNCHANGED sessionRows /\ UNCHANGED panel /\ (skew => skew')
  <2>1. CASE SocketDrops
    BY <2>1 DEF SocketDrops
  <2>2. CASE SocketReturns
    BY <2>2 DEF SocketReturns
  <2>3. CASE SocketCloses
    BY <2>3 DEF SocketCloses
  <2> QED
    BY <2>1, <2>2, <2>3
<1>3. UNCHANGED <<busy, stored, run, ask>>
  BY <1>2 DEF sessionRows
<1>4. queue' = queue => \A s \in Sessions : Keeps(s)
  BY <1>3, SameKeeps
<1>5. CASE SocketReturns \/ SocketCloses
  <2>1. reqs' = reqs /\ queue' = queue
    BY <1>5 DEF SocketReturns, SocketCloses
  <2>2. \A j \in Slots : Carried(j)
    BY <2>1 DEF Carried
  <2> QED
    BY <1>2, <1>4, <2>1, <2>2, QuietStep
<1>6. CASE SocketDrops
  <2> DEFINE h(j) == reqs[j].hit \/ InQueue(reqs[j].s)
  <2>1. queue' = <<>> /\ skew' = (skew \/ queue # <<>>)
    BY <1>6 DEF SocketDrops
  <2>2. ASSUME NEW j \in Slots PROVE Carried(j) /\ (reqs'[j] = reqs[j] \/ reqs'[j].hit)
                                      /\ (InQueue(reqs[j].s) => reqs'[j].hit)
    <3>1. reqs'[j] = [reqs[j] EXCEPT !.hit = h(j)]
      BY <1>6 DEF SocketDrops
    <3>2. reqs[j] \in Requests /\ h(j) \in BOOLEAN /\ (reqs[j].hit => h(j)) /\ (InQueue(reqs[j].s) => h(j))
      BY <1>1 DEF Requests, InQueue
    <3> HIDE DEF h
    <3>3. ~h(j) => reqs'[j] = reqs[j]
      BY <3>1, <3>2 DEF Requests
    <3> QED
      BY <3>1, <3>2, <3>3, HitFacts DEF Carried
  <2>3. ASSUME NEW s \in Sessions, ~InQueue(s) PROVE Keeps(s)
    <3>1. \A E : Places(queue, s, E) = {} /\ Places(<<>>, s, E) = {}
      BY <2>3 DEF Places, InQueue
    <3>2. Unread(queue', s) = Unread(queue, s) /\ NoMark(queue', s) /\ NoMark(queue, s) /\ ~Question(queue, s)
          /\ \A E : ~LastMark(queue', s, E) /\ ~LastMark(queue, s, E)
      BY <2>1, <3>1 DEF Unread, NoMark, Question, LastMark
    <3>3. \A n \in Nat : \A b, u, x \in BOOLEAN : Agrees(s, n, b, u, x) => Agrees(s, n, b, u, x)'
      BY <1>3, <3>2 DEF Agrees
    <3>4. (\A c \in BOOLEAN : Shows(s, c) => Shows(s, c)') /\ (Idle(s) => Idle(s)')
      BY <1>3, <3>2 DEF Shows, Idle
    <3> QED
      BY <3>3, <3>4 DEF Keeps, KeepsTurn, KeepsShown
  <2>4. \A s \in Sessions : ~skew' /\ active = s => Keeps(s)
    BY <1>4, <2>1
  <2>5. \A j \in Slots : \/ reqs'[j].hit \/ reqs'[j].op \notin {"load", "reply", "stop"}
                         \/ reqs'[j] = reqs[j] /\ \A s \in Sessions : reqs[j].s = s => Keeps(s)
    BY <2>2, <2>3
  <2> QED
    BY <1>2, <2>2, <2>4, <2>5, QuietStep
<1> QED
  BY <1>5, <1>6

\* A route has worked on request i, with or without an event.
LEMMA ServedStep ==
  ASSUME PanelInv, PanelShaped', NEW i \in Slots, UNCHANGED panel, skew => skew',
         \A j \in Slots \ {i} : Carried(j),
         reqs'[i].op = reqs[i].op, reqs[i].op # "list" => reqs'[i].s = reqs[i].s,
         AnswersFresh', LoadsAlone', Synced'
  PROVE  PanelInv'
<1>1. UNCHANGED <<list, active, view, uiBusy, creating, timer, sending, cards>>
  BY DEF panel
<1>2. CardsBelong'
  BY <1>1 DEF PanelInv, CardsBelong
<1>3. CreatesLoad'
  <2> SUFFICES ASSUME NEW j \in Slots, reqs'[j].op \in {"bare", "prompt"}, reqs'[j].s = active', ~skew'
               PROVE  Asked("load", active)'
    BY DEF CreatesLoad
  <2>1. reqs[j].op \in {"bare", "prompt"} /\ reqs[j].s = active /\ ~skew
    BY <1>1 DEF Carried
  <2>2. PICK k \in Slots : reqs[k].op = "load" /\ reqs[k].s = active
    BY <2>1 DEF PanelInv, CreatesLoad, Asked
  <2>3. reqs'[k].op = "load" /\ reqs'[k].s = active
    BY <2>2 DEF Carried
  <2> QED
    BY <1>1, <2>3 DEF Asked
<1>4. OneSend'
  BY <1>1 DEF PanelInv, OneSend, Carried
<1> QED
  BY <1>2, <1>3, <1>4 DEF PanelInv

\* What is asked and posted, when request i stays where it is but for its stage.
LEMMA StageFacts ==
  ASSUME NEW i \in Slots, \A j \in Slots \ {i} : Carried(j),
         reqs'[i].op = reqs[i].op, reqs'[i].s = reqs[i].s
  PROVE  /\ \A op, s : Asked(op, s)' <=> Asked(op, s)
         /\ \A op, s, at : op # reqs[i].op \/ s # reqs[i].s => (Posted(op, s, at)' <=> Posted(op, s, at))
<1>1. ASSUME NEW op, NEW s PROVE Asked(op, s)' <=> Asked(op, s)
  BY DEF Asked, Carried
<1>2. ASSUME NEW op, NEW s, NEW at, op # reqs[i].op \/ s # reqs[i].s
      PROVE  Posted(op, s, at)' <=> Posted(op, s, at)
  BY <1>2 DEF Posted, Carried
<1> QED
  BY <1>1, <1>2

\* A load, read or completed, tells what holds, or is marked.
LEMMA ServeLoadStep ==
  ASSUME PanelInv, PanelShaped', NEW i \in Slots, ServeLoad(i) \/ ServePending(i) \/ ServeList(i)
  PROVE  PanelInv'
<1>1. /\ PanelShaped /\ reqs \in [Slots -> Requests] /\ reqs[i] \in Requests /\ queue \in Seq(Notices)
      /\ reqs' \in [Slots -> Requests] /\ Sound(i) /\ reqs'[i] \in Requests
  BY DEF PanelInv, PanelShaped
<1>2. UNCHANGED sessionRows /\ UNCHANGED panel /\ UNCHANGED skew /\ queue' = queue
  <2>1. CASE ServeLoad(i)
    BY <2>1 DEF ServeLoad
  <2>2. CASE ServePending(i)
    BY <2>2 DEF ServePending
  <2>3. CASE ServeList(i)
    BY <2>3 DEF ServeList
  <2> QED
    BY <2>1, <2>2, <2>3
<1>3. UNCHANGED <<busy, stored, run, ask>> /\ UNCHANGED <<list, active, view, uiBusy, creating, timer, sending, cards>>
  BY <1>2 DEF sessionRows, panel
<1>4. \A s : Keeps(s)
  BY <1>2, <1>3, SameKeeps
<1>5. \A s : KeepsShown(s) /\ KeepsTurn(s)
  BY <1>4 DEF Keeps
<1>6. \A j \in Slots \ {i} : reqs'[j] = reqs[j] /\ Carried(j)
  BY <1>1 DEF ServeLoad, ServePending, ServeList, Served, Carried
<1>7. reqs'[i].op = reqs[i].op /\ (reqs[i].op # "list" => reqs'[i].s = reqs[i].s)
      /\ reqs[i].op \in {"load", "list"}
  <2>1. CASE ServeLoad(i)
    <3> DEFINE n == stored[reqs[i].s]
               b == reqs[i].s \in busy
               u == reqs[i].s \in busy \ spoke
               h == InQueue(reqs[i].s) \/ \E j \in Slots : reqs[j].s = reqs[i].s /\ reqs[j].op # "load"
    <3>1. /\ reqs'[i] = [reqs[i] EXCEPT !.at = "read", !.stored = n, !.busy = b, !.init = u, !.hit = h]
          /\ reqs[i].op = "load"
      BY <1>1, <2>1 DEF ServeLoad, Served
    <3> HIDE DEF n, b, u, h
    <3> QED
      BY <1>1, <3>1 DEF Requests
  <2>2. CASE ServePending(i)
    <3> DEFINE a == reqs[i].s \in ask
    <3>1. reqs'[i] = [reqs[i] EXCEPT !.at = "done", !.ask = a] /\ reqs[i].op = "load"
      BY <1>1, <2>2 DEF ServePending, Served
    <3> HIDE DEF a
    <3> QED
      BY <1>1, <3>1 DEF Requests
  <2>3. CASE ServeList(i)
    <3> DEFINE c == CHOOSE s \in there \cup {NoSession} : there = {} \/ s \in there
    <3>1. reqs'[i] = [reqs[i] EXCEPT !.at = "done", !.s = c] /\ reqs[i].op = "list"
      BY <1>1, <2>3 DEF ServeList, Served
    <3> HIDE DEF c
    <3> QED
      BY <1>1, <3>1 DEF Requests
  <2> QED
    BY <2>1, <2>2, <2>3
<1>8. \A op, s, at : op # "list" => /\ Asked(op, s)' <=> Asked(op, s)
                                    /\ op # "load" => (Posted(op, s, at)' <=> Posted(op, s, at))
  <2>1. ASSUME NEW op, NEW s, op # "list" PROVE Asked(op, s)' <=> Asked(op, s)
    BY <1>6, <1>7, <2>1 DEF Asked
  <2>2. ASSUME NEW op, NEW s, NEW at, op \notin {"list", "load"} PROVE Posted(op, s, at)' <=> Posted(op, s, at)
    BY <1>6, <1>7, <2>2 DEF Posted
  <2> QED
    BY <2>1, <2>2
<1>9. Synced'
  <2>1. ASSUME NEW s \in Sessions, ~skew', active = s
        PROVE  /\ Asked("load", s) => Asked("load", s)'
               /\ Asked("archive", s) => Asked("archive", s)'
               /\ KeepsShown(s)
               /\ \A n \in Nat : \A b, u, x, v, y \in BOOLEAN :
                    /\ Agrees(s, n, b, u, x)
                    /\ (u <=> Posted("send", s, "sent")) /\ (v <=> Posted("send", s, "sent")')
                    /\ (x <=> Posted("stop", s, "done")) /\ (y <=> Posted("stop", s, "done")')
                    => Agrees(s, n, b, v, y)'
    <3>1. /\ Asked("load", s)' <=> Asked("load", s)
          /\ Asked("archive", s)' <=> Asked("archive", s)
          /\ Posted("send", s, "sent")' <=> Posted("send", s, "sent")
          /\ Posted("stop", s, "done")' <=> Posted("stop", s, "done")
      BY <1>8
    <3> QED
      BY <1>5, <3>1, SMTT(30) DEF KeepsTurn
  <2> QED
    BY <1>2, <1>3, <2>1, SyncedKept DEF PanelInv
<1>10. CASE ServeLoad(i)
  <2>1. /\ reqs[i].op = "load"
        /\ reqs'[i].stored = stored[reqs[i].s] /\ (reqs'[i].busy <=> reqs[i].s \in busy) /\ reqs'[i].at = "read"
        /\ (reqs'[i].hit <=> InQueue(reqs[i].s) \/ \E j \in Slots : reqs[j].s = reqs[i].s /\ reqs[j].op # "load")
    <3> DEFINE n == stored[reqs[i].s]
               b == reqs[i].s \in busy
               u == reqs[i].s \in busy \ spoke
               h == InQueue(reqs[i].s) \/ \E j \in Slots : reqs[j].s = reqs[i].s /\ reqs[j].op # "load"
    <3>1. /\ reqs'[i] = [reqs[i] EXCEPT !.at = "read", !.stored = n, !.busy = b, !.init = u, !.hit = h]
          /\ reqs[i].op = "load"
      BY <1>1, <1>10 DEF ServeLoad, Served
    <3> HIDE DEF n, b, u, h
    <3>2. reqs'[i].stored = n /\ reqs'[i].busy = b /\ reqs'[i].at = "read" /\ reqs'[i].hit = h
      BY <1>1, <3>1 DEF Requests
    <3> QED
      BY <3>1, <3>2 DEF n, b, h
  <2>2. PICK s \in Sessions : reqs[i].s = s /\ reqs'[i].s = s
    BY <1>1, <1>7, <2>1 DEF Sound, Made
  <2>3. ASSUME NEW r \in Requests, reqs'[i] = r, ~r.hit PROVE Tells(r)'
    <3>1. r.op = "load" /\ r.at = "read" /\ r.s = s /\ r.stored = stored[s] /\ (r.busy <=> s \in busy) /\ ~InQueue(s)
      BY <1>7, <2>1, <2>2, <2>3
    <3>2. \A E : Places(queue, s, E) = {}
      BY <3>1 DEF Places, InQueue
    <3>3. Unread(queue, s) = 0 /\ NoMark(queue, s) /\ \A E : ~LastMark(queue, s, E)
      BY <3>2, FS_EmptySet DEF Unread, NoMark, LastMark
    <3>4. stored[s] \in Nat /\ r.busy \in BOOLEAN
      BY <1>1, PanelAssumption DEF PanelShaped, PanelTypeOK, Requests
    <3>5. Agrees(s, r.stored, r.busy, FALSE, FALSE)'
      BY <1>2, <1>3, <3>1, <3>3, <3>4 DEF Agrees
    <3> QED
      BY <3>1, <3>5 DEF Tells
  <2>4. AnswersFresh'
    <3>1. \A r \in Requests : reqs'[i] = r => Tells(r)'
      BY <2>3 DEF Tells
    <3> QED
      BY <1>1, <1>5, <1>6, <3>1, AnswersKept DEF PanelInv
  <2>5. LoadsAlone'
    <3>1. ~reqs'[i].hit => \A j \in Slots : reqs'[j].s = reqs'[i].s => reqs'[j].op \in {"load", "list"}
      BY <1>6, <1>7, <2>1, <2>2
    <3>2. reqs'[i].op \in {"free", "load", "list"}
      BY <1>7, <2>1
    <3> QED
      BY <1>1, <1>6, <3>1, <3>2, LoadsAloneKept DEF PanelInv
  <2> QED
    BY <1>2, <1>6, <1>7, <1>9, <2>4, <2>5, ServedStep
<1>11. CASE ServePending(i)
  <2>1. /\ reqs[i].op = "load" /\ reqs[i].at = "read" /\ reqs'[i].at = "done" /\ reqs'[i].hit = reqs[i].hit
        /\ reqs'[i].stored = reqs[i].stored /\ reqs'[i].busy = reqs[i].busy
        /\ (reqs'[i].ask <=> reqs[i].s \in ask)
    BY <1>1, <1>11 DEF ServePending, Served, Requests
  <2>2. PICK s \in Sessions : reqs[i].s = s /\ reqs'[i].s = s
    BY <1>1, <1>7, <2>1 DEF Sound, Made
  <2>3. ASSUME NEW r \in Requests, reqs'[i] = r, ~r.hit PROVE Tells(r)'
    <3>1. r.op = "load" /\ r.at = "done" /\ r.s = s /\ (r.ask <=> s \in ask) /\ ~reqs[i].hit
          /\ r.stored = reqs[i].stored /\ r.busy = reqs[i].busy /\ r.stored \in Nat /\ r.busy \in BOOLEAN
      BY <1>7, <2>1, <2>2, <2>3 DEF Requests
    <3>2. PICK q \in Requests : q = reqs[i]
      BY <1>1
    <3>3. Agrees(s, r.stored, r.busy, FALSE, FALSE)
      BY <2>1, <2>2, <3>1, <3>2 DEF PanelInv, AnswersFresh, Tells
    <3>4. Agrees(s, r.stored, r.busy, FALSE, FALSE)'
      BY <1>5, <3>1, <3>3 DEF KeepsTurn
    <3>5. Shows(s, r.ask)'
      BY <1>3, <3>1 DEF Shows
    <3> QED
      BY <3>1, <3>4, <3>5 DEF Tells
  <2>4. AnswersFresh'
    <3>1. \A r \in Requests : reqs'[i] = r => Tells(r)'
      BY <2>3 DEF Tells
    <3> QED
      BY <1>1, <1>5, <1>6, <3>1, AnswersKept DEF PanelInv
  <2>5. LoadsAlone'
    BY <1>1, <1>6, <1>7, <2>1, LoadsAloneKept DEF PanelInv
  <2> QED
    BY <1>2, <1>6, <1>7, <1>9, <2>4, <2>5, ServedStep
<1>12. CASE ServeList(i)
  <2>1. reqs[i].op = "list"
    BY <1>12 DEF ServeList
  <2>2. AnswersFresh'
    BY <1>1, <1>5, <1>6, <1>7, <2>1, AnswersKept DEF PanelInv
  <2>3. LoadsAlone'
    BY <1>1, <1>6, <1>7, <2>1, LoadsAloneKept DEF PanelInv
  <2> QED
    BY <1>2, <1>6, <1>7, <1>9, <2>1, <2>2, <2>3, ServedStep
<1> QED
  BY <1>10, <1>11, <1>12

\* Stop, an answer to a question, archive: no load that is on its way back can be right
\* any more, and none is unmarked.
LEMMA ServeStopStep ==
  ASSUME PanelInv, PanelShaped', NEW i \in Slots, ServeStop(i) \/ ServeReply(i) \/ ServeArchive(i)
  PROVE  PanelInv'
<1>1. /\ PanelShaped /\ reqs \in [Slots -> Requests] /\ reqs[i] \in Requests
      /\ reqs' \in [Slots -> Requests] /\ Sound(i) /\ reqs'[i] \in Requests
  BY DEF PanelInv, PanelShaped
<1>2. UNCHANGED panel /\ UNCHANGED skew /\ queue' = queue /\ reqs' = [reqs EXCEPT ![i] = [reqs[i] EXCEPT !.at = "done"]]
  <2>1. CASE ServeStop(i)
    BY <2>1 DEF ServeStop, Served
  <2>2. CASE ServeReply(i)
    BY <2>2 DEF ServeReply, Served
  <2>3. CASE ServeArchive(i)
    BY <2>3 DEF ServeArchive, Served
  <2> QED
    BY <2>1, <2>2, <2>3
<1>3. PICK op \in {"stop", "reply", "archive"}, t \in Sessions : reqs[i].op = op /\ reqs[i].s = t
  BY <1>1 DEF ServeStop, ServeReply, ServeArchive, Sound, Made
<1>4. /\ \A j \in Slots \ {i} : reqs'[j] = reqs[j] /\ Carried(j)
      /\ reqs'[i].op = op /\ reqs'[i].s = t /\ reqs'[i].at = "done" /\ reqs[i].at = "sent"
  BY <1>1, <1>2, <1>3 DEF Carried, Requests, ServeStop, ServeReply, ServeArchive
<1>5. UNCHANGED <<list, active, view, uiBusy, creating, timer, sending, cards>>
  BY <1>2 DEF panel
<1>6. /\ stored' = stored /\ busy' \in {busy, busy \ {t}} /\ run' \in {run, run \ {t}} /\ ask' \in {ask, ask \ {t}}
      /\ op = "stop" => run' = run /\ t \notin busy'
      /\ op = "reply" => run' = run /\ busy' = busy /\ t \notin ask'
      /\ op = "archive" => t \notin busy' /\ t \notin ask'
  BY <1>3 DEF ServeStop, ServeReply, ServeArchive
<1>7. \A s \in Sessions \ {t} : Keeps(s)
  BY <1>2, <1>6, SameKeeps
<1>8. \A s \in Sessions : KeepsShown(s) /\ (op = "reply" \/ s # t => KeepsTurn(s))
  <2>1. KeepsShown(t)
    BY <1>2, <1>6 DEF KeepsShown, Shows, Idle
  <2>2. op = "reply" => KeepsTurn(t)
    BY <1>2, <1>6 DEF KeepsTurn, Agrees
  <2> QED
    BY <1>7, <2>1, <2>2 DEF Keeps
<1>9. AnswersFresh'
  <2>1. ASSUME NEW r \in Requests, reqs'[i] = r PROVE Tells(r)'
    <3>1. r.op = op /\ r.s = t
      BY <1>4, <2>1
    <3>2. (op = "reply" => Shows(t, FALSE)') /\ (op = "stop" => Idle(t)')
      BY <1>6 DEF Shows, Idle
    <3> QED
      BY <3>1, <3>2 DEF Tells
  <2>2. \A j \in Slots \ {i} : reqs[j].s = t /\ reqs[j].op = "load" => reqs[j].hit \/ reqs[j].at = "sent"
    BY <1>3 DEF PanelInv, LoadsAlone
  <2> QED
    BY <1>1, <1>4, <1>8, <2>1, <2>2, AnswersKept DEF PanelInv
<1>10. LoadsAlone'
  BY <1>1, <1>3, <1>4, LoadsAloneKept DEF PanelInv
<1>11. Synced'
  <2>1. /\ \A p, s : Asked(p, s)' <=> Asked(p, s)
        /\ \A p, s, at : p # op \/ s # t => (Posted(p, s, at)' <=> Posted(p, s, at))
    BY <1>3, <1>4, StageFacts
  <2>2. op = "archive" => Asked("archive", t)'
    BY <1>4 DEF Asked
  <2>3. op = "stop" => Posted("stop", t, "done")'
    BY <1>4 DEF Posted
  <2>4. ASSUME NEW s \in Sessions, active = s, ~Asked("archive", s)', NEW n \in Nat,
               NEW b \in BOOLEAN, NEW u \in BOOLEAN, NEW x \in BOOLEAN, NEW v \in BOOLEAN, NEW y \in BOOLEAN,
               Agrees(s, n, b, u, x),
               (u <=> Posted("send", s, "sent")) /\ (v <=> Posted("send", s, "sent")'),
               (x <=> Posted("stop", s, "done")) /\ (y <=> Posted("stop", s, "done")')
        PROVE  Agrees(s, n, b, v, y)'
    <3>1. v = u
      BY <1>3, <2>1, <2>4
    <3>2. CASE s = t /\ op = "stop"
      <4>1. y = TRUE
        BY <2>3, <2>4, <3>2
      <4> QED
        BY <1>2, <1>6, <2>4, <3>1, <3>2, <4>1 DEF Agrees
    <3>3. CASE ~(s = t /\ op = "stop")
      <4>1. op = "reply" \/ s # t
        BY <1>3, <2>2, <2>4, <3>3
      <4>2. y = x
        BY <2>1, <2>4, <3>3
      <4> QED
        BY <1>8, <2>4, <3>1, <4>1, <4>2 DEF KeepsTurn
    <3> QED
      BY <3>2, <3>3
  <2> QED
    BY <1>1, <1>2, <1>5, <1>8, <2>1, <2>4, SyncedKept DEF PanelInv
<1> QED
  BY <1>2, <1>3, <1>4, <1>9, <1>10, <1>11, ServedStep

\* A route has worked on request i of t, and has sent an event of t.
LEMMA ServedNews ==
  ASSUME PanelInv, PanelShaped', NEW i \in Slots, NEW t \in Sessions, reqs[i].s = t,
         reqs[i].op \in {"send", "bare", "prompt"},
         \E e \in Topics : Broadcast(t, e), reqs' = [Passed(t) EXCEPT ![i] = [reqs[i] EXCEPT !.at = "done"]]
  PROVE  /\ UNCHANGED <<list, active, view, uiBusy, creating, timer, sending, cards>>
         /\ UNCHANGED panel /\ (skew => skew') /\ (active = t /\ sock # "open" => skew')
         /\ reqs'[i].op = reqs[i].op /\ reqs'[i].s = t /\ reqs'[i].at = "done"
         /\ \A j \in Slots \ {i} :
              /\ Carried(j)
              /\ reqs[j].s # t \/ sock = "open" => reqs'[j] = reqs[j]
              /\ reqs[j].s = t /\ sock # "open" => reqs'[j].hit
<1>1. reqs \in [Slots -> Requests] /\ reqs[i] \in Requests
  BY DEF PanelInv, PanelShaped
<1>2. Passed(t) \in [Slots -> Requests]
  BY <1>1, PassedSlots
<1>3. /\ reqs'[i] = [reqs[i] EXCEPT !.at = "done"]
      /\ \A j \in Slots \ {i} : reqs'[j] = Passed(t)[j]
  BY <1>2
<1>4. reqs'[i].op = reqs[i].op /\ reqs'[i].s = t /\ reqs'[i].at = "done"
  BY <1>1, <1>3 DEF Requests
<1>5. ASSUME NEW j \in Slots \ {i}
      PROVE  /\ Carried(j)
             /\ reqs[j].s # t \/ sock = "open" => reqs'[j] = reqs[j]
             /\ reqs[j].s = t /\ sock # "open" => reqs'[j].hit
  BY <1>1, <1>3, PassedSlots DEF Carried
<1>6. UNCHANGED panel /\ (skew => skew') /\ (active = t /\ sock # "open" => skew')
  BY DEF Broadcast
<1> QED
  BY <1>4, <1>5, <1>6 DEF panel

\* A message that is posted is stored, and its turn announced, at once.
LEMMA ServeSendStep ==
  ASSUME PanelInv, PanelShaped', NEW i \in Slots, ServeSend(i)
  PROVE  PanelInv'
<1>1. /\ PanelShaped /\ reqs \in [Slots -> Requests] /\ queue \in Seq(Notices) /\ Sound(i)
  BY DEF PanelInv, PanelShaped
<1>2. PICK t \in Sessions : reqs[i].s = t
  BY <1>1 DEF ServeSend, Sound, Made
<1>3. /\ reqs[i].op = "send" /\ reqs[i].at = "sent" /\ Broadcast(t, "started")
      /\ busy' = busy \cup {t} /\ run' = run \cup {t} /\ stored' = [stored EXCEPT ![t] = @ + 1] /\ ask' = ask
      /\ reqs' = [Passed(t) EXCEPT ![i] = [reqs[i] EXCEPT !.at = "done"]]
  BY <1>2 DEF ServeSend
<1>4. "started" \in Topics /\ "started" \in Marks
  BY DEF Topics, Marks
<1>5. /\ UNCHANGED <<list, active, view, uiBusy, creating, timer, sending, cards>>
      /\ UNCHANGED panel /\ (skew => skew') /\ (active = t /\ sock # "open" => skew')
      /\ reqs'[i].op = reqs[i].op /\ reqs'[i].s = t /\ reqs'[i].at = "done"
      /\ \A j \in Slots \ {i} :
           /\ Carried(j)
           /\ reqs[j].s # t \/ sock = "open" => reqs'[j] = reqs[j]
           /\ reqs[j].s = t /\ sock # "open" => reqs'[j].hit
  BY <1>2, <1>3, <1>4, ServedNews
<1>6. \A s \in Sessions : stored[s] \in Nat
  BY <1>1, PanelAssumption DEF PanelShaped, PanelTypeOK
<1>7. ASSUME NEW s \in Sessions \ {t} PROVE Keeps(s)
  <2>1. stored'[s] = stored[s] + 0 /\ stored'[s] = stored[s]
    BY <1>1, <1>3, <1>6 DEF PanelShaped, PanelTypeOK
  <2>2. /\ s \in Sessions /\ s # t
        /\ (s \in busy' <=> s \in busy) /\ (s \in run' <=> s \in run) /\ (s \in ask' => s \in ask)
    BY <1>3
  <2> QED
    BY <1>1, <1>3, <1>4, <2>1, <2>2, NewsKeeps
<1>8. ASSUME sock = "open"
      PROVE  /\ KeepsShown(t)
             /\ \A n \in Nat : \A b, x \in BOOLEAN : Agrees(t, n, b, TRUE, x) => Agrees(t, n, b, FALSE, x)'
  <2> DEFINE f == [s |-> t, ev |-> "started"]
  <2>1. queue' = Append(queue, f) /\ f \in Notices /\ f.s = t /\ f.ev = "started"
    BY <1>3, <1>4, <1>8 DEF Broadcast, Notices
  <2> HIDE DEF f
  <2>2. Unread(queue', t) = Unread(queue, t)
    <3>1. Unread(queue', t) = Unread(queue, t) + (IF f.s = t /\ f.ev = "said" THEN 1 ELSE 0) /\ Unread(queue, t) \in Nat
      BY <1>1, <2>1, UnreadAppend, UnreadType
    <3> QED
      BY <2>1, <3>1
  <2>3. /\ ~NoMark(queue', t) /\ (Question(queue, t) => Question(queue', t))
        /\ \A E \in SUBSET Marks : LastMark(queue', t, E) <=> "started" \in E
    <3>1. /\ NoMark(queue', t) <=> NoMark(queue, t) /\ ~(f.s = t /\ f.ev \in Marks)
          /\ Question(queue', t) <=> Question(queue, t) \/ (f.s = t /\ f.ev = "asked")
          /\ \A E \in SUBSET Marks : f.s = t /\ f.ev \in Marks => (LastMark(queue', t, E) <=> f.ev \in E)
      BY <1>1, <2>1, NewsAppend
    <3> QED
      BY <1>4, <2>1, <3>1
  <2>4. LastMark(queue', t, {"started"}) /\ ~LastMark(queue', t, Marks \ {"started"})
    <3>1. {"started"} \in SUBSET Marks /\ Marks \ {"started"} \in SUBSET Marks
      BY DEF Marks
    <3> QED
      BY <2>3, <3>1
  <2>5. KeepsShown(t)
    BY <1>3, <2>3 DEF KeepsShown, Shows, Idle
  <2>6. stored'[t] = stored[t] + 1 /\ t \in run'
    BY <1>1, <1>3 DEF PanelShaped, PanelTypeOK
  <2>7. ASSUME NEW n \in Nat, NEW b \in BOOLEAN, NEW x \in BOOLEAN, Agrees(t, n, b, TRUE, x)
        PROVE  Agrees(t, n, b, FALSE, x)'
    <3>1. n + Unread(queue, t) = stored[t] + 1
      BY <2>7 DEF Agrees
    <3>2. (n + Unread(queue, t) = stored[t] + 0)'
      BY <1>6, <2>2, <2>6, <3>1
    <3> QED
      BY <2>3, <2>4, <2>6, <3>2 DEF Agrees
  <2> QED
    BY <2>5, <2>7
<1>9. AnswersFresh'
  <2>1. ASSUME NEW j \in Slots
        PROVE  \/ reqs'[j].hit
               \/ reqs'[j].at = "sent"
               \/ reqs'[j].op \notin {"load", "reply", "stop"}
               \/ /\ reqs'[j] = reqs[j]
                  /\ \A s \in Sessions : reqs[j].s = s => KeepsShown(s) /\ (reqs[j].op = "load" => KeepsTurn(s))
    <3>1. CASE j = i
      BY <1>3, <1>5, <3>1
    <3>2. CASE j # i /\ reqs[j].s # t
      BY <1>5, <1>7, <3>2 DEF Keeps
    <3>3. CASE j # i /\ reqs[j].s = t
      <4>1. reqs[j].op = "load" => reqs[j].hit \/ reqs[j].at = "sent"
        BY <1>2, <1>3, <3>3 DEF PanelInv, LoadsAlone
      <4> QED
        BY <1>5, <1>8, <3>3, <4>1
    <3> QED
      BY <3>1, <3>2, <3>3
  <2> QED
    BY <1>1, <2>1, AnswersKept DEF PanelInv
<1>10. LoadsAlone'
  BY <1>1, <1>2, <1>3, <1>5, LoadsAloneKept DEF PanelInv
<1>11. Synced'
  <2>1. /\ \A p, s : Asked(p, s)' <=> Asked(p, s)
        /\ \A p, s, at : p # "send" \/ s # t => (Posted(p, s, at)' <=> Posted(p, s, at))
    BY <1>2, <1>3, <1>5, StageFacts
  <2>2. Posted("send", t, "sent")
    BY <1>2, <1>3 DEF Posted
  <2>3. ~Posted("send", t, "sent")'
    <3>1. \A j \in Slots \ {i} : reqs[j].op # "send"
      BY <1>3 DEF PanelInv, OneSend
    <3> QED
      BY <1>3, <1>5, <3>1 DEF Posted, Carried
  <2>4. ASSUME NEW s \in Sessions, ~skew', active = s PROVE KeepsShown(s)
    BY <1>5, <1>7, <1>8, <2>4 DEF Keeps
  <2>5. ASSUME NEW s \in Sessions, ~skew', active = s, NEW n \in Nat,
               NEW b \in BOOLEAN, NEW u \in BOOLEAN, NEW x \in BOOLEAN, NEW v \in BOOLEAN, NEW y \in BOOLEAN,
               Agrees(s, n, b, u, x),
               (u <=> Posted("send", s, "sent")) /\ (v <=> Posted("send", s, "sent")'),
               (x <=> Posted("stop", s, "done")) /\ (y <=> Posted("stop", s, "done")')
        PROVE  Agrees(s, n, b, v, y)'
    <3>1. y = x
      BY <2>1, <2>5
    <3>2. CASE s = t
      <4>1. u = TRUE /\ v = FALSE
        BY <2>2, <2>3, <2>5, <3>2
      <4> QED
        BY <1>5, <1>8, <2>5, <3>1, <3>2, <4>1
    <3>3. CASE s # t
      <4>1. v = u
        BY <2>1, <2>5, <3>3
      <4> QED
        BY <1>7, <2>5, <3>1, <3>3, <4>1 DEF Keeps, KeepsTurn
    <3> QED
      BY <3>2, <3>3
  <2> QED
    BY <1>1, <1>5, <2>1, <2>4, <2>5, SyncedKept DEF PanelInv
<1> QED
  BY <1>2, <1>3, <1>5, <1>9, <1>10, <1>11, ServedStep

\* The row of a new session, of which nothing has been shown.
LEMMA ServeCreateStep ==
  ASSUME PanelInv, PanelShaped', NEW i \in Slots, ServeCreate(i)
  PROVE  PanelInv'
<1>1. /\ PanelShaped /\ reqs \in [Slots -> Requests] /\ Sound(i)
  BY DEF PanelInv, PanelShaped
<1>2. PICK t \in Sessions, p \in {"bare", "prompt"} : reqs[i].s = t /\ reqs[i].op = p
  BY <1>1 DEF ServeCreate, Sound
<1>3. CreateRow(t, p) /\ reqs' = [Passed(t) EXCEPT ![i] = [reqs[i] EXCEPT !.at = "done"]]
  BY <1>2 DEF ServeCreate
<1>4. \E e \in Topics : Broadcast(t, e)
  BY <1>3 DEF CreateRow, Topics
<1>5. /\ UNCHANGED <<list, active, view, uiBusy, creating, timer, sending, cards>>
      /\ UNCHANGED panel /\ (skew => skew') /\ (active = t /\ sock # "open" => skew')
      /\ reqs'[i].op = reqs[i].op /\ reqs'[i].s = t /\ reqs'[i].at = "done"
      /\ \A j \in Slots \ {i} :
           /\ Carried(j)
           /\ reqs[j].s # t \/ sock = "open" => reqs'[j] = reqs[j]
           /\ reqs[j].s = t /\ sock # "open" => reqs'[j].hit
  BY <1>2, <1>3, <1>4, ServedNews
<1>6. ~Made(t)
  BY <1>3 DEF CreateRow, Made
<1>7. active # t /\ \A j \in Slots : reqs[j].s = t => reqs[j].op \notin {"load", "reply", "stop"}
  BY <1>1, <1>6, PanelAssumption DEF PanelShaped, Sound
<1>8. \A s \in Sessions \ {t} : KeepsShown(s) /\ KeepsTurn(s)
  BY <1>1, <1>3, CreateRowKeeps DEF Keeps
<1>9. AnswersFresh'
  <2>1. ASSUME NEW j \in Slots
        PROVE  \/ reqs'[j].op \notin {"load", "reply", "stop"}
               \/ /\ reqs'[j] = reqs[j]
                  /\ \A s \in Sessions : reqs[j].s = s => KeepsShown(s) /\ (reqs[j].op = "load" => KeepsTurn(s))
    <3>1. CASE j = i
      BY <1>2, <1>5, <3>1
    <3>2. CASE j # i /\ reqs[j].s # t
      BY <1>5, <1>8, <3>2
    <3>3. CASE j # i /\ reqs[j].s = t
      BY <1>5, <1>7, <3>3 DEF Carried
    <3> QED
      BY <3>1, <3>2, <3>3
  <2> QED
    BY <1>1, <2>1, AnswersKept DEF PanelInv
<1>10. LoadsAlone'
  BY <1>1, <1>2, <1>5, LoadsAloneKept DEF PanelInv
<1>11. Synced'
  <2>1. /\ \A op, s : Asked(op, s)' <=> Asked(op, s)
        /\ \A op, s, at : op # reqs[i].op \/ s # t => (Posted(op, s, at)' <=> Posted(op, s, at))
    BY <1>2, <1>5, StageFacts
  <2>2. ASSUME NEW s \in Sessions, active = s, NEW n \in Nat,
               NEW b \in BOOLEAN, NEW u \in BOOLEAN, NEW x \in BOOLEAN, NEW v \in BOOLEAN, NEW y \in BOOLEAN,
               Agrees(s, n, b, u, x),
               (u <=> Posted("send", s, "sent")) /\ (v <=> Posted("send", s, "sent")'),
               (x <=> Posted("stop", s, "done")) /\ (y <=> Posted("stop", s, "done")')
        PROVE  Agrees(s, n, b, v, y)'
    <3>1. s # t /\ v = u /\ y = x
      BY <1>7, <2>1, <2>2
    <3> QED
      BY <1>8, <2>2, <3>1 DEF KeepsTurn
  <2> QED
    BY <1>1, <1>5, <1>7, <1>8, <2>1, <2>2, SyncedKept DEF PanelInv
<1> QED
  BY <1>2, <1>5, <1>9, <1>10, <1>11, ServedStep

-----------------------------------------------------------------------------
(* The browser's steps: rows and queue are as they were. *)

\* With rows and queue as they were, so is what they say.
LEMMA RestKeeps ==
  ASSUME UNCHANGED sessionRows, queue' = queue
  PROVE  \A s : KeepsShown(s) /\ KeepsTurn(s)
<1>1. UNCHANGED <<busy, stored, run, ask>>
  BY DEF sessionRows
<1> QED
  BY <1>1, SameKeeps DEF Keeps

\* So what the panel agrees with holds as before.
LEMMA RestAgrees ==
  ASSUME UNCHANGED sessionRows, queue' = queue, NEW s, NEW n \in Nat, NEW b \in BOOLEAN,
         NEW u \in BOOLEAN, NEW x \in BOOLEAN, NEW c \in BOOLEAN, Agrees(s, n, b, u, x), Shows(s, c)
  PROVE  Agrees(s, n, b, u, x)' /\ Shows(s, c)'
<1>1. KeepsShown(s) /\ KeepsTurn(s)
  BY RestKeeps
<1> QED
  BY <1>1 DEF KeepsTurn, KeepsShown

\* A panel that is not touched agrees with rows and queue that are as they were.
LEMMA SyncedRest ==
  ASSUME PanelShaped, Synced, UNCHANGED sessionRows, queue' = queue,
         UNCHANGED <<active, view, uiBusy, cards>>, skew => skew',
         \A s \in Sessions :
           ~skew' /\ active = s =>
             /\ Asked("load", s) => Asked("load", s)'
             /\ Asked("archive", s) => Asked("archive", s)'
             /\ Posted("send", s, "sent")' <=> Posted("send", s, "sent")
             /\ Posted("stop", s, "done")' <=> Posted("stop", s, "done")
  PROVE  Synced'
<1>1. \A s : KeepsShown(s) /\ KeepsTurn(s)
  BY RestKeeps
<1>2. ASSUME NEW s \in Sessions, ~skew', active = s
      PROVE  /\ Asked("load", s) => Asked("load", s)'
             /\ Asked("archive", s) => Asked("archive", s)'
             /\ KeepsShown(s)
             /\ \A n \in Nat : \A b, u, x, v, y \in BOOLEAN :
                  /\ Agrees(s, n, b, u, x)
                  /\ (u <=> Posted("send", s, "sent")) /\ (v <=> Posted("send", s, "sent")')
                  /\ (x <=> Posted("stop", s, "done")) /\ (y <=> Posted("stop", s, "done")')
                  => Agrees(s, n, b, v, y)'
  BY <1>1, <1>2 DEF KeepsTurn
<1> QED
  BY <1>2, SyncedKept

\* Requests are answered, and loads are asked for.
LEMMA AskedStep ==
  ASSUME PanelInv, PanelShaped', \A s \in Sessions : KeepsShown(s) /\ KeepsTurn(s),
         \A j \in Slots : \/ reqs'[j] = reqs[j] \/ reqs'[j] = Free
                          \/ \E s \in Sessions : reqs'[j] = Request("load", s)
  PROVE  /\ AnswersFresh' /\ LoadsAlone'
         /\ (sending' = sending \/ \A j \in Slots : reqs'[j].op # "send") => OneSend'
<1>1. \A s \in Sessions : KeepsShown(s) /\ KeepsTurn(s)
  OBVIOUS
<1>2. \A s \in Sessions : Request("load", s).op = "load" /\ Request("load", s).at = "sent"
  BY RequestFacts
<1>3. Free.op = "free"
  BY RequestFacts
<1>4. ASSUME NEW j \in Slots
      PROVE  reqs'[j] = reqs[j] \/ reqs'[j].op = "free" \/ (reqs'[j].op = "load" /\ reqs'[j].at = "sent")
  BY <1>2, <1>3
<1>5. AnswersFresh'
  BY <1>1, <1>4, AnswersKept DEF PanelInv
<1>6. \A j \in Slots : reqs'[j] = reqs[j] => Carried(j)
  BY DEF Carried
<1>7. LoadsAlone'
  <2>1. \A j \in Slots : \/ Carried(j) \/ reqs'[j].op # "load" \/ reqs'[j].at = "sent"
    BY <1>4, <1>6
  <2>2. \A j \in Slots : Carried(j) \/ reqs'[j].op \in {"free", "load", "list"}
    BY <1>4, <1>6
  <2> QED
    BY <2>1, <2>2, LoadsAloneKept DEF PanelInv
<1>8. (sending' = sending \/ \A j \in Slots : reqs'[j].op # "send") => OneSend'
  BY <1>4 DEF PanelInv, OneSend
<1> QED
  BY <1>5, <1>7, <1>8

\* The same, for a step that hears no event.
LEMMA TakenStep ==
  ASSUME PanelInv, PanelShaped', UNCHANGED sessionRows, queue' = queue,
         \A j \in Slots : \/ reqs'[j] = reqs[j] \/ reqs'[j] = Free
                          \/ \E s \in Sessions : reqs'[j] = Request("load", s)
  PROVE  /\ AnswersFresh' /\ LoadsAlone'
         /\ (sending' = sending \/ \A j \in Slots : reqs'[j].op # "send") => OneSend'
BY RestKeeps, AskedStep

\* What is asked and posted, when request i is answered.
LEMMA AnsweredFacts ==
  ASSUME PanelShaped, NEW i \in Slots, reqs' = Others(i)
  PROVE  /\ \A op, s : op # "free" /\ op # reqs[i].op => (Asked(op, s)' <=> Asked(op, s))
         /\ \A op, s, at : op # "free" /\ op # reqs[i].op => (Posted(op, s, at)' <=> Posted(op, s, at))
         /\ \A op, s : op # "free" => (Asked(op, s)' => Asked(op, s))
         /\ \A op, s, at : op # "free" => (Posted(op, s, at)' => Posted(op, s, at))
<1>1. reqs'[i].op = "free" /\ \A j \in Slots \ {i} : reqs'[j] = reqs[j]
  BY OthersFacts, RequestFacts
<1>2. ASSUME NEW op, NEW s, op # "free"
      PROVE  (Asked(op, s)' => Asked(op, s)) /\ (op # reqs[i].op => (Asked(op, s) => Asked(op, s)'))
  BY <1>1, <1>2 DEF Asked
<1>3. ASSUME NEW op, NEW s, NEW at, op # "free"
      PROVE  (Posted(op, s, at)' => Posted(op, s, at)) /\ (op # reqs[i].op => (Posted(op, s, at) => Posted(op, s, at)'))
  BY <1>1, <1>3 DEF Posted
<1> QED
  BY <1>2, <1>3

\* An unmarked load of the active session shows it; any other is known to be of no use.
LEMMA AnswerLoadStep ==
  ASSUME PanelInv, PanelShaped', NEW i \in Slots, AnswerLoad(i)
  PROVE  PanelInv'
<1>1. PanelShaped /\ Sound(i) /\ reqs[i] \in Requests
  BY DEF PanelInv, PanelShaped
<1>2. PICK s \in Sessions, r \in Requests : reqs[i] = r /\ r.s = s /\ r.op = "load" /\ r.at = "done"
  BY <1>1 DEF AnswerLoad, Sound, Made
<1>3. /\ view' = Numbered(s, r.stored) /\ uiBusy' = r.busy /\ cards' = IF r.ask THEN {s} ELSE {}
      /\ skew' = (r.hit \/ s # active \/ Connected(sock) # "open")
      /\ reqs' = Others(i) /\ UNCHANGED sessionRows /\ queue' = queue /\ active' = active /\ sending' = sending
  BY <1>2 DEF AnswerLoad, Restored
<1>4. reqs'[i].op = "free" /\ \A j \in Slots \ {i} : reqs'[j] = reqs[j]
  BY <1>1, <1>3, OthersFacts, RequestFacts
<1>5. \A j \in Slots : reqs'[j] = reqs[j] \/ reqs'[j] = Free
  BY <1>1, <1>3, OthersFacts
<1>6. AnswersFresh' /\ LoadsAlone' /\ OneSend'
  BY <1>3, <1>5, TakenStep
<1>7. ~skew' => active = s /\ ~r.hit
  BY <1>3
<1>8. ~skew' => \A j \in Slots : reqs[j].s = s => reqs[j].op \in {"load", "list"}
  BY <1>2, <1>7 DEF PanelInv, LoadsAlone
<1>9. CardsBelong'
  BY <1>3, <1>7 DEF CardsBelong
<1>10. CreatesLoad'
  <2> SUFFICES ASSUME NEW j \in Slots, reqs'[j].op \in {"bare", "prompt"}, reqs'[j].s = active', ~skew'
               PROVE  FALSE
    BY DEF CreatesLoad
  <2> QED
    BY <1>3, <1>4, <1>7, <1>8
<1>11. Synced'
  <2> SUFFICES ASSUME NEW z \in Sessions, NEW n \in Nat,
                      NEW b \in BOOLEAN, NEW u \in BOOLEAN, NEW x \in BOOLEAN, NEW c \in BOOLEAN,
                      ~skew', active' = z, n = Len(view'), b <=> uiBusy', c <=> z \in cards',
                      u <=> Posted("send", z, "sent")', x <=> Posted("stop", z, "done")'
               PROVE  /\ Agrees(z, n, b, u, x)' /\ Shows(z, c)'
                      /\ \A k \in 1..Len(view') : view'[k][1] = z
    BY DEF Synced
  <2>1. z = s
    BY <1>3, <1>7
  <2>2. u = FALSE /\ x = FALSE
    <3>1. \A j \in Slots : ~(reqs'[j].s = s /\ reqs'[j].op \in {"send", "stop"})
      BY <1>4, <1>8
    <3> QED
      BY <2>1, <3>1 DEF Posted
  <2>3. r.stored \in Nat /\ r.busy \in BOOLEAN /\ r.ask \in BOOLEAN
    BY DEF Requests
  <2>4. Len(view') = r.stored /\ \A k \in 1..Len(view') : view'[k][1] = s
    BY <1>3, <2>3 DEF Numbered
  <2>5. b = r.busy /\ c = r.ask
    BY <1>3, <2>1, <2>3
  <2>6. Agrees(s, r.stored, r.busy, FALSE, FALSE) /\ Shows(s, r.ask)
    BY <1>2, <1>7 DEF PanelInv, AnswersFresh, Tells
  <2>7. Agrees(s, r.stored, r.busy, FALSE, FALSE)' /\ Shows(s, r.ask)'
    BY <1>3, <2>3, <2>6, RestKeeps DEF KeepsTurn, KeepsShown
  <2> QED
    BY <2>1, <2>2, <2>4, <2>5, <2>7
<1> QED
  BY <1>6, <1>9, <1>10, <1>11 DEF PanelInv

\* The list is answered: the session it makes active gets its load.
LEMMA AnswerListStep ==
  ASSUME PanelInv, PanelShaped', NEW i \in Slots, AnswerList(i)
  PROVE  PanelInv'
<1>1. PanelShaped /\ Sound(i) /\ reqs[i] \in Requests /\ Others(i) \in [Slots -> Requests]
  BY OthersFacts DEF PanelInv, PanelShaped
<1>3. PICK s \in Sessions \cup {NoSession} : s = IF active = NoSession THEN reqs[i].s ELSE active
  BY <1>1 DEF PanelShaped, Made, Requests
<1>2. /\ reqs[i].op = "list" /\ Activate(s, Others(i)) /\ UNCHANGED sessionRows /\ queue' = queue
      /\ UNCHANGED <<view, uiBusy, sending, cards, skew>>
  BY <1>3 DEF AnswerList
<1>4. /\ active' = s
      /\ \A j \in Slots : \/ reqs'[j] = Others(i)[j]
                          \/ Others(i)[j] = Free /\ s # NoSession /\ reqs'[j] = Request("load", s)
      /\ s # active /\ s # NoSession => Asked("load", s)'
      /\ s = active \/ s = NoSession => reqs' = Others(i)
  BY <1>1, <1>2, <1>3, Activated
<1>5. s # active => active = NoSession
  BY <1>3
<1>6. \A j \in Slots : \/ reqs'[j] = reqs[j] \/ reqs'[j] = Free
                       \/ \E z \in Sessions : reqs'[j] = Request("load", z)
  BY <1>1, <1>3, <1>4, OthersFacts
<1>7. AnswersFresh' /\ LoadsAlone' /\ OneSend'
  BY <1>2, <1>6, TakenStep
<1>8. CardsBelong'
  <2>1. cards \subseteq Sessions /\ NoSession \notin Sessions
    BY <1>1, PanelAssumption DEF PanelShaped, PanelTypeOK
  <2> QED
    BY <1>2, <1>4, <1>5, <2>1 DEF PanelInv, CardsBelong
<1>9. s = active => \A op, z, at : op \notin {"free", "list"} =>
        (Asked(op, z)' <=> Asked(op, z)) /\ (Posted(op, z, at)' <=> Posted(op, z, at))
  BY <1>1, <1>2, <1>4, AnsweredFacts
<1>10. CreatesLoad'
  <2> SUFFICES ASSUME NEW j \in Slots, reqs'[j].op \in {"bare", "prompt"}, reqs'[j].s = active', ~skew'
               PROVE  Asked("load", active)'
    BY DEF CreatesLoad
  <2>1. s \in Sessions
    BY <1>4 DEF PanelShaped, Sound
  <2>2. NoSession \notin Sessions
    BY PanelAssumption
  <2>3. CASE s = active
    <3>1. reqs'[j] = reqs[j]
      BY <1>1, <1>4, <2>3, OthersFacts, RequestFacts
    <3>2. Asked("load", active)
      BY <1>2, <1>4, <2>3, <3>1 DEF PanelInv, CreatesLoad
    <3> QED
      BY <1>4, <1>9, <2>3, <3>2 DEF Asked
  <2>4. CASE s # active
    BY <1>4, <2>1, <2>2, <2>4 DEF Asked
  <2> QED
    BY <2>3, <2>4
<1>11. Synced'
  <2>1. CASE s = active
    <3>1. \A z \in Sessions :
            /\ Asked("load", z) => Asked("load", z)'
            /\ Asked("archive", z) => Asked("archive", z)'
            /\ Posted("send", z, "sent")' <=> Posted("send", z, "sent")
            /\ Posted("stop", z, "done")' <=> Posted("stop", z, "done")
      BY <1>9, <2>1
    <3> QED
      BY <1>1, <1>2, <1>4, <2>1, <3>1, SyncedRest DEF PanelInv
  <2>2. CASE s # active
    <3>1. \A z \in Sessions : active' = z => Asked("load", z)'
      BY <1>4, <2>2, PanelAssumption
    <3> QED
      BY <3>1 DEF Synced
  <2> QED
    BY <2>1, <2>2
<1> QED
  BY <1>7, <1>8, <1>10, <1>11 DEF PanelInv

\* An answer that leaves the active session, and so the loads, as they are.
LEMMA AnsweredStep ==
  ASSUME PanelInv, PanelShaped', NEW i \in Slots, reqs' = Others(i), UNCHANGED sessionRows, queue' = queue,
         active' = active, reqs[i].op # "load", skew => skew', cards' \subseteq cards,
         sending' = sending \/ \A j \in Slots \ {i} : reqs[j].op # "send",
         Synced'
  PROVE  PanelInv'
<1>1. PanelShaped
  BY DEF PanelInv
<1>2. reqs'[i] = Free /\ reqs'[i].op = "free" /\ \A j \in Slots \ {i} : reqs'[j] = reqs[j]
  BY <1>1, OthersFacts, RequestFacts
<1>3. \A j \in Slots : reqs'[j] = reqs[j] \/ reqs'[j] = Free
  BY <1>2
<1>4. sending' = sending \/ \A j \in Slots : reqs'[j].op # "send"
  BY <1>2
<1>5. AnswersFresh' /\ LoadsAlone' /\ OneSend'
  BY <1>3, <1>4, TakenStep
<1>6. CardsBelong'
  BY DEF PanelInv, CardsBelong
<1>7. CreatesLoad'
  <2> SUFFICES ASSUME NEW j \in Slots, reqs'[j].op \in {"bare", "prompt"}, reqs'[j].s = active', ~skew'
               PROVE  Asked("load", active)'
    BY DEF CreatesLoad
  <2>1. PICK k \in Slots : reqs[k].op = "load" /\ reqs[k].s = active
    BY <1>2 DEF PanelInv, CreatesLoad, Asked
  <2>2. reqs'[k] = reqs[k]
    BY <1>2, <2>1
  <2> QED
    BY <2>1, <2>2 DEF Asked
<1> QED
  BY <1>5, <1>6, <1>7 DEF PanelInv

\* A message has been taken, or the panel shows an error.
LEMMA AnswerSendStep ==
  ASSUME PanelInv, PanelShaped', NEW i \in Slots, AnswerSend(i)
  PROVE  PanelInv'
<1>1. PanelShaped
  BY DEF PanelInv
<1>2. /\ reqs[i].op = "send" /\ reqs' = Others(i) /\ UNCHANGED sessionRows /\ queue' = queue
      /\ UNCHANGED <<active, view, cards>>
      /\ (reqs[i].at = "done" /\ uiBusy' = uiBusy /\ skew' = skew) \/ skew' = TRUE
  BY DEF AnswerSend
<1>3. \A j \in Slots \ {i} : reqs[j].op # "send"
  BY <1>2 DEF PanelInv, OneSend
<1>4. Synced'
  <2>1. CASE reqs[i].at = "done" /\ uiBusy' = uiBusy /\ skew' = skew
    <3>1. /\ \A op, s : op # "free" /\ op # "send" => (Asked(op, s)' <=> Asked(op, s))
          /\ \A op, s, at : op # "free" /\ op # "send" => (Posted(op, s, at)' <=> Posted(op, s, at))
          /\ \A op, s, at : op # "free" => (Posted(op, s, at)' => Posted(op, s, at))
      BY <1>1, <1>2, AnsweredFacts
    <3>2. \A s : ~Posted("send", s, "sent")
      BY <1>3, <2>1 DEF Posted
    <3>3. \A s \in Sessions :
            /\ Asked("load", s) => Asked("load", s)'
            /\ Asked("archive", s) => Asked("archive", s)'
            /\ Posted("send", s, "sent")' <=> Posted("send", s, "sent")
            /\ Posted("stop", s, "done")' <=> Posted("stop", s, "done")
      BY <3>1, <3>2
    <3> QED
      BY <1>1, <1>2, <2>1, <3>3, SyncedRest DEF PanelInv
  <2>2. CASE skew' = TRUE
    BY <2>2 DEF Synced
  <2> QED
    BY <1>2, <2>1, <2>2
<1> QED
  BY <1>2, <1>3, <1>4, AnsweredStep

\* A stop is answered: the row has been idle since, or the answer is marked.
LEMMA AnswerStopStep ==
  ASSUME PanelInv, PanelShaped', NEW i \in Slots, AnswerStop(i)
  PROVE  PanelInv'
<1>1. PanelShaped /\ Sound(i) /\ reqs[i] \in Requests
  BY DEF PanelInv, PanelShaped
<1>2. PICK t \in Sessions, r \in Requests : reqs[i] = r /\ r.s = t /\ r.op = "stop" /\ r.at = "done"
  BY <1>1 DEF AnswerStop, Sound, Made
<1>3. /\ uiBusy' = FALSE /\ skew' = (skew \/ r.hit \/ t # active)
      /\ reqs' = Others(i) /\ UNCHANGED sessionRows /\ queue' = queue
      /\ UNCHANGED <<active, view, cards, sending>>
  BY <1>2 DEF AnswerStop
<1>4. \A op, s, at : op \notin {"free", "stop"} =>
        (Asked(op, s)' <=> Asked(op, s)) /\ (Posted(op, s, at)' <=> Posted(op, s, at))
  BY <1>1, <1>2, <1>3, AnsweredFacts
<1>5. Synced'
  <2> SUFFICES ASSUME NEW s \in Sessions, NEW n \in Nat,
                      NEW b \in BOOLEAN, NEW u \in BOOLEAN, NEW x \in BOOLEAN, NEW c \in BOOLEAN,
                      ~skew', active' = s, ~Asked("load", s)', ~Asked("archive", s)',
                      n = Len(view'), b <=> uiBusy', c <=> s \in cards',
                      u <=> Posted("send", s, "sent")', x <=> Posted("stop", s, "done")'
               PROVE  /\ Agrees(s, n, b, u, x)' /\ Shows(s, c)'
                      /\ \A k \in 1..Len(view') : view'[k][1] = s
    BY DEF Synced
  <2>1. s = t /\ active = s /\ ~skew /\ ~r.hit /\ b = FALSE
    BY <1>3
  <2>2. PICK v, y \in BOOLEAN : (v <=> uiBusy) /\ (y <=> Posted("stop", s, "done"))
    <3>1. uiBusy \in BOOLEAN /\ Posted("stop", s, "done") \in BOOLEAN
      BY <1>1 DEF PanelShaped, PanelTypeOK, Posted
    <3> QED
      BY <3>1
  <2>3. Agrees(s, n, v, u, y) /\ Shows(s, c) /\ \A k \in 1..Len(view) : view[k][1] = s
    <3>1. ~Asked("load", s) /\ ~Asked("archive", s) /\ (u <=> Posted("send", s, "sent"))
      BY <1>4
    <3> QED
      BY <1>3, <2>1, <2>2, <3>1, SMTT(30) DEF PanelInv, Synced
  <2>4. Idle(s)
    BY <1>2, <2>1 DEF PanelInv, AnswersFresh, Tells
  <2>5. Agrees(s, n, b, u, x)
    BY <2>1, <2>3, <2>4 DEF Agrees, Idle
  <2>6. Agrees(s, n, b, u, x)' /\ Shows(s, c)'
    <3>1. UNCHANGED sessionRows /\ queue' = queue /\ Shows(s, c)
      BY <1>3, <2>3
    <3> QED
      BY <2>5, <3>1, RestAgrees
  <2> QED
    BY <1>3, <2>1, <2>3, <2>6
<1> QED
  BY <1>2, <1>3, <1>5, AnsweredStep

\* A question is answered: it is gone, or the answer is marked.
LEMMA AnswerReplyStep ==
  ASSUME PanelInv, PanelShaped', NEW i \in Slots, AnswerReply(i)
  PROVE  PanelInv'
<1>1. PanelShaped /\ Sound(i) /\ reqs[i] \in Requests
  BY DEF PanelInv, PanelShaped
<1>2. PICK t \in Sessions, r \in Requests : reqs[i] = r /\ r.s = t /\ r.op = "reply" /\ r.at = "done"
  BY <1>1 DEF AnswerReply, Sound, Made
<1>3. /\ cards' = cards \ {t} /\ skew' = (skew \/ r.hit)
      /\ reqs' = Others(i) /\ UNCHANGED sessionRows /\ queue' = queue
      /\ UNCHANGED <<active, view, uiBusy, sending>>
  BY <1>2 DEF AnswerReply
<1>4. \A op, s, at : op \notin {"free", "reply"} =>
        (Asked(op, s)' <=> Asked(op, s)) /\ (Posted(op, s, at)' <=> Posted(op, s, at))
  BY <1>1, <1>2, <1>3, AnsweredFacts
<1>5. Synced'
  <2> SUFFICES ASSUME NEW s \in Sessions, NEW n \in Nat,
                      NEW b \in BOOLEAN, NEW u \in BOOLEAN, NEW x \in BOOLEAN, NEW c \in BOOLEAN,
                      ~skew', active' = s, ~Asked("load", s)', ~Asked("archive", s)',
                      n = Len(view'), b <=> uiBusy', c <=> s \in cards',
                      u <=> Posted("send", s, "sent")', x <=> Posted("stop", s, "done")'
               PROVE  /\ Agrees(s, n, b, u, x)' /\ Shows(s, c)'
                      /\ \A k \in 1..Len(view') : view'[k][1] = s
    BY DEF Synced
  <2>1. active = s /\ ~skew /\ ~r.hit
    BY <1>3
  <2>2. PICK d \in BOOLEAN : d <=> s \in cards
    OBVIOUS
  <2>3. Agrees(s, n, b, u, x) /\ Shows(s, d) /\ \A k \in 1..Len(view) : view[k][1] = s
    <3>1. ~Asked("load", s) /\ ~Asked("archive", s) /\ (u <=> Posted("send", s, "sent"))
          /\ (x <=> Posted("stop", s, "done"))
      BY <1>4
    <3> QED
      BY <1>3, <2>1, <2>2, <3>1, SMTT(30) DEF PanelInv, Synced
  <2>4. Shows(t, FALSE)
    BY <1>2, <2>1 DEF PanelInv, AnswersFresh, Tells
  <2>5. Shows(s, c)
    BY <1>3, <2>2, <2>3, <2>4 DEF Shows
  <2>6. Agrees(s, n, b, u, x)' /\ Shows(s, c)'
    BY <1>3, <2>3, <2>5, RestAgrees
  <2> QED
    BY <1>3, <2>3, <2>6
<1> QED
  BY <1>2, <1>3, <1>5, AnsweredStep

\* A session created here: what the panel shows of it is thrown away by its load.
LEMMA AnswerCreateStep ==
  ASSUME PanelInv, PanelShaped', NEW i \in Slots, AnswerCreate(i)
  PROVE  PanelInv'
<1>1. PanelShaped /\ Sound(i) /\ reqs[i] \in Requests /\ Others(i) \in [Slots -> Requests]
  BY OthersFacts DEF PanelInv, PanelShaped
<1>2. PICK t \in Sessions : reqs[i].s = t /\ reqs[i].op \in {"bare", "prompt"}
  BY <1>1 DEF AnswerCreate, Sound
<1>3. /\ Activate(t, Others(i)) /\ cards' = {} /\ skew' = (skew \/ reqs[i].hit \/ active # t)
      /\ UNCHANGED sessionRows /\ queue' = queue /\ sending' = sending
  BY <1>2 DEF AnswerCreate
<1>4. /\ active' = t
      /\ \A j \in Slots : reqs'[j] = Others(i)[j] \/ reqs'[j] = Request("load", t)
      /\ t = active => reqs' = Others(i)
  BY <1>1, <1>3, Activated
<1>5. \A j \in Slots : \/ reqs'[j] = reqs[j] \/ reqs'[j] = Free
                       \/ \E z \in Sessions : reqs'[j] = Request("load", z)
  BY <1>1, <1>4, OthersFacts
<1>6. AnswersFresh' /\ LoadsAlone' /\ OneSend'
  BY <1>3, <1>5, TakenStep
<1>7. ~skew' => Asked("load", t)'
  <2> SUFFICES ASSUME ~skew' PROVE Asked("load", t)'
    OBVIOUS
  <2>1. active = t /\ ~skew
    BY <1>3
  <2>2. PICK k \in Slots : reqs[k].op = "load" /\ reqs[k].s = t
    BY <1>2, <2>1 DEF PanelInv, CreatesLoad, Asked
  <2>3. reqs'[k] = reqs[k]
    BY <1>1, <1>2, <1>4, <2>1, <2>2, OthersFacts
  <2> QED
    BY <2>2, <2>3 DEF Asked
<1>8. CardsBelong' /\ CreatesLoad' /\ Synced'
  <2>1. CardsBelong'
    BY <1>3 DEF CardsBelong
  <2>2. CreatesLoad'
    BY <1>4, <1>7 DEF CreatesLoad, Asked
  <2>3. Synced'
    <3>1. \A z \in Sessions : ~skew' /\ active' = z => Asked("load", z)'
      BY <1>4, <1>7
    <3> QED
      BY <3>1 DEF Synced
  <2> QED
    BY <2>1, <2>2, <2>3
<1> QED
  BY <1>6, <1>8 DEF PanelInv

\* A step after which the panel is known to be out of date.
LEMMA SkewStep ==
  ASSUME PanelInv, PanelShaped', UNCHANGED sessionRows, skew' = TRUE, AnswersFresh', LoadsAlone', OneSend'
  PROVE  PanelInv'
<1>1. CardsBelong' /\ CreatesLoad' /\ Synced'
  BY DEF CardsBelong, CreatesLoad, Synced
<1> QED
  BY <1>1 DEF PanelInv

\* An archived session takes the panel with it.
LEMMA AnswerArchiveStep ==
  ASSUME PanelInv, PanelShaped', NEW i \in Slots, AnswerArchive(i)
  PROVE  PanelInv'
<1>1. PanelShaped /\ Others(i) \in [Slots -> Requests]
  BY OthersFacts DEF PanelInv
<1>2. UNCHANGED sessionRows /\ queue' = queue /\ sending' = sending /\ skew' = TRUE
  BY DEF AnswerArchive
<1>3. PICK s \in Sessions \cup {NoSession} : Activate(s, Others(i))
  <2>1. list \subseteq Sessions
    BY <1>1 DEF PanelShaped, PanelTypeOK
  <2> QED
    BY <2>1 DEF AnswerArchive
<1>4. \A j \in Slots : reqs'[j] = Others(i)[j] \/ (s # NoSession /\ reqs'[j] = Request("load", s))
  BY <1>1, <1>3, Activated
<1>5. \A j \in Slots : \/ reqs'[j] = reqs[j] \/ reqs'[j] = Free
                       \/ \E z \in Sessions : reqs'[j] = Request("load", z)
  BY <1>1, <1>4, OthersFacts
<1>6. AnswersFresh' /\ LoadsAlone' /\ OneSend'
  BY <1>2, <1>5, TakenStep
<1> QED
  BY <1>2, <1>6, SkewStep

\* The timer only touches a status that is still being initialized.
LEMMA TimerStep ==
  ASSUME PanelInv, PanelShaped', TimerFires
  PROVE  PanelInv'
<1>1. PanelShaped /\ UNCHANGED <<reqs, queue, active, view, cards, sending>> /\ UNCHANGED sessionRows
      /\ (skew => skew') /\ (~skew' => uiBusy' = uiBusy)
  BY DEF PanelInv, TimerFires, PanelShaped, PanelTypeOK
<1>2. \A j \in Slots : reqs'[j] = reqs[j]
  BY <1>1
<1>3. AnswersFresh' /\ LoadsAlone' /\ OneSend'
  BY <1>1, <1>2, TakenStep
<1>4. CardsBelong' /\ CreatesLoad'
  BY <1>1 DEF PanelInv, CardsBelong, CreatesLoad, Asked
<1>5. Synced'
  <2>1. CASE uiBusy' = uiBusy
    <3>1. \A s \in Sessions :
            /\ Asked("load", s) => Asked("load", s)'
            /\ Asked("archive", s) => Asked("archive", s)'
            /\ Posted("send", s, "sent")' <=> Posted("send", s, "sent")
            /\ Posted("stop", s, "done")' <=> Posted("stop", s, "done")
      BY <1>1 DEF Asked, Posted
    <3> QED
      BY <1>1, <2>1, <3>1, SyncedRest DEF PanelInv
  <2>2. CASE skew'
    BY <2>2 DEF Synced
  <2> QED
    BY <1>1, <2>1, <2>2
<1> QED
  BY <1>3, <1>4, <1>5 DEF PanelInv

\* What hearing the first event changes in what is still to be heard of s.
LEMMA HeardFacts ==
  ASSUME PanelShaped, queue # <<>>, NEW e, e = Head(queue), queue' = Tail(queue), NEW s
  PROVE  /\ Unread(queue, s) = Unread(queue', s) + (IF e.s = s /\ e.ev = "said" THEN 1 ELSE 0)
         /\ Unread(queue', s) \in Nat
         /\ NoMark(queue, s) <=> NoMark(queue', s) /\ ~(e.s = s /\ e.ev \in Marks)
         /\ Question(queue, s) <=> Question(queue', s) \/ (e.s = s /\ e.ev = "asked")
         /\ \A E \in SUBSET Marks :
              LastMark(queue, s, E) <=> LastMark(queue', s, E) \/ (NoMark(queue', s) /\ e.s = s /\ e.ev \in E)
         /\ {"started"} \in SUBSET Marks /\ Marks \ {"started"} \in SUBSET Marks
<1>1. queue \in Seq(Notices) /\ queue' \in Seq(Notices)
  BY DEF PanelShaped
<1>2. {"started"} \in SUBSET Marks /\ Marks \ {"started"} \in SUBSET Marks
  BY DEF Marks
<1> QED
  BY <1>1, <1>2, UnreadTail, UnreadType, NewsTail

\* An event of another session, or one that is no news of turn, message or question.
LEMMA HeardKeeps ==
  ASSUME PanelShaped, queue # <<>>, NEW e, e = Head(queue), queue' = Tail(queue), UNCHANGED sessionRows,
         NEW s, e.s # s \/ e.ev \notin Marks \cup {"said", "asked"}
  PROVE  KeepsShown(s) /\ KeepsTurn(s)
<1>1. UNCHANGED <<busy, stored, run, ask>>
  BY DEF sessionRows
<1>2. /\ Unread(queue, s) = Unread(queue', s)
      /\ NoMark(queue, s) <=> NoMark(queue', s)
      /\ Question(queue, s) <=> Question(queue', s)
      /\ LastMark(queue, s, {"started"}) <=> LastMark(queue', s, {"started"})
      /\ LastMark(queue, s, Marks \ {"started"}) <=> LastMark(queue', s, Marks \ {"started"})
  <2>1. ~(e.s = s /\ e.ev = "said") /\ ~(e.s = s /\ e.ev \in Marks) /\ ~(e.s = s /\ e.ev = "asked")
    OBVIOUS
  <2>2. /\ Unread(queue, s) = Unread(queue', s) + 0 /\ Unread(queue', s) \in Nat
        /\ NoMark(queue, s) <=> NoMark(queue', s)
        /\ Question(queue, s) <=> Question(queue', s)
    BY <2>1, HeardFacts
  <2>3. /\ LastMark(queue, s, {"started"}) <=> LastMark(queue', s, {"started"})
        /\ LastMark(queue, s, Marks \ {"started"}) <=> LastMark(queue', s, Marks \ {"started"})
    BY <2>1, HeardFacts
  <2> QED
    BY <2>2, <2>3
<1>3. KeepsTurn(s)
  BY <1>1, <1>2 DEF KeepsTurn, Agrees
<1>4. KeepsShown(s)
  BY <1>1, <1>2 DEF KeepsShown, Shows, Idle
<1> QED
  BY <1>3, <1>4

\* session.created puts the panel on another session.
LEMMA HearCreatedStep ==
  ASSUME PanelInv, PanelShaped', Hear, HearCreated(Head(queue)), Head(queue).ev \in {"created", "createdBare"}
  PROVE  PanelInv'
<1> DEFINE e == Head(queue)
<1>1. PanelShaped /\ e.s \in Sessions /\ reqs \in [Slots -> Requests] /\ queue # <<>> /\ queue' = Tail(queue)
  BY QueueFacts DEF PanelInv, PanelShaped, Made, Hear
<1>2. Activate(e.s, reqs) /\ skew' = TRUE /\ UNCHANGED sessionRows /\ sending' = sending
  BY DEF HearCreated, Hear
<1>3. \A j \in Slots : reqs'[j] = reqs[j] \/ reqs'[j] = Request("load", e.s)
  BY <1>1, <1>2, Activated
<1>4. e.ev \notin Marks \cup {"said", "asked"}
  BY DEF Marks
<1> HIDE DEF e
<1>5. \A s \in Sessions : KeepsShown(s) /\ KeepsTurn(s)
  BY <1>1, <1>2, <1>4, HeardKeeps DEF e
<1>6. AnswersFresh' /\ LoadsAlone' /\ OneSend'
  BY <1>1, <1>2, <1>3, <1>5, AskedStep
<1> QED
  BY <1>2, <1>6, SkewStep

\* Any other event of the active session is what the panel was behind by.
LEMMA HearOtherStep ==
  ASSUME PanelInv, PanelShaped', Hear, HearOther(Head(queue)), Head(queue).ev \notin {"created", "createdBare"}
  PROVE  PanelInv'
<1>1. PanelShaped /\ reqs \in [Slots -> Requests] /\ queue # <<>> /\ queue' = Tail(queue)
  BY DEF PanelInv, PanelShaped, Hear
<1>2. PICK e \in Notices : e = Head(queue)
  BY <1>1, QueueFacts
<1>3. /\ UNCHANGED sessionRows /\ UNCHANGED <<list, active, skew, sending>>
      /\ reqs' = HeardBy(e.s)
      /\ active # e.s => UNCHANGED <<view, uiBusy, cards>>
      /\ active = e.s =>
           /\ view' = IF e.ev = "said" THEN Append(view, <<e.s, Len(view) + 1>>) ELSE view
           /\ uiBusy' = CASE e.ev = "started" -> TRUE
                          [] e.ev \in {"ended", "ready", "failed"} -> FALSE
                          [] OTHER -> uiBusy
           /\ cards' = IF e.ev = "asked" THEN cards \cup {e.s} ELSE cards
  BY <1>2 DEF Hear, HearOther, ForMe, HeardBy
<1>4. UNCHANGED <<busy, stored, run, ask>>
  BY <1>3 DEF sessionRows
<1>5. \A j \in Slots :
        /\ Carried(j)
        /\ reqs[j].s = e.s /\ reqs[j].at # "sent" => reqs'[j].hit
        /\ ~(reqs[j].s = e.s /\ reqs[j].at # "sent") => reqs'[j] = reqs[j]
  BY <1>1, <1>3, HeardSlots DEF Carried
<1>6. \A s \in Sessions : e.s # s => KeepsShown(s) /\ KeepsTurn(s)
  BY <1>1, <1>2, <1>3, HeardKeeps
<1>7. AnswersFresh'
  <2>1. ASSUME NEW j \in Slots
        PROVE  \/ reqs'[j].hit
               \/ reqs'[j].at = "sent"
               \/ /\ reqs'[j] = reqs[j]
                  /\ \A s \in Sessions : reqs[j].s = s => KeepsShown(s) /\ (reqs[j].op = "load" => KeepsTurn(s))
    BY <1>5, <1>6 DEF Carried
  <2> QED
    BY <1>1, <2>1, AnswersKept DEF PanelInv
<1>8. LoadsAlone'
  BY <1>1, <1>5, LoadsAloneKept DEF PanelInv
<1>9. \A op, s, at : (Asked(op, s)' <=> Asked(op, s)) /\ (Posted(op, s, at)' <=> Posted(op, s, at))
  BY <1>5, CarriedFacts
<1>10. CreatesLoad'
  <2> SUFFICES ASSUME NEW j \in Slots, reqs'[j].op \in {"bare", "prompt"}, reqs'[j].s = active', ~skew'
               PROVE  Asked("load", active)'
    BY DEF CreatesLoad
  <2>1. Asked("load", active)
    BY <1>3, <1>5 DEF PanelInv, CreatesLoad, Carried
  <2> QED
    BY <1>3, <1>9, <2>1 DEF Asked
<1>11. OneSend'
  BY <1>3, <1>5 DEF PanelInv, OneSend, Carried
<1>12. CardsBelong'
  BY <1>3 DEF PanelInv, CardsBelong
<1>13. Synced'
  <2> SUFFICES ASSUME NEW s \in Sessions, NEW n \in Nat,
                      NEW b \in BOOLEAN, NEW u \in BOOLEAN, NEW x \in BOOLEAN, NEW c \in BOOLEAN,
                      ~skew', active' = s, ~Asked("load", s)', ~Asked("archive", s)',
                      n = Len(view'), b <=> uiBusy', c <=> s \in cards',
                      u <=> Posted("send", s, "sent")', x <=> Posted("stop", s, "done")'
               PROVE  /\ Agrees(s, n, b, u, x)' /\ Shows(s, c)'
                      /\ \A k \in 1..Len(view') : view'[k][1] = s
    BY DEF Synced
  <2>1. PICK v, d \in BOOLEAN : (v <=> uiBusy) /\ (d <=> s \in cards)
    <3>1. uiBusy \in BOOLEAN
      BY <1>1 DEF PanelShaped, PanelTypeOK
    <3> QED
      BY <3>1
  <2>2. PICK m \in Nat : m = Len(view) /\ view \in Seq(Sessions \X Nat)
    BY <1>1 DEF PanelShaped, PanelTypeOK
  <2>3. Agrees(s, m, v, u, x) /\ Shows(s, d) /\ \A k \in 1..Len(view) : view[k][1] = s
    <3>1. /\ ~skew /\ active = s /\ ~Asked("load", s) /\ ~Asked("archive", s)
          /\ (u <=> Posted("send", s, "sent")) /\ (x <=> Posted("stop", s, "done"))
      <4>1. ~skew /\ active = s
        BY <1>3
      <4>2. ~Asked("load", s) /\ ~Asked("archive", s)
        BY <1>9
      <4>3. (u <=> Posted("send", s, "sent")) /\ (x <=> Posted("stop", s, "done"))
        BY <1>9
      <4> QED
        BY <4>1, <4>2, <4>3
    <3>2. Synced
      BY DEF PanelInv
    <3> QED
      <4>1. m = Len(view)
        BY <2>2
      <4>2. (v <=> uiBusy) /\ (d <=> s \in cards)
        BY <2>1
      <4> QED
        BY <3>1, <3>2, <4>1, <4>2, SyncedAt
  <2>4. CASE e.s # s
    <3>1. n = m /\ b = v /\ c = d /\ view' = view
      BY <1>3, <2>1, <2>2, <2>4
    <3> QED
      BY <1>6, <2>3, <2>4, <3>1 DEF KeepsShown, KeepsTurn
  <2>5. CASE e.s = s
    <3>1. /\ Unread(queue, s) = Unread(queue', s) + (IF e.ev = "said" THEN 1 ELSE 0)
          /\ Unread(queue', s) \in Nat
          /\ NoMark(queue, s) <=> NoMark(queue', s) /\ ~(e.ev \in Marks)
          /\ Question(queue, s) <=> Question(queue', s) \/ e.ev = "asked"
          /\ LastMark(queue, s, {"started"}) <=>
               LastMark(queue', s, {"started"}) \/ (NoMark(queue', s) /\ e.ev \in {"started"})
          /\ LastMark(queue, s, Marks \ {"started"}) <=>
               LastMark(queue', s, Marks \ {"started"}) \/ (NoMark(queue', s) /\ e.ev \in Marks \ {"started"})
      <4>1. {"started"} \in SUBSET Marks /\ Marks \ {"started"} \in SUBSET Marks
        BY DEF Marks
      <4> QED
        BY <1>1, <1>2, <2>5, <4>1, HeardFacts
    <3>2. stored[s] \in Nat
      BY <1>1, PanelAssumption DEF PanelShaped, PanelTypeOK
    <3>3. /\ n = m + (IF e.ev = "said" THEN 1 ELSE 0)
          /\ \A k \in 1..Len(view') : view'[k][1] = s
      <4>1. CASE e.ev = "said"
        <5> DEFINE a == <<s, Len(view) + 1>>
        <5>1. view' = Append(view, a) /\ a[1] = s
          BY <1>3, <2>5, <4>1
        <5> HIDE DEF a
        <5>2. Len(view') = m + 1 /\ \A k \in 1..Len(view') : (k \in 1..Len(view) /\ view'[k] = view[k]) \/ view'[k] = a
          BY <2>2, <5>1
        <5> QED
          BY <2>3, <4>1, <5>1, <5>2
      <4>2. CASE e.ev # "said"
        <5>1. view' = view
          BY <1>3, <2>5, <4>2
        <5>2. n = m /\ n = m + 0
          BY <2>2, <5>1
        <5> QED
          BY <2>3, <4>2, <5>1, <5>2
      <4> QED
        BY <4>1, <4>2
    <3>4. (n + Unread(queue, s) = stored[s] + (IF u THEN 1 ELSE 0))'
      <4>1. m + Unread(queue, s) = stored[s] + (IF u THEN 1 ELSE 0)
        BY <2>3 DEF Agrees
      <4> QED
        BY <1>4, <3>1, <3>2, <3>3, <4>1
    <3>5. /\ e.ev = "started" => b = TRUE
          /\ e.ev \in Marks \ {"started"} => b = FALSE
          /\ e.ev \notin Marks => b = v
          /\ c = (d \/ e.ev = "asked")
      <4>1. uiBusy' = CASE e.ev = "started" -> TRUE
                        [] e.ev \in {"ended", "ready", "failed"} -> FALSE
                        [] OTHER -> uiBusy
        BY <1>3, <2>5
      <4>2. e.ev = "started" => uiBusy' = TRUE
        BY <4>1
      <4>3. e.ev \in Marks \ {"started"} => uiBusy' = FALSE
        BY <4>1 DEF Marks
      <4>4. e.ev \notin Marks => uiBusy' = uiBusy
        BY <4>1 DEF Marks
      <4>5. s \in cards' <=> s \in cards \/ e.ev = "asked"
        BY <1>3, <2>5
      <4>6. e.ev = "started" => b = TRUE
        BY <4>2
      <4>7. e.ev \in Marks \ {"started"} => b = FALSE
        BY <4>3
      <4>8. e.ev \notin Marks => b = v
        BY <2>1, <4>4
      <4>9. c = (d \/ e.ev = "asked")
        BY <2>1, <4>5
      <4> QED
        BY <4>6, <4>7, <4>8, <4>9
    <3>6. Agrees(s, n, b, u, x)'
      <4>1. CASE e.ev = "started"
        BY <1>4, <2>3, <3>1, <3>4, <3>5, <4>1 DEF Agrees, Marks
      <4>2. CASE e.ev \in Marks \ {"started"}
        BY <1>4, <2>3, <3>1, <3>4, <3>5, <4>2 DEF Agrees
      <4>3. CASE e.ev \notin Marks
        BY <1>4, <2>3, <3>1, <3>4, <3>5, <4>3 DEF Agrees, Marks
      <4> QED
        BY <4>1, <4>2, <4>3
    <3>7. Shows(s, c)'
      BY <1>4, <2>3, <3>1, <3>5 DEF Shows
    <3> QED
      BY <3>3, <3>6, <3>7
  <2> QED
    BY <2>4, <2>5
<1> QED
  BY <1>7, <1>8, <1>10, <1>11, <1>12, <1>13 DEF PanelInv

-----------------------------------------------------------------------------
(* The user's steps. *)

\* A request of the user's for the active session marks the others of it.
LEMMA UserAsks ==
  ASSUME PanelInv, PanelShaped', active # NoSession, NEW op \in {"send", "stop", "reply", "archive"}, Ask(op),
         UNCHANGED sessionRows, queue' = queue, UNCHANGED <<active, cards, skew>>
  PROVE  /\ CardsBelong' /\ AnswersFresh' /\ LoadsAlone' /\ CreatesLoad'
         /\ Asked(op, active)' /\ Posted(op, active, "sent")'
         /\ \A p, s : p # "free" => (Asked(p, s) => Asked(p, s)')
         /\ \A p, s, at : p # "free" /\ (p # op \/ at # "sent") => (Posted(p, s, at)' <=> Posted(p, s, at))
<1>1. PanelShaped /\ reqs \in [Slots -> Requests] /\ active \in Sessions
  BY DEF PanelInv, PanelShaped, Made
<1>2. PICK i \in Slots :
        /\ reqs[i] = Free /\ reqs'[i] = Request(op, active)
        /\ \A j \in Slots \ {i} : reqs'[j] = Hit(active)[j]
  BY <1>1, AskFacts
<1>3. /\ reqs[i].op = "free" /\ reqs'[i].op = op /\ reqs'[i].s = active /\ reqs'[i].at = "sent"
  BY <1>1, <1>2, RequestFacts
<1>4. \A j \in Slots \ {i} :
        /\ Carried(j)
        /\ reqs[j].s = active => reqs'[j].hit
        /\ reqs[j].s # active => reqs'[j] = reqs[j]
  BY <1>1, <1>2, HitSlots DEF Carried
<1>5. \A j \in Slots \ {i} : reqs'[j].op = reqs[j].op /\ reqs'[j].s = reqs[j].s /\ reqs'[j].at = reqs[j].at
  BY <1>4 DEF Carried
<1>6. CardsBelong'
  BY DEF PanelInv, CardsBelong
<1>7. AnswersFresh'
  <2>1. ASSUME NEW j \in Slots
        PROVE  \/ reqs'[j].hit
               \/ reqs'[j].at = "sent"
               \/ /\ reqs'[j] = reqs[j]
                  /\ \A s \in Sessions : reqs[j].s = s => KeepsShown(s) /\ (reqs[j].op = "load" => KeepsTurn(s))
    BY <1>3, <1>4, RestKeeps
  <2> QED
    BY <1>1, <2>1, AnswersKept DEF PanelInv
<1>8. LoadsAlone'
  <2>1. \A j \in Slots : Carried(j) \/ reqs'[j].op # "load"
    BY <1>3, <1>4
  <2>2. \A j \in Slots :
          \/ Carried(j)
          \/ \A k \in Slots : reqs'[k].op = "load" /\ reqs'[k].s = reqs'[j].s => reqs'[k].hit \/ reqs'[k].at = "sent"
    BY <1>3, <1>4, <1>5
  <2> QED
    BY <1>1, <2>1, <2>2, LoadsAloneKept DEF PanelInv
<1>9. \A p, s : p # "free" => (Asked(p, s) => Asked(p, s)')
  BY <1>3, <1>5 DEF Asked
<1>10. \A p, s, at : p # "free" /\ (p # op \/ at # "sent") => (Posted(p, s, at)' <=> Posted(p, s, at))
  BY <1>3, <1>5 DEF Posted
<1>11. Asked(op, active)' /\ Posted(op, active, "sent")'
  BY <1>3 DEF Asked, Posted
<1>12. CreatesLoad'
  <2> SUFFICES ASSUME NEW j \in Slots, reqs'[j].op \in {"bare", "prompt"}, reqs'[j].s = active', ~skew'
               PROVE  Asked("load", active)'
    BY DEF CreatesLoad
  <2>1. Asked("load", active)
    BY <1>3, <1>5 DEF PanelInv, CreatesLoad
  <2> QED
    BY <1>9, <2>1 DEF Asked
<1> QED
  BY <1>6, <1>7, <1>8, <1>9, <1>10, <1>11, <1>12

\* Stop, archive, or an answer to a question is asked for.
LEMMA StopStep ==
  ASSUME PanelInv, PanelShaped', Stop \/ Archive \/ \E s \in Sessions : Reply(s)
  PROVE  PanelInv'
<1>1. active # NoSession /\ UNCHANGED <<sessionRows, queue, panel, skew>>
  BY DEF Stop, Archive, Reply
<1>2. UNCHANGED sessionRows /\ queue' = queue /\ UNCHANGED <<active, view, uiBusy, sending, cards, skew>>
  BY <1>1 DEF panel
<1>3. PICK op \in {"stop", "reply", "archive"} : Ask(op)
  BY DEF Stop, Archive, Reply
<1>4. /\ CardsBelong' /\ AnswersFresh' /\ LoadsAlone' /\ CreatesLoad'
      /\ \A p, s : p # "free" => (Asked(p, s) => Asked(p, s)')
      /\ \A p, s, at : p # "free" /\ (p # op \/ at # "sent") => (Posted(p, s, at)' <=> Posted(p, s, at))
  BY <1>1, <1>2, <1>3, UserAsks
<1>5. OneSend'
  <2>1. PanelShaped /\ reqs \in [Slots -> Requests]
    BY DEF PanelInv, PanelShaped
  <2>2. PICK i \in Slots : /\ reqs'[i] = Request(op, active)
                           /\ \A j \in Slots \ {i} : reqs'[j] = Hit(active)[j]
    BY <1>1, <1>3, <2>1, AskFacts
  <2>3. reqs'[i].op = op
    BY <2>1, <2>2, RequestFacts DEF PanelShaped, Made
  <2>4. \A j \in Slots \ {i} : reqs'[j].op = reqs[j].op
    BY <2>1, <2>2, HitSlots
  <2> QED
    BY <1>2, <2>3, <2>4 DEF PanelInv, OneSend
<1>6. Synced'
  <2>1. \A s \in Sessions :
          /\ Asked("load", s) => Asked("load", s)'
          /\ Asked("archive", s) => Asked("archive", s)'
          /\ Posted("send", s, "sent")' <=> Posted("send", s, "sent")
          /\ Posted("stop", s, "done")' <=> Posted("stop", s, "done")
    BY <1>3, <1>4
  <2> QED
    BY <1>2, <2>1, SyncedRest DEF PanelInv
<1> QED
  BY <1>4, <1>5, <1>6 DEF PanelInv

\* A message is shown before it is posted, and the rows owe it until then.
LEMMA SendStep ==
  ASSUME PanelInv, PanelShaped', Send
  PROVE  PanelInv'
<1>1. /\ active # NoSession /\ ~sending /\ sending' = TRUE /\ ~uiBusy /\ uiBusy' = TRUE
      /\ view' = Append(view, <<active, 0>>) /\ Ask("send")
      /\ UNCHANGED sessionRows /\ queue' = queue /\ UNCHANGED <<active, cards, skew>>
  BY DEF Send
<1>2. /\ CardsBelong' /\ AnswersFresh' /\ LoadsAlone' /\ CreatesLoad' /\ Posted("send", active, "sent")'
      /\ \A p, s : p # "free" => (Asked(p, s) => Asked(p, s)')
      /\ \A p, s, at : p # "free" /\ (p # "send" \/ at # "sent") => (Posted(p, s, at)' <=> Posted(p, s, at))
  BY <1>1, UserAsks
<1>3. PanelShaped /\ reqs \in [Slots -> Requests] /\ active \in Sessions
  BY <1>1 DEF PanelInv, PanelShaped, Made
<1>4. \A j \in Slots : reqs[j].op # "send"
  BY <1>1 DEF PanelInv, OneSend
<1>5. OneSend'
  <2>1. PICK i \in Slots : /\ reqs'[i] = Request("send", active)
                           /\ \A j \in Slots \ {i} : reqs'[j] = Hit(active)[j]
    BY <1>1, <1>3, AskFacts
  <2>2. \A j \in Slots \ {i} : reqs'[j].op # "send"
    BY <1>3, <1>4, <2>1, HitSlots
  <2> QED
    BY <1>1, <2>2 DEF OneSend
<1>6. Synced'
  <2> SUFFICES ASSUME NEW s \in Sessions, NEW n \in Nat,
                      NEW b \in BOOLEAN, NEW u \in BOOLEAN, NEW x \in BOOLEAN, NEW c \in BOOLEAN,
                      ~skew', active' = s, ~Asked("load", s)', ~Asked("archive", s)',
                      n = Len(view'), b <=> uiBusy', c <=> s \in cards',
                      u <=> Posted("send", s, "sent")', x <=> Posted("stop", s, "done")'
               PROVE  /\ Agrees(s, n, b, u, x)' /\ Shows(s, c)'
                      /\ \A k \in 1..Len(view') : view'[k][1] = s
    BY DEF Synced
  <2>1. active = s /\ ~skew
    BY <1>1
  <2>2. b = TRUE /\ u = TRUE
    BY <1>1, <1>2, <2>1
  <2>3. PICK m \in Nat : m = Len(view) /\ view \in Seq(Sessions \X Nat)
    BY <1>3 DEF PanelShaped, PanelTypeOK
  <2>4. ~Asked("load", s) /\ ~Asked("archive", s)
    BY <1>2
  <2>5. x <=> Posted("stop", s, "done")
    BY <1>2
  <2>6. PICK v, y \in BOOLEAN : v = FALSE /\ y = FALSE
    OBVIOUS
  <2>7. (c <=> s \in cards) /\ (v <=> uiBusy) /\ (y <=> Posted("send", s, "sent"))
    BY <1>1, <1>4, <2>6 DEF Posted
  <2>8. Synced /\ m = Len(view)
    BY <2>3 DEF PanelInv
  <2>9. Agrees(s, m, v, y, x) /\ Shows(s, c) /\ \A k \in 1..Len(view) : view[k][1] = s
    BY <2>1, <2>4, <2>5, <2>7, <2>8, SyncedAt
  <2>10. Agrees(s, m, FALSE, FALSE, x) /\ Shows(s, c) /\ \A k \in 1..Len(view) : view[k][1] = s
    BY <2>6, <2>9
  <2>11. n = m + 1 /\ \A k \in 1..Len(view') : view'[k][1] = s
    <3> DEFINE a == <<s, 0>>
    <3>1. view' = Append(view, a) /\ a[1] = s
      BY <1>1, <2>1
    <3> HIDE DEF a
    <3>2. Len(view') = m + 1 /\ \A k \in 1..Len(view') : (k \in 1..Len(view) /\ view'[k] = view[k]) \/ view'[k] = a
      BY <2>3, <3>1
    <3> QED
      BY <2>10, <3>1, <3>2
  <2>12. Agrees(s, n, TRUE, TRUE, x)
    <3>1. stored[s] \in Nat /\ Unread(queue, s) \in Nat
      BY <1>3, PanelAssumption, UnreadType DEF PanelShaped, PanelTypeOK
    <3>2. m + Unread(queue, s) = stored[s]
      BY <2>10, <3>1 DEF Agrees
    <3>3. n + Unread(queue, s) = stored[s] + 1
      BY <2>11, <3>1, <3>2
    <3> QED
      BY <2>10, <3>3 DEF Agrees
  <2>13. KeepsTurn(s) /\ KeepsShown(s)
    BY <1>1, RestKeeps
  <2>14. Agrees(s, n, b, u, x)'
    BY <2>2, <2>12, <2>13 DEF KeepsTurn
  <2>15. Shows(s, c)'
    BY <2>10, <2>13 DEF KeepsShown
  <2> QED
    BY <2>11, <2>14, <2>15
<1> QED
  BY <1>2, <1>5, <1>6 DEF PanelInv

\* Another session is selected.
LEMMA SelectStep ==
  ASSUME PanelInv, PanelShaped', NEW s \in Sessions, NEW palette \in BOOLEAN, Select(s, palette)
  PROVE  PanelInv'
<1>1. PanelShaped /\ reqs \in [Slots -> Requests]
  BY DEF PanelInv, PanelShaped
<1>2. Activate(s, reqs) /\ UNCHANGED sessionRows /\ queue' = queue /\ sending' = sending /\ skew' = TRUE
  BY DEF Select
<1>3. \A j \in Slots : reqs'[j] = reqs[j] \/ reqs'[j] = Request("load", s)
  BY <1>1, <1>2, Activated
<1>4. AnswersFresh' /\ LoadsAlone' /\ OneSend'
  BY <1>2, <1>3, TakenStep
<1> QED
  BY <1>2, <1>4, SkewStep

\* A session is to be created.
LEMMA UserCreateStep ==
  ASSUME PanelInv, PanelShaped', NEW s \in Sessions, NEW p \in {"bare", "prompt"}, Create(s, p)
  PROVE  PanelInv'
<1>1. PanelShaped /\ reqs \in [Slots -> Requests] /\ ~Made(s)
  BY DEF PanelInv, PanelShaped, Create, Made
<1>2. UNCHANGED sessionRows /\ queue' = queue /\ UNCHANGED <<active, view, uiBusy, sending, cards, skew>>
  BY DEF Create
<1>3. PICK i \in Slots : reqs[i] = Free /\ reqs' = [reqs EXCEPT ![i] = Request(p, s)]
  BY DEF Create
<1>4. /\ reqs[i].op = "free" /\ reqs'[i].op = p /\ reqs'[i].s = s /\ reqs'[i].at = "sent"
      /\ \A j \in Slots \ {i} : reqs'[j] = reqs[j]
  BY <1>1, <1>3, RequestFacts
<1>5. \A j \in Slots \ {i} : Carried(j)
  BY <1>4 DEF Carried
<1>6. active # s /\ \A j \in Slots : reqs[j].s = s => reqs[j].op # "load"
  BY <1>1, PanelAssumption DEF PanelShaped, Sound
<1>7. CardsBelong' /\ OneSend'
  BY <1>2, <1>4 DEF PanelInv, CardsBelong, OneSend
<1>8. AnswersFresh'
  <2>1. \A j \in Slots :
          \/ reqs'[j].at = "sent"
          \/ /\ reqs'[j] = reqs[j]
             /\ \A z \in Sessions : reqs[j].s = z => KeepsShown(z) /\ (reqs[j].op = "load" => KeepsTurn(z))
    BY <1>2, <1>4, RestKeeps
  <2> QED
    BY <1>1, <2>1, AnswersKept DEF PanelInv
<1>9. LoadsAlone'
  <2>1. \A j \in Slots : Carried(j) \/ reqs'[j].op # "load"
    BY <1>4, <1>5
  <2>2. \A j \in Slots :
          \/ Carried(j)
          \/ \A k \in Slots : reqs'[k].op = "load" /\ reqs'[k].s = reqs'[j].s => reqs'[k].hit \/ reqs'[k].at = "sent"
    BY <1>4, <1>5, <1>6
  <2> QED
    BY <1>1, <2>1, <2>2, LoadsAloneKept DEF PanelInv
<1>10. /\ \A op, z : op \in {"load", "archive"} => (Asked(op, z)' <=> Asked(op, z))
       /\ \A op, z, at : op \in {"send", "stop"} => (Posted(op, z, at)' <=> Posted(op, z, at))
  <2>1. ASSUME NEW op \in {"load", "archive", "send", "stop"}, NEW z
        PROVE  /\ Asked(op, z)' <=> Asked(op, z)
               /\ \A at : Posted(op, z, at)' <=> Posted(op, z, at)
    BY <1>4 DEF Asked, Posted
  <2> QED
    BY <2>1
<1>11. CreatesLoad'
  <2> SUFFICES ASSUME NEW j \in Slots, reqs'[j].op \in {"bare", "prompt"}, reqs'[j].s = active', ~skew'
               PROVE  Asked("load", active)'
    BY DEF CreatesLoad
  <2>1. Asked("load", active)
    BY <1>2, <1>4, <1>6 DEF PanelInv, CreatesLoad
  <2> QED
    BY <1>2, <1>10, <2>1 DEF Asked
<1>12. Synced'
  BY <1>1, <1>2, <1>10, SyncedRest DEF PanelInv
<1> QED
  BY <1>7, <1>8, <1>9, <1>11, <1>12 DEF PanelInv

-----------------------------------------------------------------------------
(* The invariant, and what it says when all is quiet. *)

\* At first no session is active.
LEMMA PanelInvInit == PanelInit => PanelInv
<1> SUFFICES ASSUME PanelInit PROVE PanelInv
  OBVIOUS
<1>1. PanelShaped
  BY PanelShapeInit
<1>2. \A i \in Slots : reqs[i].op \in {"free", "list"} /\ reqs[i].at = "sent"
  <2>1. Request("list", NoSession).op = "list" /\ Request("list", NoSession).at = "sent"
    BY RequestFacts
  <2>2. Free.op = "free" /\ Free.at = "sent"
    BY DEF Free
  <2>3. \A i \in Slots : reqs[i] = IF i = 1 THEN Request("list", NoSession) ELSE Free
    BY DEF PanelInit
  <2> QED
    BY <2>1, <2>2, <2>3
<1>3. cards = {} /\ active = NoSession /\ NoSession \notin Sessions
  BY PanelAssumption DEF PanelInit
<1>4. CardsBelong /\ AnswersFresh /\ LoadsAlone /\ CreatesLoad /\ OneSend
  BY <1>2, <1>3 DEF CardsBelong, AnswersFresh, Tells, LoadsAlone, CreatesLoad, OneSend
<1>5. Synced
  BY <1>3 DEF Synced
<1> QED
  BY <1>1, <1>4, <1>5 DEF PanelInv

\* Every step keeps the invariant.
LEMMA PanelInvStep == PanelInv /\ [PanelNext]_panelVars => PanelInv'
<1> SUFFICES ASSUME PanelInv, [PanelNext]_panelVars PROVE PanelInv'
  OBVIOUS
<1>1. PanelShaped'
  BY PanelShapeStep DEF PanelInv
<1>2. CASE UNCHANGED panelVars
  <2>1. UNCHANGED panel /\ UNCHANGED sessionRows /\ UNCHANGED <<queue, reqs, skew>>
    BY <1>2 DEF panelVars
  <2>2. \A s : Keeps(s)
    BY <2>1, RestKeeps DEF Keeps
  <2>3. \A j \in Slots : Carried(j) /\ reqs'[j] = reqs[j]
    BY <2>1 DEF Carried
  <2> QED
    BY <1>1, <2>1, <2>2, <2>3, QuietStep
<1>3. CASE Act
  <2>1. ASSUME NEW s \in Sessions,
               \/ CreateElsewhere(s) \/ Reply(s) \/ \E palette \in BOOLEAN : Select(s, palette)
               \/ \E prompt \in {"bare", "prompt"} : Create(s, prompt)
        PROVE  PanelInv'
    BY <1>1, <2>1, ElsewhereStep, StopStep, SelectStep, UserCreateStep
  <2> QED
    BY <1>1, <1>3, <2>1, SocketStep, SendStep, StopStep DEF Act
<1>4. CASE Happen
  <2>1. ASSUME NEW s \in Sessions, \/ Started(s) \/ StartFails(s) \/ AgentSays(s) \/ AgentAsks(s) \/ TurnEnds(s)
        PROVE  PanelInv'
    BY <1>1, <2>1, AgentNews
  <2>2. ASSUME NEW i \in Slots, Serve(i) PROVE PanelInv'
    BY <1>1, <2>2, ServeLoadStep, ServeStopStep, ServeSendStep, ServeCreateStep DEF Serve
  <2>3. ASSUME NEW i \in Slots, Answer(i) PROVE PanelInv'
    BY <1>1, <2>3, AnswerLoadStep, AnswerListStep, AnswerSendStep, AnswerStopStep, AnswerReplyStep,
       AnswerCreateStep, AnswerArchiveStep DEF Answer
  <2>4. ASSUME Hear PROVE PanelInv'
    BY <1>1, <2>4, HearCreatedStep, HearOtherStep DEF Hear
  <2> QED
    BY <1>1, <1>4, <2>1, <2>2, <2>3, <2>4, SocketStep, TimerStep DEF Happen
<1> QED
  BY <1>2, <1>3, <1>4 DEF PanelNext

\* When all is quiet nothing is left to be heard, asked or posted.
LEMMA PanelInvShows == PanelInv => PanelCurrent
<1> SUFFICES ASSUME PanelInv, Quiet, ~skew, active # NoSession
             PROVE  /\ Len(view) = stored[active] /\ \A n \in 1..Len(view) : view[n][1] = active
                    /\ (active \in busy => uiBusy) /\ (uiBusy => active \in busy \cup run)
                    /\ {active} \cap ask \subseteq cards
  BY DEF PanelCurrent
<1>1. PanelShaped /\ Synced
  BY DEF PanelInv
<1>2. PICK s \in Sessions : s = active
  BY <1>1 DEF PanelShaped, Made
<1>3. \A i \in Slots : reqs[i].op = "free"
  BY RequestFacts DEF Quiet
<1>4. ~Asked("load", s) /\ ~Asked("archive", s) /\ ~Posted("send", s, "sent") /\ ~Posted("stop", s, "done")
  BY <1>3 DEF Asked, Posted
<1>5. PICK n \in Nat : n = Len(view)
  BY <1>1 DEF PanelShaped, PanelTypeOK
<1>6. PICK b, u, x, c \in BOOLEAN : (b <=> uiBusy) /\ u = FALSE /\ x = FALSE /\ (c <=> s \in cards)
  <2>1. uiBusy \in BOOLEAN
    BY <1>1 DEF PanelShaped, PanelTypeOK
  <2> QED
    BY <2>1
<1>7. (u <=> Posted("send", s, "sent")) /\ (x <=> Posted("stop", s, "done"))
  BY <1>4, <1>6
<1>8. Agrees(s, n, b, u, x) /\ Shows(s, c) /\ \A k \in 1..Len(view) : view[k][1] = s
  BY <1>1, <1>2, <1>4, <1>5, <1>6, <1>7, SyncedAt
<1>9. Unread(queue, s) = 0 /\ NoMark(queue, s) /\ ~Question(queue, s)
  BY NothingUnread DEF Quiet
<1>10. stored[s] \in Nat
  BY <1>1, PanelAssumption DEF PanelShaped, PanelTypeOK
<1>11. n = stored[s]
  BY <1>6, <1>8, <1>9, <1>10 DEF Agrees
<1>12. (s \in busy => b) /\ (b => s \in busy \cup run)
  BY <1>6, <1>8, <1>9 DEF Agrees
<1>13. s \in ask => s \in cards
  BY <1>6, <1>8, <1>9 DEF Shows
<1> QED
  BY <1>2, <1>5, <1>6, <1>8, <1>11, <1>12, <1>13

(* The panel's state has its types.                                         *)
THEOREM PanelTypeCorrect == PanelSpec => []PanelTypeOK
<1>1. PanelInit => PanelShaped
  BY PanelShapeInit
<1>2. PanelShaped /\ [PanelNext]_panelVars => PanelShaped'
  BY PanelShapeStep
<1>3. PanelShaped => PanelTypeOK
  BY DEF PanelShaped
<1> QED
  BY <1>1, <1>2, <1>3, PTL DEF PanelSpec

(* However loads, requests, events and losses of the socket interleave: once  *)
(* nothing is under way and the panel has missed nothing, it shows every     *)
(* message of the active session and no other's, whether its agent is at      *)
(* work, and a card for what the agent is waiting for.                        *)
THEOREM PanelShows == PanelSpec => []PanelCurrent
BY PanelInvInit, PanelInvStep, PanelInvShows, PTL DEF PanelSpec

(* At no time does the panel that has missed nothing offer an approval of a   *)
(* session other than the one the answer would be sent for.                  *)
THEOREM CardsAtHome == PanelSpec => []CardsBelong
<1>1. PanelInv => CardsBelong
  BY DEF PanelInv
<1> QED
  BY <1>1, PanelInvInit, PanelInvStep, PTL DEF PanelSpec
=============================================================================
