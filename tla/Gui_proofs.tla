----------------------------- MODULE Gui_proofs -----------------------------
(***************************************************************************)
(* Theorems about Gui for any number of rows, names, project files, frames   *)
(* and operations, any size of the ring and any display filters.             *)
(***************************************************************************)
EXTENDS Gui, Glob_proofs, SequenceTheorems, TLAPS

Worlds == [s : StateSet, d : [BusNames -> BusSet]]

\* The rows are told apart by ids that were given out, the selection is one of them.
Distinct(st) ==
    /\ \A j, k \in DOMAIN st.buses : j # k => st.buses[j].id # st.buses[k].id
    /\ \A b \in Rows(st) : b.id < st.nextId
    /\ st.selected \in {b.id : b \in Rows(st)} \cup {0}

\* A row's packets, and those on their way to it, are in order and its own; a row that
\* gets real ones has its subscription.
Newer(p, q) == p.seq > q.seq \/ p.seq + q.seq = 0
RingOk(b) ==
    /\ Len(b.ring) <= RingCap
    /\ \A j, k \in DOMAIN b.ring : j < k => Newer(b.ring[j], b.ring[k])
    /\ \A k \in DOMAIN b.ring :
         /\ b.ring[k].seq <= frames
         /\ b.ring[k].seq # 0 => b.sub /\ b.ring[k].seq > b.born
ComingOk(b) ==
    \A m \in DOMAIN queue : queue[m][1] = b.id =>
        /\ b.sub /\ queue[m][2].seq > b.born
        /\ \A k \in DOMAIN b.ring : queue[m][2].seq > b.ring[k].seq
RowOk(b) == RingOk(b) /\ ComingOk(b) /\ b.born <= frames

\* What the daemon has under name n, and which rows have a part in it.
Untouched(b) == ~b.rec /\ ~b.fwd /\ b.iface # "net"
Shows(b, x) == b.rec = x.rec /\ b.fwd = x.fwd /\ (b.iface = "net") = x.cap
Agrees(st, n, x) ==
    /\ ~x.live => x = NoBus
    /\ x.live => up /\ x.users # {}
    /\ x.live /\ 0 \notin x.users =>
         \A i \in x.users : \E b \in Rows(st) : b.id = i /\ b.name = n
    /\ \A b \in Rows(st) : x.live /\ b.name = n /\ x.users = {b.id} => Shows(b, x)
    /\ x.sub # 0 => \E b \in Rows(st) : b.id = x.sub /\ b.sub

Sound(w) ==
    /\ w \in Worlds
    /\ Distinct(w.s)
    /\ \A b \in Rows(w.s) : RowOk(b)
    /\ \A n \in BusNames : Agrees(w.s, n, w.d[n])

\* A row's packets are those its row of before the step had, and ones that row's filters
\* select.
Grows(b) ==
    b.ring = <<>> \/ \E a \in Rows(s) :
        a.id = b.id /\ \A p \in ToSet(b.ring) \ ToSet(a.ring) : Selects(a.filters, p)
Added == \A b \in Rows(s') : Grows(b)

\* A world the operations of one step pass through.
Good(w) == Sound(w) /\ \A b \in Rows(w.s) : Grows(b)

Queued ==
    /\ \A k \in DOMAIN queue :
         queue[k][1] < s.nextId /\ queue[k][2].seq \in 1..frames
    /\ \A j, k \in DOMAIN queue : j < k => queue[j][2].seq < queue[k][2].seq

\* A list that waits for its sync has nothing going, and while it waits the window does
\* not believe the daemon there, unless it has only just loaded the list.
Waiting ==
    s.needsSync => (s.connected => job.kind = "load") /\ \A b \in Rows(s) : Untouched(b)
Closed == ~running => s = NoState /\ queue = <<>>

\* What the next launch would show is among what it may; a project whose name is still to
\* be remembered is on file as it is shown, or cut short.
Coming == IF Readable(recent) THEN disk[recent].rows ELSE FirstRun
OnFile == saved # {} => Coming \in saved
JobOk ==
    job # NoJob =>
        /\ running
        /\ job.kind = "load" => s.needsSync
        /\ IF Readable(job.path) THEN disk[job.path].rows = Kept(s) ELSE saved = {}

IInv == TypeOK /\ Sound(World) /\ Queued /\ Waiting /\ Closed /\ OnFile /\ JobOk

-----------------------------------------------------------------------------
(* The state as the world its next step starts from.                         *)

\* A list that waits for the daemon, in any world between handlers.
Waits(w) == w.s.needsSync => ~w.s.connected /\ \A b \in Rows(w.s) : Untouched(b)

LEMMA Here ==
  ASSUME IInv
  PROVE  /\ World.s = s /\ World.d = d /\ Good(World) /\ Rows(World.s) = Rows(s)
         /\ job = NoJob => Waits(World)
<1>1. /\ Sound(World) /\ World.s = s /\ World.d = d
      /\ job = NoJob => Waits(World)
  BY DEF IInv, World, Waiting, Waits, NoJob
<1>2. \A b \in Rows(s) : Grows(b)
  BY DEF Grows
<1> QED
  BY <1>1, <1>2 DEF Good

-----------------------------------------------------------------------------
(* Rows.                                                                    *)

LEMMA FcnIsSeq ==
  ASSUME NEW S, NEW n \in Nat, NEW f \in [1..n -> S]
  PROVE  f \in Seq(S) /\ Len(f) = n /\ DOMAIN f = 1..n
  OBVIOUS

LEMMA WorldParts ==
  ASSUME NEW w \in Worlds
  PROVE  /\ w = [s |-> w.s, d |-> w.d] /\ w.s \in StateSet /\ w.d \in [BusNames -> BusSet]
         /\ w.s.buses \in Seq(RowSet) /\ w.s.nextId \in Nat \ {0} /\ w.s.selected \in Nat
         /\ w.s.connected \in BOOLEAN /\ w.s.needsSync \in BOOLEAN
         /\ DOMAIN w.s.buses = 1..Len(w.s.buses) /\ Len(w.s.buses) \in Nat
         /\ \A k \in 1..Len(w.s.buses) : w.s.buses[k] \in RowSet
         /\ Rows(w.s) \subseteq RowSet
<1>1. /\ w = [s |-> w.s, d |-> w.d] /\ w.s \in StateSet /\ w.d \in [BusNames -> BusSet]
  BY DEF Worlds
<1>2. /\ w.s.buses \in Seq(RowSet) /\ w.s.nextId \in Nat \ {0} /\ w.s.selected \in Nat
      /\ w.s.connected \in BOOLEAN /\ w.s.needsSync \in BOOLEAN
  BY <1>1 DEF StateSet
<1>3. DOMAIN w.s.buses = 1..Len(w.s.buses) /\ Len(w.s.buses) \in Nat
  BY <1>2, LenProperties
<1>4. \A k \in 1..Len(w.s.buses) : w.s.buses[k] \in RowSet
  BY <1>2, ElementOfSeq
<1> QED
  BY <1>1, <1>2, <1>3, <1>4 DEF Rows

LEMMA RowIn ==
  ASSUME NEW w, w \in Worlds, Distinct(w.s), NEW b \in Rows(w.s)
  PROVE  /\ RowOf(w.s, b.id) = b
         /\ \A c \in Rows(w.s) : c.id = b.id => c = b
         /\ b \in RowSet /\ b.id \in Nat \ {0} /\ b.name \in BusNames
<1>1. \A c \in Rows(w.s) : c.id = b.id => c = b
  BY DEF Distinct, Rows
<1>2. b \in RowSet
  BY WorldParts
<1> QED
  BY <1>1, <1>2 DEF RowOf, RowSet

LEMMA RowAt ==
  ASSUME NEW w, Good(w), NEW b \in Rows(w.s)
  PROVE  /\ RowOf(w.s, b.id) = b
         /\ \A c \in Rows(w.s) : c.id = b.id => c = b
         /\ b \in RowSet /\ b.id \in Nat \ {0} /\ b.name \in BusNames
  BY RowIn DEF Good, Sound

\* What SetRow does to the list.
Same(st, t) ==
    /\ t.nextId = st.nextId /\ t.connected = st.connected /\ t.needsSync = st.needsSync
    /\ t.globalRec = st.globalRec /\ t.path = st.path
    /\ t.selected = st.selected /\ Len(t.buses) = Len(st.buses)
    /\ \A k \in 1..Len(st.buses) : t.buses[k].id = st.buses[k].id

LEMMA SetRowIs ==
  ASSUME NEW w, w \in Worlds, NEW row, row \in RowSet
  PROVE  /\ SetRow(w, row) \in Worlds /\ SetRow(w, row).d = w.d
         /\ Same(w.s, SetRow(w, row).s)
         /\ \A k \in 1..Len(w.s.buses) :
              SetRow(w, row).s.buses[k] = IF w.s.buses[k].id = row.id THEN row ELSE w.s.buses[k]
<1> DEFINE q == w.s.buses
           r == [k \in DOMAIN q |-> IF q[k].id = row.id THEN row ELSE q[k]]
<1>1. SetRow(w, row) = [s |-> [w.s EXCEPT !.buses = r], d |-> w.d]
  <2>1. PICK f : f = r
    OBVIOUS
  <2>2. SetRow(w, row) = [w EXCEPT !.s.buses = f]
    BY <2>1 DEF SetRow
  <2>3. w = [s |-> w.s, d |-> w.d]
    BY WorldParts
  <2>4. [w EXCEPT !.s.buses = f] = [s |-> [w.s EXCEPT !.buses = f], d |-> w.d]
    BY <2>3
  <2> QED
    BY <2>1, <2>2, <2>4
<1>2. r \in Seq(RowSet) /\ Len(r) = Len(q) /\ DOMAIN q = 1..Len(q)
  <2>1. DOMAIN q = 1..Len(q) /\ Len(q) \in Nat /\ r \in [1..Len(q) -> RowSet]
    BY WorldParts
  <2> HIDE DEF q, r
  <2> QED
    BY <2>1, FcnIsSeq
<1> DEFINE t == [w.s EXCEPT !.buses = r]
<1>3. /\ t \in StateSet /\ t.buses = r /\ t.nextId = w.s.nextId /\ t.connected = w.s.connected
      /\ t.needsSync = w.s.needsSync /\ t.globalRec = w.s.globalRec /\ t.path = w.s.path
      /\ t.selected = w.s.selected
  <2>1. w.s \in StateSet /\ r \in Seq(RowSet)
    BY <1>2, WorldParts
  <2> HIDE DEF r
  <2> QED
    BY <2>1 DEF StateSet
<1>4. SetRow(w, row).s = t /\ SetRow(w, row).d = w.d
  BY <1>1
<1>5. SetRow(w, row) \in Worlds
  BY <1>1, <1>3, WorldParts DEF Worlds
<1>6. \A k \in 1..Len(q) : r[k] = IF q[k].id = row.id THEN row ELSE q[k]
  BY <1>2
<1> QED
  BY <1>2, <1>3, <1>4, <1>5, <1>6 DEF Same

\* A world in which a row was replaced by one of the same id.
Replaced(w, v, b, row) ==
    /\ row \in Rows(v.s)
    /\ \A c \in Rows(w.s) : c.id # b.id => c \in Rows(v.s)
    /\ \A c \in Rows(v.s) : c = row \/ (c \in Rows(w.s) /\ c.id # b.id)

LEMMA SetRowReplaces ==
  ASSUME NEW w, w \in Worlds, Distinct(w.s), NEW b \in Rows(w.s), NEW row \in RowSet, row.id = b.id
  PROVE  /\ Replaced(w, SetRow(w, row), b, row)
         /\ Distinct(SetRow(w, row).s)
<1> DEFINE v == SetRow(w, row)
           n == Len(w.s.buses)
<1>1. v \in Worlds /\ Same(w.s, v.s) /\ \A k \in 1..n :
        v.s.buses[k] = IF w.s.buses[k].id = row.id THEN row ELSE w.s.buses[k]
  BY SetRowIs
<1>2. DOMAIN w.s.buses = 1..n /\ DOMAIN v.s.buses = 1..n
  BY <1>1, WorldParts DEF Same
<1> HIDE DEF v
<1>3. Replaced(w, v, b, row)
  BY <1>1, <1>2 DEF Replaced, Rows
<1>4. Distinct(v.s)
  <2>1. \A c \in Rows(v.s) : c.id < v.s.nextId
    BY <1>1, <1>3 DEF Distinct, Replaced, Same
  <2>2. v.s.selected \in {c.id : c \in Rows(v.s)} \cup {0}
    BY <1>1, <1>3 DEF Distinct, Replaced, Same
  <2> QED
    BY <1>1, <1>2, <2>1, <2>2 DEF Distinct, Same
<1> QED
  BY <1>3, <1>4 DEF v

\* A row changes, and with it what the daemon has under its name: the two agree about
\* each other, and the daemon counts the row among the bus's users if it was told, or a
\* row that has let go of something if it was not.
Tells(b, row, y, x) ==
    /\ row.id = b.id /\ row.name = b.name /\ row.ring = b.ring /\ row.born = b.born
    /\ b.sub => row.sub
    /\ x.live = y.live /\ (~x.live => x = NoBus)
    /\ x.live =>
         /\ \/ x.users = y.users \cup {b.id}
            \/ x.users = y.users /\ x.rec = y.rec /\ x.cap = y.cap /\ x.fwd = y.fwd
            \/ 0 \in x.users
         /\ x.users = {b.id} => Shows(row, x)
         /\ x.sub # 0 => x.sub = y.sub \/ (x.sub = b.id /\ row.sub)

LEMMA RowChange ==
  ASSUME NEW w, Good(w), NEW b \in Rows(w.s), NEW row \in RowSet, NEW x \in BusSet,
         Tells(b, row, w.d[b.name], x)
  PROVE  LET v == SetRow([w EXCEPT !.d = [@ EXCEPT ![b.name] = x]], row)
         IN  /\ Good(v) /\ Same(w.s, v.s) /\ v.d = [w.d EXCEPT ![b.name] = x]
             /\ Replaced(w, v, b, row)
             /\ \A k \in 1..Len(w.s.buses) :
                  v.s.buses[k] = IF w.s.buses[k].id = b.id THEN row ELSE w.s.buses[k]
<1> DEFINE u == [w EXCEPT !.d = [@ EXCEPT ![b.name] = x]]
           v == SetRow(u, row)
           y == w.d[b.name]
<1>1. /\ w \in Worlds /\ Distinct(w.s) /\ b \in RowSet /\ b.name \in BusNames
      /\ b.id \in Nat \ {0} /\ w.d \in [BusNames -> BusSet]
      /\ \A c \in Rows(w.s) : c.id = b.id => c = b
  BY RowAt, WorldParts DEF Good, Sound
<1>2. u \in Worlds /\ u.s = w.s /\ u.d = [w.d EXCEPT ![b.name] = x]
  BY <1>1, WorldParts DEF Worlds
<1>3. /\ v \in Worlds /\ v.d = u.d /\ Same(w.s, v.s)
      /\ \A k \in 1..Len(w.s.buses) :
           v.s.buses[k] = IF w.s.buses[k].id = row.id THEN row ELSE w.s.buses[k]
  <2> HIDE DEF u
  <2> QED
    BY <1>2, SetRowIs
<1>4. Replaced(w, v, b, row) /\ Distinct(v.s)
  <2>1. row.id = b.id /\ b \in Rows(u.s) /\ Distinct(u.s)
    BY <1>1, <1>2 DEF Tells
  <2>2. Replaced(u, v, b, row) /\ Distinct(v.s)
    <3> HIDE DEF u
    <3> QED
      BY <1>2, <2>1, SetRowReplaces
  <2> QED
    BY <1>2, <2>2 DEF Replaced
<1>5. v.d[b.name] = x /\ \A n \in BusNames : n # b.name => v.d[n] = w.d[n]
  BY <1>1, <1>2, <1>3
<1> HIDE DEF v, u
<1>6. \A c \in Rows(v.s) : RowOk(c) /\ Grows(c)
  <2>1. RowOk(b) /\ Grows(b)
    BY DEF Good, Sound
  <2>2. RowOk(row) /\ Grows(row)
    BY <2>1 DEF Tells, RowOk, RingOk, ComingOk, Grows
  <2> QED
    BY <1>4, <2>2 DEF Replaced, Good, Sound
<1>7. ASSUME NEW n \in BusNames, n # b.name
      PROVE  Agrees(v.s, n, v.d[n])
  <2>1. Agrees(w.s, n, w.d[n]) /\ v.d[n] = w.d[n]
    BY <1>5, <1>7 DEF Good, Sound
  <2>2. \A c \in Rows(w.s) : \E e \in Rows(v.s) : e.id = c.id /\ e.name = c.name /\ (c.sub => e.sub)
    BY <1>1, <1>4 DEF Replaced, Tells
  <2>3. \A c \in Rows(v.s) : c.name = n => c \in Rows(w.s)
    BY <1>4, <1>7 DEF Replaced, Tells
  <2> QED
    BY <1>5, <2>1, <2>2, <2>3 DEF Agrees
<1>8. Agrees(v.s, b.name, x)
  <2>1. Agrees(w.s, b.name, y)
    BY <1>1 DEF Good, Sound
  <2>2. \A c \in Rows(w.s) : \E e \in Rows(v.s) : e.id = c.id /\ e.name = c.name /\ (c.sub => e.sub)
    BY <1>1, <1>4 DEF Replaced, Tells
  <2>3. ~x.live => x = NoBus
    BY DEF Tells
  <2>4. x.live => up /\ x.users # {}
    BY <2>1 DEF Tells, Agrees
  <2>5. ASSUME x.live, 0 \notin x.users
        PROVE  \A i \in x.users : \E c \in Rows(v.s) : c.id = i /\ c.name = b.name
    <3>1. /\ y.live /\ 0 \notin y.users /\ x.users \subseteq y.users \cup {b.id}
      BY <2>5 DEF Tells
    <3>2. \A i \in y.users : \E c \in Rows(w.s) : c.id = i /\ c.name = b.name
      BY <2>1, <3>1 DEF Agrees
    <3> QED
      BY <2>2, <3>1, <3>2
  <2>6. ASSUME NEW c \in Rows(v.s), x.live, c.name = b.name, x.users = {c.id}
        PROVE  Shows(c, x)
    <3>1. CASE c = row
      BY <2>6, <3>1 DEF Tells
    <3>2. CASE c # row
      <4>1. c \in Rows(w.s) /\ c.id # b.id /\ c.id # 0
        BY <1>1, <1>3, <1>4, <3>2, WorldParts DEF Replaced, RowSet
      <4>2. x.users = y.users /\ x.rec = y.rec /\ x.cap = y.cap /\ x.fwd = y.fwd /\ y.live
        BY <2>6, <4>1 DEF Tells
      <4>3. Shows(c, y)
        BY <2>1, <2>6, <4>1, <4>2 DEF Agrees
      <4> QED
        BY <4>2, <4>3 DEF Shows
    <3> QED
      BY <3>1, <3>2
  <2>7. ASSUME x.sub # 0
        PROVE  \E c \in Rows(v.s) : c.id = x.sub /\ c.sub
    <3>1. x.live
      BY <2>3, <2>7 DEF NoBus
    <3>2. CASE x.sub = y.sub
      BY <2>1, <2>2, <2>7, <3>2 DEF Agrees
    <3>3. CASE x.sub = b.id /\ row.sub
      BY <1>4, <3>3 DEF Replaced, Tells
    <3> QED
      BY <2>7, <3>1, <3>2, <3>3 DEF Tells
  <2> QED
    BY <2>3, <2>4, <2>5, <2>6, <2>7 DEF Agrees
<1>9. \A n \in BusNames : Agrees(v.s, n, v.d[n])
  BY <1>5, <1>7, <1>8
<1>10. Good(v)
  BY <1>3, <1>4, <1>6, <1>9 DEF Good, Sound
<1> QED
  BY <1>2, <1>3, <1>4, <1>10 DEF Tells, u, v

-----------------------------------------------------------------------------
(* Commands about a row.                                                    *)

\* What Forgotten and Command make of the bus they are about.
LetGo(y, i) == IF i \in y.users THEN [y EXCEPT !.users = @ \cup {0}] ELSE y
After(y, b, word, part, value, lost) ==
    IF ~y.live THEN y
    ELSE IF Heard(lost, b.id, word) THEN Told(y, b.id, part, value)
    ELSE IF Looked(b, word) THEN y
    ELSE LetGo(y, b.id)

LEMMA LetGoIs ==
  ASSUME NEW y \in BusSet, NEW i \in Nat
  PROVE  /\ LetGo(y, i) \in BusSet /\ LetGo(y, i).live = y.live /\ LetGo(y, i).sub = y.sub
         /\ LetGo(y, i).rec = y.rec /\ LetGo(y, i).fwd = y.fwd /\ LetGo(y, i).cap = y.cap
         /\ LetGo(y, i).users = IF i \in y.users THEN y.users \cup {0} ELSE y.users
  BY DEF LetGo, BusSet

LEMMA AfterIs ==
  ASSUME NEW y \in BusSet, NEW b, b.id \in Nat, NEW word, NEW lost, NEW v \in BOOLEAN
  PROVE  /\ \A part \in {"rec", "cap", "fwd", "live"} : After(y, b, word, part, v, lost) \in BusSet
         /\ \A j \in Nat : After(y, b, word, "sub", j, lost) \in BusSet
<1>1. LetGo(y, b.id) \in BusSet
  BY LetGoIs
<1>2. /\ \A part \in {"rec", "cap", "fwd", "live"} : Told(y, b.id, part, v) \in BusSet
      /\ \A j \in Nat : Told(y, b.id, "sub", j) \in BusSet
  BY DEF Told, BusSet
<1> QED
  BY <1>1, <1>2 DEF After

LEMMA ForgottenIs ==
  ASSUME NEW w, w \in Worlds, NEW b, b.name \in BusNames
  PROVE  /\ Forgotten(w.d, b) = [w.d EXCEPT ![b.name] = LetGo(w.d[b.name], b.id)]
         /\ [w EXCEPT !.d = Forgotten(@, b)]
              = [w EXCEPT !.d = [@ EXCEPT ![b.name] = LetGo(w.d[b.name], b.id)]]
<1>1. w.d \in [BusNames -> BusSet]
  BY WorldParts
<1>2. [w.d EXCEPT ![b.name] = w.d[b.name]] = w.d
  BY <1>1
<1>3. Forgotten(w.d, b) = [w.d EXCEPT ![b.name] = LetGo(w.d[b.name], b.id)]
  BY <1>1, <1>2 DEF Forgotten, LetGo
<1> QED
  BY <1>3, WorldParts

LEMMA CommandIs ==
  ASSUME NEW w, w \in Worlds, NEW b, b.name \in BusNames, NEW word, NEW part, NEW value, NEW lost
  PROVE  [w EXCEPT !.d = Command(@, b, word, part, value, lost)]
           = [w EXCEPT !.d = [@ EXCEPT ![b.name] = After(w.d[b.name], b, word, part, value, lost)]]
<1>1. Command(w.d, b, word, part, value, lost)
        = [w.d EXCEPT ![b.name] = After(w.d[b.name], b, word, part, value, lost)]
  <2>1. w.d \in [BusNames -> BusSet]
    BY WorldParts
  <2>2. [w.d EXCEPT ![b.name] = w.d[b.name]] = w.d
    BY <2>1
  <2>3. Forgotten(w.d, b) = [w.d EXCEPT ![b.name] = LetGo(w.d[b.name], b.id)]
    BY ForgottenIs
  <2>4. CASE ~w.d[b.name].live
    BY <2>2, <2>4 DEF Command, After
  <2>5. CASE w.d[b.name].live /\ Heard(lost, b.id, word)
    BY <2>5 DEF Command, After
  <2>6. CASE w.d[b.name].live /\ ~Heard(lost, b.id, word) /\ Looked(b, word)
    BY <2>2, <2>6 DEF Command, After
  <2>7. CASE w.d[b.name].live /\ ~Heard(lost, b.id, word) /\ ~Looked(b, word)
    BY <2>3, <2>7 DEF Command, After
  <2> QED
    BY <2>4, <2>5, <2>6, <2>7
<1> QED
  BY <1>1, WorldParts

\* A row's flag and its command go together.
Relabels(b, row) ==
    row.id = b.id /\ row.name = b.name /\ row.ring = b.ring /\ row.born = b.born /\ row.sub = b.sub

Labels(b, row, part, v) ==
    /\ row.rec = IF part = "rec" THEN v ELSE b.rec
    /\ row.fwd = IF part = "fwd" THEN v ELSE b.fwd
    /\ (row.iface = "net") = IF part = "cap" THEN v ELSE b.iface = "net"

\* A command with its flag: a row whose command is looked at, and lost, stays as it was.
Follows(b, row, word, part, v, lost) ==
    IF Heard(lost, b.id, word) THEN Labels(b, row, part, v)
    ELSE Looked(b, word) => Labels(b, row, "live", TRUE)

Telling(w, b, row, word, part, v, lost) ==
    LET u == SetRow([w EXCEPT !.d = Command(@, b, word, part, v, lost)], row)
    IN  /\ Good(u) /\ Same(w.s, u.s) /\ Replaced(w, u, b, row)
        /\ u.d = [w.d EXCEPT ![b.name] = After(@, b, word, part, v, lost)]
        /\ \A k \in 1..Len(w.s.buses) :
             u.s.buses[k] = IF w.s.buses[k].id = b.id THEN row ELSE w.s.buses[k]

LEMMA TellKeeps ==
  ASSUME NEW w, Good(w), NEW b \in Rows(w.s), NEW row \in RowSet, Relabels(b, row),
         NEW word, NEW lost,
         NEW part \in {"rec", "cap", "fwd", "live"}, NEW v \in BOOLEAN, part = "live" => v = TRUE,
         w.d[b.name].live => Follows(b, row, word, part, v, lost)
  PROVE  Telling(w, b, row, word, part, v, lost)
<1> DEFINE y == w.d[b.name]
           x == After(y, b, word, part, v, lost)
<1>1. /\ w \in Worlds /\ b \in RowSet /\ b.name \in BusNames /\ b.id \in Nat \ {0}
      /\ w.d \in [BusNames -> BusSet] /\ y \in BusSet
  BY RowAt, WorldParts DEF Good, Sound
<1>2. Agrees(w.s, b.name, y)
  BY <1>1 DEF Good, Sound
<1>3. x \in BusSet
  BY <1>1, AfterIs
<1>4. ~y.live => x = y /\ y = NoBus
  BY <1>2 DEF After, Agrees
<1>5. ASSUME y.live, Heard(lost, b.id, word)
      PROVE  /\ x.live /\ x.users = y.users \cup {b.id} /\ x.sub = y.sub
             /\ x.rec = IF part = "rec" THEN v ELSE y.rec
             /\ x.fwd = IF part = "fwd" THEN v ELSE y.fwd
             /\ x.cap = IF part = "cap" THEN v ELSE y.cap
  BY <1>1, <1>5 DEF After, Told, BusSet
<1>6. ASSUME y.live, ~Heard(lost, b.id, word), Looked(b, word)
      PROVE  x = y
  BY <1>6 DEF After
<1>7. ASSUME y.live, ~Heard(lost, b.id, word), ~Looked(b, word)
      PROVE  /\ x.live /\ x.sub = y.sub /\ x.rec = y.rec /\ x.fwd = y.fwd /\ x.cap = y.cap
             /\ x.users = IF b.id \in y.users THEN y.users \cup {0} ELSE y.users
  <2>1. x = LetGo(y, b.id)
    BY <1>7 DEF After
  <2> HIDE DEF x, y
  <2> QED
    BY <1>1, <1>7, <2>1, LetGoIs
<1> HIDE DEF x
<1>8. ASSUME y.live, x.users = {b.id}
      PROVE  Shows(row, x)
  <2>1. Follows(b, row, word, part, v, lost)
    BY <1>8
  <2>2. CASE Heard(lost, b.id, word)
    <3>1. y.users = {b.id}
      BY <1>2, <1>5, <1>8, <2>2 DEF Agrees
    <3>2. Shows(b, y) /\ Labels(b, row, part, v)
      BY <1>2, <1>8, <2>1, <2>2, <3>1 DEF Agrees, Follows
    <3>3. row.rec = x.rec
      BY <1>5, <1>8, <2>2, <3>2 DEF Shows, Labels
    <3>4. row.fwd = x.fwd
      BY <1>5, <1>8, <2>2, <3>2 DEF Shows, Labels
    <3>5. (row.iface = "net") = x.cap
      BY <1>5, <1>8, <2>2, <3>2 DEF Shows, Labels
    <3> QED
      BY <3>3, <3>4, <3>5 DEF Shows
  <2>3. CASE ~Heard(lost, b.id, word) /\ Looked(b, word)
    <3>1. Shows(b, y) /\ Labels(b, row, "live", TRUE)
      BY <1>2, <1>6, <1>8, <2>1, <2>3 DEF Agrees, Follows
    <3> QED
      BY <1>6, <1>8, <2>3, <3>1 DEF Shows, Labels
  <2>4. CASE ~Heard(lost, b.id, word) /\ ~Looked(b, word)
    BY <1>1, <1>7, <1>8, <2>4
  <2> QED
    BY <2>2, <2>3, <2>4
<1>9. Tells(b, row, y, x)
  <2>1. y.live \in BOOLEAN /\ x.live \in BOOLEAN
    BY <1>1, <1>3 DEF BusSet
  <2>2. x.live = y.live /\ (~x.live => x = NoBus)
    BY <1>4, <1>5, <1>6, <1>7, <2>1
  <2>3. x.live =>
          /\ \/ x.users = y.users \cup {b.id}
             \/ x.users = y.users /\ x.rec = y.rec /\ x.cap = y.cap /\ x.fwd = y.fwd
             \/ 0 \in x.users
          /\ x.sub = y.sub
    BY <1>5, <1>6, <1>7, <2>2
  <2> QED
    BY <1>8, <2>2, <2>3 DEF Tells, Relabels
<1>10. [w EXCEPT !.d = Command(@, b, word, part, v, lost)] = [w EXCEPT !.d = [@ EXCEPT ![b.name] = x]]
  BY <1>1, CommandIs DEF x
<1>11. [w.d EXCEPT ![b.name] = After(@, b, word, part, v, lost)] = [w.d EXCEPT ![b.name] = x]
  BY <1>1 DEF x
<1> HIDE DEF y
<1>12. Tells(b, row, w.d[b.name], x)
  BY <1>9 DEF y
<1> QED
  BY <1>3, <1>10, <1>11, <1>12, RowChange DEF Telling

\* The rows of v are those of w, but that some may have ack for their subscription.
Subscribed(w, v, ack) ==
    /\ Good(v) /\ Same(w.s, v.s)
    /\ \A k \in 1..Len(w.s.buses) :
         \/ v.s.buses[k] = w.s.buses[k]
         \/ v.s.buses[k] = [w.s.buses[k] EXCEPT !.sub = ack]

\* The subscription of a row: what the daemon closes and what it keeps.
LEMMA SubscribeKeeps ==
  ASSUME NEW w, Good(w), NEW b \in Rows(w.s), NEW ack \in BOOLEAN, NEW lost, ~b.sub
  PROVE  Subscribed(w, SubscribeFrames(w, b.id, ack, lost), ack)
<1> DEFINE y == w.d[b.name]
           j == IF ack THEN b.id ELSE 0
           x == After(y, b, "subscribe", "sub", j, lost)
           row == [b EXCEPT !.sub = ack]
<1>1. /\ w \in Worlds /\ RowOf(w.s, b.id) = b /\ b \in RowSet /\ b.name \in BusNames /\ b.id \in Nat \ {0}
      /\ w.d \in [BusNames -> BusSet] /\ y \in BusSet /\ j \in Nat
      /\ \A c \in Rows(w.s) : c.id = b.id => c = b
  BY RowAt, WorldParts DEF Good, Sound
<1>2. Agrees(w.s, b.name, y)
  BY <1>1 DEF Good, Sound
<1>3. CASE ~y.live \/ ~Heard(lost, b.id, "subscribe")
  BY <1>1, <1>3 DEF SubscribeFrames, Same, Subscribed
<1>4. CASE y.live /\ Heard(lost, b.id, "subscribe")
  <2>1. x \in BusSet
    BY <1>1, AfterIs
  <2>2. row \in RowSet /\ Shows(b, y) => Shows(row, y)
    BY <1>1 DEF RowSet, Shows
  <2>3. /\ row \in RowSet /\ row.id = b.id /\ row.name = b.name /\ row.ring = b.ring
        /\ row.born = b.born /\ row.rec = b.rec /\ row.fwd = b.fwd /\ row.iface = b.iface
        /\ row.sub = ack
    BY <1>1 DEF RowSet
  <2>4. /\ x.live /\ x.users = y.users \cup {b.id} /\ x.sub = j
        /\ x.rec = y.rec /\ x.fwd = y.fwd /\ x.cap = y.cap
    BY <1>1, <1>4 DEF After, Told, BusSet
  <2>5. SubscribeFrames(w, b.id, ack, lost) = SetRow([w EXCEPT !.d = Command(@, b, "subscribe", "sub", j, lost)], row)
    BY <1>1, <1>4 DEF SubscribeFrames
  <2> HIDE DEF x, row, j
  <2>6. x.users = {b.id} => Shows(row, x)
    <3> SUFFICES ASSUME x.users = {b.id}
                 PROVE  Shows(row, x)
      OBVIOUS
    <3>1. y.users = {b.id}
      BY <1>2, <1>4, <2>4 DEF Agrees
    <3>2. Shows(b, y)
      BY <1>2, <1>4, <3>1 DEF Agrees
    <3> QED
      BY <2>3, <2>4, <3>2 DEF Shows
  <2>7. Tells(b, row, y, x)
    <3>1. x.sub # 0 => x.sub = b.id /\ row.sub
      BY <2>3, <2>4 DEF j
    <3>2. x.live = y.live
      BY <1>1, <1>4, <2>1, <2>4 DEF BusSet
    <3> QED
      BY <2>3, <2>4, <2>6, <3>1, <3>2 DEF Tells
  <2>8. SubscribeFrames(w, b.id, ack, lost) = SetRow([w EXCEPT !.d = [@ EXCEPT ![b.name] = x]], row)
    BY <1>1, <2>5, CommandIs DEF x
  <2> HIDE DEF y
  <2>9. Tells(b, row, w.d[b.name], x)
    BY <2>7 DEF y
  <2>10. LET v == SetRow([w EXCEPT !.d = [@ EXCEPT ![b.name] = x]], row)
         IN  /\ Good(v) /\ Same(w.s, v.s) /\ v.d = [w.d EXCEPT ![b.name] = x]
             /\ Replaced(w, v, b, row)
             /\ \A k \in 1..Len(w.s.buses) :
                  v.s.buses[k] = IF w.s.buses[k].id = b.id THEN row ELSE w.s.buses[k]
    <3>1. PICK z : z = row
      OBVIOUS
    <3>2. z \in RowSet /\ Tells(b, z, w.d[b.name], x)
      BY <2>3, <2>9, <3>1
    <3>3. LET v == SetRow([w EXCEPT !.d = [@ EXCEPT ![b.name] = x]], z)
         IN  /\ Good(v) /\ Same(w.s, v.s) /\ v.d = [w.d EXCEPT ![b.name] = x]
             /\ Replaced(w, v, b, z)
             /\ \A k \in 1..Len(w.s.buses) :
                  v.s.buses[k] = IF w.s.buses[k].id = b.id THEN z ELSE w.s.buses[k]
      BY <2>1, <3>2, RowChange
    <3> QED
      BY <3>1, <3>3
  <2>11. \A k \in 1..Len(w.s.buses) : w.s.buses[k].id = b.id => w.s.buses[k] = b
    BY <1>1, WorldParts DEF Rows
  <2> QED
    BY <2>8, <2>10, <2>11 DEF row, Subscribed
<1> QED
  BY <1>3, <1>4

\* The daemon's side alone changes.
LEMMA BusChange ==
  ASSUME NEW w, Good(w), NEW n \in BusNames, NEW x \in BusSet, Agrees(w.s, n, x)
  PROVE  Good([w EXCEPT !.d = [@ EXCEPT ![n] = x]])
<1> DEFINE v == [w EXCEPT !.d = [@ EXCEPT ![n] = x]]
<1>1. v \in Worlds /\ v.s = w.s /\ v.d = [w.d EXCEPT ![n] = x] /\ w.d \in [BusNames -> BusSet]
  BY WorldParts DEF Good, Sound, Worlds
<1> HIDE DEF v
<1>2. \A m \in BusNames : v.d[m] = IF m = n THEN x ELSE w.d[m]
  BY <1>1
<1>3. Good(v)
  BY <1>1, <1>2 DEF Good, Sound
<1> QED
  BY <1>3 DEF v

\* A row that has nothing going creates its bus.
LEMMA CreateKeeps ==
  ASSUME NEW w, Good(w), NEW b \in Rows(w.s), NEW lost, Untouched(b)
  PROVE  LET v == [w EXCEPT !.d = Create(@, b.name, b.id, lost)]
         IN  Good(v) /\ v.s = w.s
<1> DEFINE y == w.d[b.name]
           x == IF y.live THEN [y EXCEPT !.users = @ \cup {b.id}]
                ELSE [NoBus EXCEPT !.live = TRUE, !.users = {b.id}]
           v == [w EXCEPT !.d = Create(@, b.name, b.id, lost)]
<1>1. /\ w \in Worlds /\ b \in RowSet /\ b.name \in BusNames /\ b.id \in Nat \ {0}
      /\ w.d \in [BusNames -> BusSet] /\ y \in BusSet /\ w = [s |-> w.s, d |-> w.d]
      /\ \A c \in Rows(w.s) : c.id = b.id => c = b
  BY RowAt, WorldParts DEF Good, Sound
<1>2. v.s = w.s
  BY <1>1
<1>3. CASE ~Heard(lost, b.id, "create")
  <2>1. v = w
    BY <1>1, <1>3 DEF Create
  <2> QED
    BY <1>2, <2>1
<1>4. CASE Heard(lost, b.id, "create")
  <2>0. up
    BY <1>4 DEF Heard
  <2>1. Create(w.d, b.name, b.id, lost) = [w.d EXCEPT ![b.name] = x]
    BY <1>1, <1>4 DEF Create
  <2>2. v = [w EXCEPT !.d = [@ EXCEPT ![b.name] = x]]
    BY <1>1, <2>1
  <2>3. Agrees(w.s, b.name, y)
    BY <1>1 DEF Good, Sound
  <2>4. CASE y.live
    <3>1. /\ x \in BusSet /\ x.live /\ x.users = y.users \cup {b.id} /\ x.sub = y.sub
          /\ x.rec = y.rec /\ x.fwd = y.fwd /\ x.cap = y.cap
      BY <1>1, <2>4 DEF BusSet
    <3> HIDE DEF x
    <3>2. ASSUME 0 \notin x.users
          PROVE  \A i \in x.users : \E c \in Rows(w.s) : c.id = i /\ c.name = b.name
      BY <2>3, <2>4, <3>1, <3>2 DEF Agrees
    <3>3. ASSUME NEW c \in Rows(w.s), c.name = b.name, x.users = {c.id}
          PROVE  Shows(c, x)
      <4>1. y.users = {c.id}
        BY <2>3, <2>4, <3>1, <3>3 DEF Agrees
      <4>2. Shows(c, y)
        BY <2>3, <2>4, <3>3, <4>1 DEF Agrees
      <4> QED
        BY <3>1, <4>2 DEF Shows
    <3>4. Agrees(w.s, b.name, x)
      BY <2>0, <2>3, <3>1, <3>2, <3>3 DEF Agrees
    <3>5. Good([w EXCEPT !.d = [@ EXCEPT ![b.name] = x]])
      BY <1>1, <3>1, <3>4, BusChange
    <3> QED
      BY <1>2, <2>2, <3>5
  <2>5. CASE ~y.live
    <3>1. /\ x \in BusSet /\ x.live /\ x.users = {b.id} /\ x.sub = 0
          /\ ~x.rec /\ ~x.fwd /\ ~x.cap
      BY <1>1, <2>5 DEF BusSet, NoBus
    <3> HIDE DEF x
    <3>2. Shows(b, x)
      BY <1>1, <3>1 DEF Shows, Untouched, RowSet, BusSet
    <3>3. Agrees(w.s, b.name, x)
      BY <1>1, <2>0, <3>1, <3>2 DEF Agrees
    <3>4. Good([w EXCEPT !.d = [@ EXCEPT ![b.name] = x]])
      BY <1>1, <3>1, <3>3, BusChange
    <3> QED
      BY <1>2, <2>2, <3>4
  <2> QED
    BY <2>4, <2>5
<1> QED
  BY <1>3, <1>4

\* Only nextId and the rows of a window's state matter to what is good.
LEMMA RestChanges ==
  ASSUME NEW w, Good(w), NEW v, v \in Worlds, v.d = w.d, v.s.buses = w.s.buses,
         v.s.nextId = w.s.nextId,
         v.s.selected \in {b.id : b \in Rows(w.s)} \cup {0}
  PROVE  Good(v) /\ Rows(v.s) = Rows(w.s)
<1>1. Rows(v.s) = Rows(w.s)
  BY DEF Rows
<1>2. Distinct(v.s)
  BY <1>1 DEF Good, Sound, Distinct
<1>3. \A n \in BusNames : Agrees(v.s, n, v.d[n])
  BY <1>1 DEF Good, Sound, Agrees
<1> QED
  BY <1>1, <1>2, <1>3 DEF Good, Sound

\* A new row at the end of the list.
Appends(w, v, row) ==
    /\ Good(v) /\ v.d = w.d
    /\ Len(v.s.buses) = Len(w.s.buses) + 1
    /\ \A k \in 1..Len(w.s.buses) : v.s.buses[k] = w.s.buses[k]
    /\ v.s.buses[Len(w.s.buses) + 1] = row
    /\ v.s.nextId = w.s.nextId + 1 /\ v.s.connected = w.s.connected
    /\ v.s.needsSync = w.s.needsSync /\ v.s.path = w.s.path
    /\ row \in Rows(v.s) /\ Untouched(row) /\ ~row.sub
    /\ \A b \in Rows(v.s) : b = row \/ b \in Rows(w.s)

LEMMA AppendKeeps ==
  ASSUME TypeOK, NEW w, Good(w), NEW n \in BusNames, NEW file \in BOOLEAN,
         \A k \in DOMAIN queue : queue[k][1] < w.s.nextId
  PROVE  Appends(w, AppendRow(w, n, file), NewRow(w.s.nextId, n, file))
<1> DEFINE v == AppendRow(w, n, file)
           row == NewRow(w.s.nextId, n, file)
           q == w.s.buses
           r == Append(q, row)
           m == Len(q)
<1>1. /\ w \in Worlds /\ Distinct(w.s) /\ q \in Seq(RowSet) /\ w.s \in StateSet
      /\ w.s.nextId \in Nat \ {0} /\ DOMAIN q = 1..m /\ m \in Nat
      /\ w = [s |-> w.s, d |-> w.d] /\ w.d \in [BusNames -> BusSet]
  BY WorldParts DEF Good, Sound
<1>2. /\ row \in RowSet /\ row.id = w.s.nextId /\ row.name = n /\ row.ring = <<>>
      /\ row.born = frames /\ ~row.sub /\ Untouched(row)
  BY <1>1 DEF NewRow, RowSet, TypeOK, Untouched
<1> HIDE DEF row
<1>3. /\ r \in Seq(RowSet) /\ Len(r) = m + 1 /\ r[m + 1] = row
      /\ \A k \in 1..m : r[k] = q[k]
  BY <1>1, <1>2
<1> DEFINE t == [w.s EXCEPT !.buses = r, !.nextId = w.s.nextId + 1, !.selected = w.s.nextId]
<1>4. v.s = t /\ v.d = w.d /\ v = [s |-> v.s, d |-> v.d]
  <2>1. v = [w EXCEPT !.s.buses = r, !.s.nextId = @ + 1, !.s.selected = w.s.nextId]
    BY DEF AppendRow, row
  <2> HIDE DEF v, r
  <2>2. v = [s |-> t, d |-> w.d]
    BY <1>1, <2>1
  <2> QED
    BY <2>2
<1> HIDE DEF v, r
<1>5. /\ v.s \in StateSet /\ v.s.buses = r /\ v.s.nextId = w.s.nextId + 1
      /\ v.s.selected = w.s.nextId /\ v.s.connected = w.s.connected
      /\ v.s.needsSync = w.s.needsSync /\ v.s.path = w.s.path
  <2>1. w.s.nextId + 1 \in Nat \ {0} /\ w.s.nextId \in Nat
    BY <1>1
  <2>2. /\ t \in StateSet /\ t.buses = r /\ t.nextId = w.s.nextId + 1
        /\ t.selected = w.s.nextId /\ t.connected = w.s.connected
        /\ t.needsSync = w.s.needsSync /\ t.path = w.s.path
    BY <1>1, <1>3, <2>1 DEF StateSet
  <2> HIDE DEF t
  <2> QED
    BY <1>4, <2>2
<1> HIDE DEF t
<1>6. v \in Worlds
  BY <1>1, <1>4, <1>5 DEF Worlds
<1>7. DOMAIN r = 1..(m + 1)
  BY <1>1, <1>3
<1>8. /\ row \in Rows(v.s) /\ \A b \in Rows(w.s) : b \in Rows(v.s)
      /\ \A b \in Rows(v.s) : b = row \/ b \in Rows(w.s)
  <2>1. \A k \in 1..(m + 1) : k = m + 1 \/ k \in 1..m
    BY <1>1
  <2>2. m + 1 \in 1..(m + 1) /\ 1..m \subseteq 1..(m + 1)
    BY <1>1
  <2> HIDE DEF m
  <2> QED
    BY <1>1, <1>3, <1>5, <1>7, <2>1, <2>2 DEF Rows
<1>9. Distinct(v.s)
  <2>1. \A b \in Rows(w.s) : b.id < w.s.nextId /\ b.id \in Nat
    BY <1>1, RowIn DEF Distinct
  <2>2. \A k \in 1..m : r[k].id < w.s.nextId /\ r[k].id \in Nat
    BY <1>1, <1>3, <2>1 DEF Rows
  <2>3. ASSUME NEW j \in 1..(m + 1), NEW k \in 1..(m + 1), j # k
        PROVE  r[j].id # r[k].id
    <3>1. CASE j \in 1..m /\ k \in 1..m
      BY <1>1, <1>3, <2>3, <3>1 DEF Distinct
    <3>2. CASE j = m + 1 \/ k = m + 1
      BY <1>1, <1>2, <1>3, <2>2, <2>3, <3>2
    <3> QED
      BY <1>1, <3>1, <3>2
  <2>4. \A b \in Rows(v.s) : b.id < v.s.nextId
    BY <1>1, <1>2, <1>5, <1>8, <2>1
  <2>5. v.s.selected \in {b.id : b \in Rows(v.s)} \cup {0}
    BY <1>2, <1>5, <1>8
  <2> QED
    BY <1>5, <1>7, <2>3, <2>4, <2>5 DEF Distinct
<1>10. RowOk(row)
  <2>1. DOMAIN row.ring = {} /\ Len(row.ring) = 0
    BY <1>2
  <2>2. RingOk(row)
    BY <2>1, GuiAssumption DEF RingOk
  <2>3. ComingOk(row)
    BY <1>2 DEF ComingOk, TypeOK
  <2> QED
    BY <1>2, <2>2, <2>3 DEF RowOk, TypeOK
<1>11. ASSUME NEW k \in BusNames
       PROVE  Agrees(v.s, k, v.d[k])
  <2>1. Agrees(w.s, k, w.d[k])
    BY <1>11 DEF Good, Sound
  <2>2. w.d[k].live /\ w.d[k].users = {w.s.nextId} => FALSE
    BY <1>1, <2>1 DEF Agrees, Distinct
  <2> QED
    BY <1>2, <1>4, <1>5, <1>8, <2>1, <2>2 DEF Agrees
<1>12. Good(v)
  <2>1. Grows(row)
    BY <1>2 DEF Grows
  <2> QED
    BY <1>6, <1>8, <1>9, <1>10, <1>11, <2>1 DEF Good, Sound
<1> QED
  BY <1>2, <1>3, <1>4, <1>5, <1>8, <1>12 DEF v, row, Appends

\* The last row of v, and new, is what NewBus made of the name n.
LastIs(w, v, n) ==
    LET k == Len(w.s.buses) + 1
    IN  Len(v.s.buses) = k /\ v.s.buses[k].name = n /\ v.s.buses[k].file = FALSE

LEMMA NewBusKeeps ==
  ASSUME TypeOK, NEW w, Good(w), NEW n \in BusNames, NEW ack \in BOOLEAN, NEW lost,
         \A k \in DOMAIN queue : queue[k][1] < w.s.nextId
  PROVE  LET v == NewBus(w, n, ack, lost)
         IN  /\ Good(v) /\ v.s.nextId = w.s.nextId + 1 /\ v.s.connected = w.s.connected
             /\ v.s.needsSync = w.s.needsSync /\ v.s.path = w.s.path
             /\ ~w.s.connected => \A b \in Rows(v.s) : Untouched(b) \/ b \in Rows(w.s)
             /\ LastIs(w, v, n)
<1> DEFINE a == AppendRow(w, n, FALSE)
           row == NewRow(w.s.nextId, n, FALSE)
<1>1. /\ Good(a) /\ a.d = w.d /\ a.s.nextId = w.s.nextId + 1 /\ a.s.connected = w.s.connected
      /\ a.s.needsSync = w.s.needsSync /\ a.s.path = w.s.path
      /\ row \in Rows(a.s) /\ Untouched(row) /\ ~row.sub
      /\ \A b \in Rows(a.s) : b = row \/ b \in Rows(w.s)
      /\ Len(a.s.buses) = Len(w.s.buses) + 1 /\ a.s.buses[Len(w.s.buses) + 1] = row
  BY AppendKeeps DEF Appends
<1>2. row.id = w.s.nextId /\ row.name = n /\ row.file = FALSE
  BY DEF NewRow
<1>3. NewBus(w, n, ack, lost) =
         IF w.s.connected
         THEN SubscribeFrames([a EXCEPT !.d = Create(@, n, w.s.nextId, lost)], w.s.nextId, ack, lost)
         ELSE a
  BY DEF NewBus
<1> HIDE DEF a, row
<1>4. CASE ~w.s.connected
  BY <1>1, <1>2, <1>3, <1>4 DEF LastIs
<1>5. CASE w.s.connected
  <2> DEFINE c == [a EXCEPT !.d = Create(@, n, w.s.nextId, lost)]
  <2>1. Good(c) /\ c.s = a.s
    BY <1>1, <1>2, <1>5, CreateKeeps
  <2> HIDE DEF c
  <2>2. PICK v : v = SubscribeFrames(c, row.id, ack, lost)
    OBVIOUS
  <2>4. Subscribed(c, v, ack)
    BY <1>1, <2>1, <2>2, SubscribeKeeps
  <2>5. Good(v) /\ Same(c.s, v.s)
    BY <2>4 DEF Subscribed
  <2>6. LastIs(w, v, n)
    <3>1. PICK k : k = Len(w.s.buses) + 1
      OBVIOUS
    <3>2. k \in 1..Len(c.s.buses) /\ c.s.buses[k] = row /\ row \in RowSet /\ Len(c.s.buses) = k
      <4>1. Len(w.s.buses) \in Nat
        BY WorldParts DEF Good, Sound
      <4>2. row \in RowSet
        BY <1>1, RowAt
      <4> QED
        BY <1>1, <2>1, <3>1, <4>1, <4>2
    <3>3. v.s.buses[k] = row \/ v.s.buses[k] = [row EXCEPT !.sub = ack]
      BY <2>4, <3>2 DEF Subscribed
    <3>4. v.s.buses[k].name = n /\ v.s.buses[k].file = FALSE
      BY <1>2, <3>2, <3>3 DEF RowSet
    <3>5. Len(v.s.buses) = k
      BY <2>5, <3>2 DEF Same
    <3> QED
      BY <3>1, <3>4, <3>5 DEF LastIs
  <2>3. NewBus(w, n, ack, lost) = SubscribeFrames(c, row.id, ack, lost)
    BY <1>2, <1>3, <1>5 DEF c
  <2> QED
    BY <1>1, <1>5, <2>1, <2>2, <2>3, <2>5, <2>6 DEF Same
<1> QED
  BY <1>4, <1>5

-----------------------------------------------------------------------------
(* A row is deleted.                                                        *)

\* Row i is at k, and the list without it.
LEMMA EraseIs ==
  ASSUME NEW st, st.buses \in Seq(RowSet), NEW k \in 1..Len(st.buses), NEW i,
         st.buses[k].id = i, \A j \in 1..Len(st.buses) : st.buses[j].id = i => j = k
  PROVE  LET r == Erase(st, i)
         IN  /\ r \in Seq(RowSet) /\ Len(r) = Len(st.buses) - 1
             /\ \A j \in 1..(Len(st.buses) - 1) :
                  r[j] = IF j < k THEN st.buses[j] ELSE st.buses[j + 1]
<1> DEFINE q == st.buses
           n == Len(q)
           x == SubSeq(q, 1, k - 1)
           y == SubSeq(q, k + 1, n)
<1>1. n \in Nat /\ DOMAIN q = 1..n /\ k \in 1..n /\ \A j \in 1..n : q[j] \in RowSet
  BY LenProperties, ElementOfSeq
<1>2. Erase(st, i) = x \o y
  <2>1. (CHOOSE j \in DOMAIN q : q[j].id = i) = k
    BY <1>1
  <2> QED
    BY <2>1 DEF Erase, RemoveAt
<1>3. /\ x \in Seq(RowSet) /\ Len(x) = k - 1 /\ \A j \in 1..(k - 1) : x[j] = q[j]
  <2>1. 1 \in Int /\ k - 1 \in Int /\ \A j \in 1..(k - 1) : q[j] \in RowSet
    BY <1>1
  <2> HIDE DEF q
  <2>2. /\ x \in Seq(RowSet) /\ Len(x) = (IF 1 <= k - 1 THEN (k - 1) - 1 + 1 ELSE 0)
        /\ \A j \in 1..((k - 1) - 1 + 1) : x[j] = q[1 + j - 1]
    BY <2>1, SubSeqProperties
  <2>3. (k - 1) - 1 + 1 = k - 1 /\ \A j \in 1..(k - 1) : 1 + j - 1 = j
    BY <1>1
  <2> HIDE DEF x
  <2> QED
    BY <1>1, <2>2, <2>3
<1>4. /\ y \in Seq(RowSet) /\ Len(y) = n - k /\ \A j \in 1..(n - k) : y[j] = q[k + j]
  <2>1. k + 1 \in Int /\ n \in Int /\ \A j \in (k + 1)..n : q[j] \in RowSet
    BY <1>1
  <2> HIDE DEF q, n
  <2>2. /\ y \in Seq(RowSet) /\ Len(y) = (IF k + 1 <= n THEN n - (k + 1) + 1 ELSE 0)
        /\ \A j \in 1..(n - (k + 1) + 1) : y[j] = q[(k + 1) + j - 1]
    BY <2>1, SubSeqProperties
  <2>3. n - (k + 1) + 1 = n - k /\ \A j \in 1..(n - k) : (k + 1) + j - 1 = k + j
    BY <1>1
  <2> HIDE DEF y
  <2> QED
    BY <1>1, <2>2, <2>3
<1> HIDE DEF q, n, x, y
<1>5. /\ x \o y \in Seq(RowSet) /\ Len(x \o y) = Len(x) + Len(y)
      /\ \A j \in 1..(Len(x) + Len(y)) :
           (x \o y)[j] = IF j <= Len(x) THEN x[j] ELSE y[j - Len(x)]
  BY <1>3, <1>4, ConcatProperties
<1>6. Len(x) + Len(y) = n - 1
  BY <1>1, <1>3, <1>4
<1>7. ASSUME NEW j \in 1..(n - 1)
      PROVE  (x \o y)[j] = IF j < k THEN q[j] ELSE q[j + 1]
  <2>1. CASE j < k
    BY <1>1, <1>3, <1>5, <1>6, <2>1
  <2>2. CASE ~(j < k)
    <3>1. j - Len(x) \in 1..(n - k) /\ k + (j - Len(x)) = j + 1 /\ ~(j <= Len(x))
      BY <1>1, <1>3, <2>2
    <3> QED
      BY <1>4, <1>5, <1>6, <2>2, <3>1
  <2> QED
    BY <2>1, <2>2
<1> QED
  BY <1>2, <1>5, <1>6, <1>7 DEF q, n

\* What a row's change leaves alone: the other rows.
Elsewhere(w, v, i) ==
    /\ v \in Worlds /\ Distinct(v.s) /\ Same(w.s, v.s)
    /\ \A k \in 1..Len(w.s.buses) :
         w.s.buses[k].id # i => v.s.buses[k] = w.s.buses[k]

LEMMA SetRowElsewhere ==
  ASSUME NEW w, w \in Worlds, Distinct(w.s), NEW b \in Rows(w.s),
         NEW row \in RowSet, row.id = b.id, NEW db \in [BusNames -> BusSet]
  PROVE  LET v == SetRow([w EXCEPT !.d = db], row)
         IN  Elsewhere(w, v, b.id) /\ v.d = db /\ row \in Rows(v.s)
<1> DEFINE u == [w EXCEPT !.d = db]
           v == SetRow(u, row)
<1>1. u \in Worlds /\ u.s = w.s /\ u.d = db /\ Rows(u.s) = Rows(w.s)
  BY WorldParts DEF Worlds, Rows
<1> HIDE DEF u
<1>2. /\ v \in Worlds /\ v.d = db /\ Same(w.s, v.s)
      /\ \A k \in 1..Len(w.s.buses) :
           v.s.buses[k] = IF w.s.buses[k].id = row.id THEN row ELSE w.s.buses[k]
  BY <1>1, SetRowIs
<1>3. Replaced(u, v, b, row) /\ Distinct(v.s)
  BY <1>1, SetRowReplaces
<1> HIDE DEF v
<1>4. Elsewhere(w, v, b.id) /\ row \in Rows(v.s)
  BY <1>2, <1>3 DEF Elsewhere, Replaced
<1> QED
  BY <1>2, <1>4 DEF v, u

\* A command changes the bus it is about, and no other.
Commanded(db, b, word, part, v, lost) ==
    LET new == Command(db, b, word, part, v, lost)
    IN  /\ new \in [BusNames -> BusSet]
        /\ \A m \in BusNames : m # b.name => new[m] = db[m]
        /\ new[b.name] = After(db[b.name], b, word, part, v, lost)

LEMMA CommandTypes ==
  ASSUME NEW db \in [BusNames -> BusSet], NEW b, b.name \in BusNames, b.id \in Nat,
         NEW word, NEW lost, NEW part \in {"rec", "cap", "fwd", "live"}, NEW v \in BOOLEAN
  PROVE  Commanded(db, b, word, part, v, lost)
<1>1. PICK y \in BusSet : y = db[b.name]
  OBVIOUS
<1>2. PICK z \in BusSet : z = After(y, b, word, part, v, lost)
  BY AfterIs
<1>3. Command(db, b, word, part, v, lost) = [db EXCEPT ![b.name] = z]
  <2>1. db = [db EXCEPT ![b.name] = y]
    BY <1>1
  <2>2. Forgotten(db, b) = [db EXCEPT ![b.name] = LetGo(y, b.id)]
    BY <1>1, <2>1 DEF Forgotten, LetGo
  <2> QED
    BY <1>1, <1>2, <2>1, <2>2 DEF Command, After
<1> QED
  BY <1>1, <1>2, <1>3 DEF Commanded

\* What commands of row i make of bus y: it is told of the row, or is as it was, and in
\* either case remembers the row if it knew it.
Part(i, y, x) ==
    /\ x \in BusSet /\ x.live = y.live /\ (x.live \/ x = NoBus)
    /\ x.sub = y.sub \/ x.sub = 0
    /\ i \in x.users \/ (x.users = y.users /\ x.rec = y.rec /\ x.cap = y.cap /\ x.fwd = y.fwd)

\* The same after one command more, and the subscriber still the same.
PartStill(i, y, x, z) == Part(i, y, z) /\ z.sub = x.sub

LEMMA PartLetsGo ==
  ASSUME NEW i \in Nat, NEW y \in BusSet, NEW x, Part(i, y, x)
  PROVE  /\ PartStill(i, y, x, LetGo(x, i))
         /\ i \in LetGo(x, i).users => 0 \in LetGo(x, i).users
<1>1. x \in BusSet
  BY DEF Part
<1>2. PICK z \in BusSet : z = LetGo(x, i)
  BY <1>1, LetGoIs
<1>3. /\ z.live = x.live /\ z.sub = x.sub /\ z.rec = x.rec /\ z.fwd = x.fwd /\ z.cap = x.cap
      /\ z.users = IF i \in x.users THEN x.users \cup {0} ELSE x.users
  BY <1>1, <1>2, LetGoIs
<1>4. i \notin x.users => z = x
  BY <1>2 DEF LetGo
<1>5. z.live \/ z = NoBus
  BY <1>3, <1>4 DEF Part, NoBus
<1> QED
  BY <1>2, <1>3, <1>4, <1>5 DEF Part, PartStill

LEMMA PartGoesOn ==
  ASSUME NEW i \in Nat, NEW y \in BusSet, NEW x, Part(i, y, x), NEW b, b.id = i, NEW word, NEW lost,
         NEW part \in {"rec", "cap"}, NEW v \in BOOLEAN
  PROVE  PartStill(i, y, x, After(x, b, word, part, v, lost))
<1>1. x \in BusSet
  BY DEF Part
<1>2. PartStill(i, y, x, LetGo(x, i))
  BY PartLetsGo
<1>3. /\ x.live => Part(i, y, Told(x, i, part, v))
      /\ Told(x, i, part, v).sub = x.sub
  BY <1>1 DEF Part, Told, BusSet
<1> QED
  BY <1>2, <1>3 DEF After, PartStill

\* What the daemon goes on with when the delete of row i was lost, or never sent.
Remains(i, y, x) ==
    /\ x.live = y.live /\ (x.live \/ x = NoBus)
    /\ x.sub # 0 => x.sub = y.sub /\ x.sub # i
    /\ \/ 0 \in x.users
       \/ i \notin y.users /\ x.users = y.users /\ x.rec = y.rec /\ x.cap = y.cap /\ x.fwd = y.fwd

\* A deleted row is gone, the others stay, and the daemon has nothing for it, or remembers
\* that a row has let go of the bus.
Deleted(w, b, v) ==
    /\ v \in Worlds /\ Distinct(v.s)
    /\ v.s.nextId = w.s.nextId /\ v.s.connected = w.s.connected
    /\ v.s.needsSync = w.s.needsSync /\ v.s.path = w.s.path
    /\ Len(v.s.buses) = Len(w.s.buses) - 1
    /\ \A c \in Rows(v.s) : c \in Rows(w.s) /\ c.id # b.id
    /\ \A c \in Rows(w.s) : c.id # b.id => c \in Rows(v.s)
    /\ \A n \in BusNames : n # b.name =>
         v.d[n] = IF w.d[n].sub = b.id THEN [w.d[n] EXCEPT !.sub = 0] ELSE w.d[n]
    /\ v.d[b.name] = NoBus \/ Remains(b.id, w.d[b.name], v.d[b.name])

LEMMA DeleteBusIs ==
  ASSUME NEW w, Good(w), NEW b \in Rows(w.s), NEW lost
  PROVE  Deleted(w, b, DeleteBus(w, b.id, lost))
<1> DEFINE i == b.id
           N == Len(w.s.buses)
           quiet == IF b.rec THEN StopRecord(w, i, lost) ELSE w
           y == w.d[b.name]
           free == UnsubscribeFrames(quiet, i)
           away == DetachIface(free, i, lost)
           left == Erase(away.s, i)
           v == DeleteBus(w, i, lost)
<1>1. /\ w \in Worlds /\ Distinct(w.s) /\ b \in RowSet /\ b.name \in BusNames /\ i \in Nat \ {0}
      /\ w.d \in [BusNames -> BusSet] /\ RowOf(w.s, i) = b
      /\ w = [s |-> w.s, d |-> w.d]
      /\ \A c \in Rows(w.s) : c.id = i => c = b
      /\ w.s.connected \in BOOLEAN /\ N \in Nat /\ DOMAIN w.s.buses = 1..N
  BY RowAt, WorldParts DEF Good, Sound
<1>2. PICK b1 \in Rows(quiet.s) :
         /\ b1.id = i /\ b1.name = b.name
         /\ Elsewhere(w, quiet, i)
         /\ \A n \in BusNames : n # b.name => quiet.d[n] = w.d[n]
         /\ Part(i, y, quiet.d[b.name])
  <2>1. Elsewhere(w, w, i) /\ Part(i, y, y)
    <3>1. Agrees(w.s, b.name, y) /\ y \in BusSet
      BY <1>1 DEF Good, Sound
    <3> QED
      BY <1>1, <3>1 DEF Elsewhere, Same, Part, Agrees
  <2>2. CASE ~b.rec \/ ~w.s.connected
    <3>1. quiet = w
      BY <1>1, <2>2 DEF StopRecord
    <3> HIDE DEF quiet
    <3> QED
      BY <2>1, <3>1
  <2>3. CASE b.rec /\ w.s.connected
    <3> DEFINE row == [b EXCEPT !.rec = FALSE]
               db == Command(w.d, b, "stoprec", "rec", FALSE, lost)
    <3>1. row \in RowSet /\ row.id = i /\ row.name = b.name
      BY <1>1 DEF RowSet
    <3>2. /\ db \in [BusNames -> BusSet] /\ \A n \in BusNames : n # b.name => db[n] = w.d[n]
          /\ Part(i, y, db[b.name])
      <4>1. /\ db \in [BusNames -> BusSet] /\ \A n \in BusNames : n # b.name => db[n] = w.d[n]
            /\ db[b.name] = After(y, b, "stoprec", "rec", FALSE, lost)
        <5>1. PICK d0 \in [BusNames -> BusSet] : d0 = w.d
          BY <1>1
        <5>2. b.name \in BusNames /\ b.id \in Nat
          BY <1>1
        <5>3. Commanded(d0, b, "stoprec", "rec", FALSE, lost)
          BY <5>2, CommandTypes
        <5> QED
          BY <5>1, <5>3 DEF Commanded
      <4>2. y \in BusSet /\ i \in Nat /\ Part(i, y, y)
        BY <1>1, <2>1
      <4>3. Part(i, y, After(y, b, "stoprec", "rec", FALSE, lost))
        <5>1. PICK a, m : a = y /\ m = i
          OBVIOUS
        <5>2. m \in Nat /\ Part(m, a, a) /\ b.id = m /\ a \in BusSet
          BY <4>2, <5>1
        <5>3. PartStill(m, a, a, After(a, b, "stoprec", "rec", FALSE, lost))
          BY <5>2, PartGoesOn
        <5> QED
          BY <5>1, <5>3 DEF PartStill
      <4> QED
        BY <4>1, <4>3
    <3>3. quiet = SetRow([w EXCEPT !.d = db], row)
      BY <1>1, <2>3 DEF StopRecord
    <3> HIDE DEF row, db, quiet
    <3>4. LET u == SetRow([w EXCEPT !.d = db], row)
          IN  Elsewhere(w, u, b.id) /\ u.d = db /\ row \in Rows(u.s)
      BY <1>1, <3>1, <3>2, SetRowElsewhere
    <3> QED
      BY <2>3, <3>1, <3>2, <3>3, <3>4
  <2> QED
    BY <2>2, <2>3
<1> HIDE DEF quiet
<1>3. quiet \in Worlds /\ Distinct(quiet.s)
  BY <1>2 DEF Elsewhere
<1>4. b1 \in RowSet /\ RowOf(quiet.s, i) = b1 /\ quiet.d \in [BusNames -> BusSet]
  BY <1>2, <1>3, RowIn, WorldParts
<1> DEFINE cut == [n \in BusNames |-> IF quiet.d[n].sub = i THEN [quiet.d[n] EXCEPT !.sub = 0]
                                      ELSE quiet.d[n]]
           b2 == [b1 EXCEPT !.sub = FALSE]
<1> HIDE DEF y
<1>5. /\ cut \in [BusNames -> BusSet] /\ b2 \in RowSet /\ b2.id = i /\ b2.name = b.name
      /\ free = SetRow([quiet EXCEPT !.d = cut], b2)
  <2>1. cut \in [BusNames -> BusSet]
    BY <1>4 DEF BusSet
  <2>2. b2 \in RowSet /\ b2.id = i /\ b2.name = b.name
    BY <1>2, <1>4 DEF RowSet
  <2>3. free = SetRow([quiet EXCEPT !.d = cut], b2)
    BY <1>4 DEF UnsubscribeFrames
  <2> QED
    BY <2>1, <2>2, <2>3
<1> HIDE DEF free, b2
<1>6. Elsewhere(quiet, free, i) /\ free.d = cut /\ b2 \in Rows(free.s)
  <2> HIDE DEF cut
  <2>1. LET u == SetRow([quiet EXCEPT !.d = cut], b2)
        IN  Elsewhere(quiet, u, b1.id) /\ u.d = cut /\ b2 \in Rows(u.s)
    <3>1. PICK z : z = b2
      OBVIOUS
    <3>2. z \in RowSet /\ z.id = b1.id
      BY <1>2, <1>5, <3>1
    <3>3. LET u == SetRow([quiet EXCEPT !.d = cut], z)
          IN  Elsewhere(quiet, u, b1.id) /\ u.d = cut /\ z \in Rows(u.s)
      BY <1>2, <1>3, <1>5, <3>2, SetRowElsewhere
    <3> QED
      BY <3>1, <3>3
  <2> QED
    BY <1>2, <1>5, <2>1
<1>7. free \in Worlds /\ Distinct(free.s) /\ free.d \in [BusNames -> BusSet] /\ RowOf(free.s, i) = b2
  BY <1>5, <1>6, RowIn, WorldParts DEF Elsewhere
<1>8. Part(i, y, free.d[b.name]) /\ free.d[b.name].sub # i
  <2>1. quiet.d[b.name] \in BusSet /\ Part(i, y, quiet.d[b.name]) /\ i # 0
    BY <1>1, <1>2, <1>4
  <2>2. free.d[b.name] = IF quiet.d[b.name].sub = i THEN [quiet.d[b.name] EXCEPT !.sub = 0]
                         ELSE quiet.d[b.name]
    BY <1>1, <1>6
  <2> QED
    BY <2>1, <2>2 DEF Part, BusSet, NoBus
<1> DEFINE db == IF b2.iface # "net" THEN free.d
                 ELSE IF free.s.connected THEN Command(free.d, b2, "stop-capture", "cap", FALSE, lost)
                 ELSE Forgotten(free.d, b2)
           b3 == [b2 EXCEPT !.iface = "none"]
<1>9. /\ db \in [BusNames -> BusSet] /\ b3 \in RowSet /\ b3.id = i
      /\ \A n \in BusNames : n # b.name => db[n] = free.d[n]
      /\ Part(i, y, db[b.name]) /\ db[b.name].sub # i
      /\ away = SetRow([free EXCEPT !.d = db], b3)
  <2>0. /\ i \in Nat /\ y \in BusSet /\ free.d \in [BusNames -> BusSet]
        /\ b2.name = b.name /\ b2.id = i /\ b.name \in BusNames
        /\ Part(i, y, free.d[b.name])
    BY <1>1, <1>5, <1>7, <1>8 DEF y
  <2>1. /\ db \in [BusNames -> BusSet] /\ \A n \in BusNames : n # b.name => db[n] = free.d[n]
        /\ Part(i, y, db[b.name]) /\ db[b.name].sub # i
    <3>1. CASE b2.iface # "net"
      BY <1>8, <2>0, <3>1
    <3>2. CASE b2.iface = "net" /\ free.s.connected
      <4>1. db = Command(free.d, b2, "stop-capture", "cap", FALSE, lost)
        BY <3>2
      <4>2. /\ db \in [BusNames -> BusSet] /\ \A n \in BusNames : n # b.name => db[n] = free.d[n]
            /\ db[b.name] = After(free.d[b.name], b2, "stop-capture", "cap", FALSE, lost)
        <5>1. PICK d0 \in [BusNames -> BusSet] : d0 = free.d
          BY <2>0
        <5>2. b2.name \in BusNames /\ b2.id \in Nat
          BY <2>0
        <5>3. Commanded(d0, b2, "stop-capture", "cap", FALSE, lost)
          BY <5>2, CommandTypes
        <5> HIDE DEF db
        <5> QED
          BY <2>0, <4>1, <5>1, <5>3 DEF Commanded
      <4>3. /\ Part(i, y, After(free.d[b.name], b2, "stop-capture", "cap", FALSE, lost))
            /\ After(free.d[b.name], b2, "stop-capture", "cap", FALSE, lost).sub = free.d[b.name].sub
        <5>1. PICK a, m : a = free.d[b.name] /\ m = i
          OBVIOUS
        <5>2. m \in Nat /\ Part(m, y, a) /\ b2.id = m /\ y \in BusSet
          BY <2>0, <5>1
        <5>3. PartStill(m, y, a, After(a, b2, "stop-capture", "cap", FALSE, lost))
          BY <5>2, PartGoesOn
        <5> QED
          BY <5>1, <5>3 DEF PartStill
      <4> QED
        BY <1>8, <4>2, <4>3
    <3>3. CASE b2.iface = "net" /\ ~free.s.connected
      <4>1. db = Forgotten(free.d, b2)
        BY <3>3
      <4>2. db = [free.d EXCEPT ![b.name] = LetGo(free.d[b.name], i)]
        <5>1. Forgotten(free.d, b2) = [free.d EXCEPT ![b2.name] = LetGo(free.d[b2.name], b2.id)]
          <6>1. PICK u : u = free
            OBVIOUS
          <6>2. u \in Worlds /\ b2.name \in BusNames
            BY <1>7, <2>0, <6>1
          <6>3. Forgotten(u.d, b2) = [u.d EXCEPT ![b2.name] = LetGo(u.d[b2.name], b2.id)]
            BY <6>2, ForgottenIs
          <6> QED
            BY <6>1, <6>3
        <5> HIDE DEF db
        <5> QED
          BY <2>0, <4>1, <5>1
      <4>3. /\ Part(i, y, LetGo(free.d[b.name], i))
            /\ LetGo(free.d[b.name], i).sub = free.d[b.name].sub
        <5>1. PICK a, m : a = free.d[b.name] /\ m = i
          OBVIOUS
        <5>2. m \in Nat /\ Part(m, y, a) /\ y \in BusSet
          BY <2>0, <5>1
        <5>3. PartStill(m, y, a, LetGo(a, m))
          BY <5>2, PartLetsGo
        <5> QED
          BY <5>1, <5>3 DEF PartStill
      <4> HIDE DEF db
      <4> QED
        BY <1>8, <2>0, <4>2, <4>3 DEF Part
    <3> QED
      BY <3>1, <3>2, <3>3
  <2>2. b3 \in RowSet /\ b3.id = i
    BY <1>5 DEF RowSet
  <2>3. away = SetRow([free EXCEPT !.d = db], b3)
    BY <1>7 DEF DetachIface
  <2> HIDE DEF db, b3, away
  <2> QED
    BY <2>1, <2>2, <2>3
<1> HIDE DEF away, db, b3
<1>10. Elsewhere(free, away, i) /\ away.d = db /\ b3 \in Rows(away.s)
  <2>1. PICK z : z = b3
    OBVIOUS
  <2>2. z \in RowSet /\ z.id = b2.id
    BY <1>5, <1>9, <2>1
  <2>3. LET u == SetRow([free EXCEPT !.d = db], z)
        IN  Elsewhere(free, u, b2.id) /\ u.d = db /\ z \in Rows(u.s)
    BY <1>6, <1>7, <1>9, <2>2, SetRowElsewhere
  <2> QED
    BY <1>5, <1>9, <2>1, <2>3
<1>11. Elsewhere(w, away, i)
  BY <1>2, <1>6, <1>10 DEF Elsewhere, Same
<1> DEFINE picked == IF left = <<>> THEN 0 ELSE Head(left).id
           vs == [away.s EXCEPT !.buses = left, !.selected = picked]
           told == w.s.connected /\ Heard(lost, i, "delete")
           vd == IF told THEN [away.d EXCEPT ![b.name] = NoBus] ELSE Forgotten(away.d, b)
<1>12. v = [s |-> vs, d |-> vd]
  BY <1>1 DEF DeleteBus, away, free, quiet
<1>13. PICK k0 \in 1..N : w.s.buses[k0] = b
  BY <1>1 DEF Rows
<1>14. /\ away.s \in StateSet /\ away.s.buses \in Seq(RowSet) /\ Len(away.s.buses) = N
       /\ away.s.buses[k0].id = i
       /\ \A j \in 1..N : away.s.buses[j].id = w.s.buses[j].id
       /\ \A j \in 1..N : w.s.buses[j].id = i => j = k0
  BY <1>1, <1>11, <1>13, WorldParts DEF Elsewhere, Same, Distinct
<1> HIDE DEF v, left, N, cut
<1>15. /\ left \in Seq(RowSet) /\ Len(left) = N - 1
       /\ \A j \in 1..(N - 1) : left[j] = IF j < k0 THEN away.s.buses[j] ELSE away.s.buses[j + 1]
  <2>1. /\ \A j \in 1..Len(away.s.buses) : away.s.buses[j].id = i => j = k0
        /\ k0 \in 1..Len(away.s.buses) /\ away.s.buses \in Seq(RowSet)
        /\ away.s.buses[k0].id = i
    BY <1>13, <1>14
  <2>2. LET r == Erase(away.s, i)
        IN  /\ r \in Seq(RowSet) /\ Len(r) = Len(away.s.buses) - 1
            /\ \A j \in 1..(Len(away.s.buses) - 1) :
                 r[j] = IF j < k0 THEN away.s.buses[j] ELSE away.s.buses[j + 1]
    <3>1. PICK st, m : st = away.s /\ m = i
      OBVIOUS
    <3>2. /\ \A j \in 1..Len(st.buses) : st.buses[j].id = m => j = k0
          /\ k0 \in 1..Len(st.buses) /\ st.buses \in Seq(RowSet) /\ st.buses[k0].id = m
      BY <2>1, <3>1
    <3>3. LET r == Erase(st, m)
          IN  /\ r \in Seq(RowSet) /\ Len(r) = Len(st.buses) - 1
              /\ \A j \in 1..(Len(st.buses) - 1) :
                   r[j] = IF j < k0 THEN st.buses[j] ELSE st.buses[j + 1]
      BY <3>2, EraseIs
    <3> QED
      BY <3>1, <3>3
  <2> QED
    BY <1>14, <2>2 DEF left
<1>16. \A j \in 1..N : j # k0 => away.s.buses[j] = w.s.buses[j] /\ w.s.buses[j].id # i
  BY <1>11, <1>14 DEF Elsewhere, N
<1>17. \A j \in 1..(N - 1) : left[j] = IF j < k0 THEN w.s.buses[j] ELSE w.s.buses[j + 1]
  <2> TAKE j \in 1..(N - 1)
  <2>1. j \in 1..N /\ j + 1 \in 1..N /\ (j < k0 => j # k0) /\ (~(j < k0) => j + 1 # k0)
    BY <1>1, <1>13
  <2> QED
    BY <1>15, <1>16, <2>1
<1>18. /\ DOMAIN left = 1..(N - 1) /\ picked \in {left[j].id : j \in 1..(N - 1)} \cup {0}
       /\ picked \in Nat
  <2>1. DOMAIN left = 1..(N - 1) /\ \A j \in 1..(N - 1) : left[j] \in RowSet
    BY <1>15, LenProperties, ElementOfSeq
  <2>2. left # <<>> => 1 \in 1..(N - 1) /\ Head(left) = left[1]
    BY <1>1, <1>15, EmptySeq
  <2> QED
    BY <2>1, <2>2 DEF RowSet
<1>19. /\ vs \in StateSet /\ vs.buses = left /\ vs.selected = picked
       /\ vs.nextId = w.s.nextId /\ vs.connected = w.s.connected
       /\ vs.needsSync = w.s.needsSync /\ vs.path = w.s.path
  <2>1. /\ vs \in StateSet /\ vs.buses = left /\ vs.selected = picked
        /\ vs.nextId = away.s.nextId /\ vs.connected = away.s.connected
        /\ vs.needsSync = away.s.needsSync /\ vs.path = away.s.path
    <3> HIDE DEF picked
    <3> QED
      BY <1>14, <1>15, <1>18 DEF StateSet
  <2> HIDE DEF vs
  <2> QED
    BY <1>11, <2>1 DEF Elsewhere, Same
<1> HIDE DEF vs, picked
<1>20. /\ \A c \in Rows(vs) : c \in Rows(w.s) /\ c.id # i
       /\ \A c \in Rows(w.s) : c.id # i => c \in Rows(vs)
  <2>1. \A j \in 1..(N - 1) : \E m \in 1..N : m # k0 /\ left[j] = w.s.buses[m]
    <3> TAKE j \in 1..(N - 1)
    <3>1. j \in 1..N /\ j + 1 \in 1..N /\ (j < k0 => j # k0) /\ (~(j < k0) => j + 1 # k0)
      BY <1>1, <1>13
    <3> QED
      BY <1>17, <3>1
  <2>2. \A m \in 1..N : m # k0 => \E j \in 1..(N - 1) : left[j] = w.s.buses[m]
    <3> SUFFICES ASSUME NEW m \in 1..N, m # k0
                 PROVE  \E j \in 1..(N - 1) : left[j] = w.s.buses[m]
      OBVIOUS
    <3>1. CASE m < k0
      <4>1. m \in 1..(N - 1)
        BY <1>1, <1>13, <3>1
      <4> QED
        BY <1>17, <3>1, <4>1
    <3>2. CASE k0 < m
      <4>1. m - 1 \in 1..(N - 1) /\ ~(m - 1 < k0) /\ (m - 1) + 1 = m
        BY <1>1, <1>13, <3>2
      <4> QED
        BY <1>17, <4>1
    <3> QED
      BY <1>1, <1>13, <3>1, <3>2
  <2>3. DOMAIN w.s.buses = 1..N /\ DOMAIN vs.buses = 1..(N - 1) /\ vs.buses = left
    BY <1>1, <1>18, <1>19 DEF N
  <2>4. ASSUME NEW c \in Rows(vs)
        PROVE  c \in Rows(w.s) /\ c.id # i
    <3>1. PICK j \in 1..(N - 1) : c = left[j]
      BY <2>3 DEF Rows
    <3>2. PICK m \in 1..N : m # k0 /\ left[j] = w.s.buses[m]
      BY <2>1
    <3> QED
      BY <1>16, <2>3, <3>1, <3>2 DEF Rows
  <2>5. ASSUME NEW c \in Rows(w.s), c.id # i
        PROVE  c \in Rows(vs)
    <3>1. PICK m \in 1..N : c = w.s.buses[m]
      BY <2>3 DEF Rows
    <3>2. m # k0
      BY <1>13, <2>5, <3>1
    <3>3. PICK j \in 1..(N - 1) : left[j] = w.s.buses[m]
      BY <2>2, <3>2
    <3> QED
      BY <2>3, <3>1, <3>3 DEF Rows
  <2> QED
    BY <2>4, <2>5
<1>21. Distinct(vs)
  <2>1. ASSUME NEW j \in 1..(N - 1), NEW m \in 1..(N - 1), j # m
        PROVE  left[j].id # left[m].id
    <3> DEFINE at(x) == IF x < k0 THEN x ELSE x + 1
    <3>1. at(j) \in 1..N /\ at(m) \in 1..N /\ at(j) # at(m)
      BY <1>1, <1>13, <2>1
    <3>2. left[j] = w.s.buses[at(j)] /\ left[m] = w.s.buses[at(m)]
      BY <1>17
    <3> HIDE DEF at
    <3> QED
      BY <1>1, <3>1, <3>2 DEF Distinct, N
  <2>2. \A c \in Rows(vs) : c.id < vs.nextId
    BY <1>1, <1>19, <1>20 DEF Distinct
  <2>3. vs.selected \in {c.id : c \in Rows(vs)} \cup {0}
    BY <1>18, <1>19 DEF Rows
  <2> QED
    BY <1>18, <1>19, <2>1, <2>2, <2>3 DEF Distinct
<1>22. /\ away.d \in [BusNames -> BusSet]
       /\ \A n \in BusNames : n # b.name =>
             away.d[n] = IF w.d[n].sub = i THEN [w.d[n] EXCEPT !.sub = 0] ELSE w.d[n]
       /\ Part(i, y, away.d[b.name]) /\ away.d[b.name].sub # i
  BY <1>2, <1>6, <1>9, <1>10 DEF cut
<1> DEFINE x == LetGo(away.d[b.name], i)
<1>23. x \in BusSet /\ Remains(i, y, x)
  <2>1. i \in Nat /\ y \in BusSet
    BY <1>1 DEF y
  <2>2. /\ Part(i, y, x) /\ x.sub = away.d[b.name].sub
        /\ i \in x.users => 0 \in x.users
    <3>1. PICK a : a = away.d[b.name]
      OBVIOUS
    <3>2. /\ Part(i, y, LetGo(a, i)) /\ LetGo(a, i).sub = a.sub
          /\ i \in LetGo(a, i).users => 0 \in LetGo(a, i).users
      <4>1. PICK m : m = i
        OBVIOUS
      <4>2. m \in Nat /\ Part(m, y, a) /\ y \in BusSet
        BY <1>22, <2>1, <3>1, <4>1
      <4>3. PartStill(m, y, a, LetGo(a, m)) /\ (m \in LetGo(a, m).users => 0 \in LetGo(a, m).users)
        BY <4>2, PartLetsGo
      <4> QED
        BY <4>1, <4>3 DEF PartStill
    <3> QED
      BY <3>1, <3>2
  <2> HIDE DEF x
  <2> QED
    BY <1>22, <2>2 DEF Part, Remains
<1>24. /\ vd \in [BusNames -> BusSet]
       /\ \A n \in BusNames : n # b.name => vd[n] = away.d[n]
       /\ vd[b.name] = NoBus \/ Remains(i, y, vd[b.name])
  <2>1. NoBus \in BusSet /\ b.name \in BusNames /\ away.d \in [BusNames -> BusSet]
    BY <1>1, <1>22 DEF NoBus, BusSet
  <2>2. CASE told
    <3>1. vd = [away.d EXCEPT ![b.name] = NoBus]
      BY <2>2
    <3> HIDE DEF vd
    <3> QED
      BY <2>1, <3>1
  <2>3. CASE ~told
    <3>1. [s |-> w.s, d |-> away.d] \in Worlds
      BY <1>1, <2>1 DEF Worlds
    <3>2. Forgotten(away.d, b) = [away.d EXCEPT ![b.name] = x]
      <4>1. PICK u : u = [s |-> w.s, d |-> away.d]
        OBVIOUS
      <4>2. u \in Worlds /\ u.d = away.d
        BY <3>1, <4>1
      <4>3. Forgotten(u.d, b) = [u.d EXCEPT ![b.name] = LetGo(u.d[b.name], b.id)]
        BY <2>1, <4>2, ForgottenIs
      <4> QED
        BY <4>2, <4>3
    <3>3. vd = [away.d EXCEPT ![b.name] = x]
      BY <2>3, <3>2
    <3> HIDE DEF vd, x
    <3> QED
      BY <1>23, <2>1, <3>3
  <2> QED
    BY <2>2, <2>3
<1> HIDE DEF vd
<1>25. v \in Worlds /\ v.s = vs /\ v.d = vd
  BY <1>12, <1>19, <1>24 DEF Worlds
<1> QED
  BY <1>15, <1>19, <1>20, <1>21, <1>22, <1>24, <1>25 DEF v, N, y, Deleted

LEMMA DeleteKeeps ==
  ASSUME NEW w, Good(w), NEW b \in Rows(w.s), NEW lost
  PROVE  Good(DeleteBus(w, b.id, lost))
<1> DEFINE v == DeleteBus(w, b.id, lost)
<1>1. /\ v \in Worlds /\ Distinct(v.s)
      /\ \A c \in Rows(v.s) : c \in Rows(w.s) /\ c.id # b.id
      /\ \A c \in Rows(w.s) : c.id # b.id => c \in Rows(v.s)
      /\ \A n \in BusNames : n # b.name =>
           v.d[n] = IF w.d[n].sub = b.id THEN [w.d[n] EXCEPT !.sub = 0] ELSE w.d[n]
      /\ v.d[b.name] = NoBus \/ Remains(b.id, w.d[b.name], v.d[b.name])
  <2>1. Deleted(w, b, v)
    BY DeleteBusIs
  <2> HIDE DEF v
  <2> QED
    BY <2>1 DEF Deleted
<1>2. /\ w.d \in [BusNames -> BusSet] /\ b.id \in Nat \ {0}
      /\ \A c \in Rows(w.s) : c.id = b.id => c = b
  BY RowAt, WorldParts DEF Good, Sound
<1> HIDE DEF v
<1>3. \A c \in Rows(v.s) : RowOk(c)
  BY <1>1 DEF Good, Sound
<1>4. ASSUME NEW n \in BusNames
      PROVE  Agrees(v.s, n, v.d[n])
  <2> DEFINE y == w.d[n]
             x == v.d[n]
  <2>1. Agrees(w.s, n, y) /\ y \in BusSet
    BY <1>2 DEF Good, Sound
  <2>2. CASE n = b.name
    <3>1. CASE x = NoBus
      BY <3>1 DEF Agrees, NoBus
    <3>2. CASE x # NoBus
      <4>1. Remains(b.id, y, x) /\ \A c \in Rows(v.s) : c \in Rows(w.s) /\ c.id # b.id /\ c.id # 0
        BY <1>1, <2>2, <3>2, WorldParts DEF RowSet, Good, Sound
      <4> HIDE DEF x, y
      <4>2. x.live => up /\ x.users # {}
        BY <2>1, <4>1 DEF Agrees, Remains
      <4>3. x.live /\ 0 \notin x.users =>
              \A i \in x.users : \E c \in Rows(v.s) : c.id = i /\ c.name = n
        BY <1>1, <2>1, <4>1 DEF Agrees, Remains
      <4>4. \A c \in Rows(v.s) : x.live /\ c.name = n /\ x.users = {c.id} => Shows(c, x)
        BY <2>1, <4>1 DEF Agrees, Shows, Remains
      <4>5. x.sub # 0 => \E c \in Rows(v.s) : c.id = x.sub /\ c.sub
        BY <1>1, <2>1, <4>1 DEF Agrees, Remains
      <4>6. ~x.live => x = NoBus
        BY <4>1 DEF Remains
      <4> QED
        BY <4>2, <4>3, <4>4, <4>5, <4>6 DEF Agrees, x
    <3> QED
      BY <3>1, <3>2
  <2>3. CASE n # b.name
    <3>1. x = IF y.sub = b.id THEN [y EXCEPT !.sub = 0] ELSE y
      BY <1>1, <2>3
    <3>2. /\ x.live = y.live /\ x.users = y.users /\ x.rec = y.rec /\ x.cap = y.cap /\ x.fwd = y.fwd
          /\ x.sub # 0 => x.sub = y.sub /\ x.sub # b.id
      BY <1>2, <2>1, <3>1 DEF BusSet
    <3>3. ~x.live => x = NoBus
      <4>1. y = NoBus => x = NoBus
        BY <1>2, <3>1 DEF NoBus
      <4> QED
        BY <2>1, <3>2, <4>1 DEF Agrees
    <3> HIDE DEF x, y
    <3>4. x.live => up /\ x.users # {}
      BY <2>1, <3>2 DEF Agrees
    <3>5. x.live /\ 0 \notin x.users =>
            \A i \in x.users : \E c \in Rows(v.s) : c.id = i /\ c.name = n
      BY <1>1, <1>2, <2>1, <2>3, <3>2 DEF Agrees
    <3>6. \A c \in Rows(v.s) : x.live /\ c.name = n /\ x.users = {c.id} => Shows(c, x)
      BY <1>1, <2>1, <3>2 DEF Agrees, Shows
    <3>7. x.sub # 0 => \E c \in Rows(v.s) : c.id = x.sub /\ c.sub
      BY <1>1, <2>1, <3>2 DEF Agrees
    <3> QED
      BY <3>3, <3>4, <3>5, <3>6, <3>7 DEF Agrees, x
  <2> QED
    BY <2>2, <2>3
<1>5. Good(v)
  BY <1>1, <1>3, <1>4 DEF Good, Sound
<1> QED
  BY <1>5 DEF v

\* What deleting and loading leave alone.
Kind(w, v) ==
    /\ v.s.nextId = w.s.nextId /\ v.s.connected = w.s.connected
    /\ v.s.needsSync = w.s.needsSync /\ v.s.path = w.s.path

LEMMA FirstIs ==
  ASSUME NEW w, w \in Worlds, w.s.buses # <<>>
  PROVE  \E b \in Rows(w.s) : First(w.s) = b.id
<1>1. /\ w.s.buses \in Seq(RowSet) /\ DOMAIN w.s.buses = 1..Len(w.s.buses) /\ Len(w.s.buses) \in Nat
  BY WorldParts
<1>2. 1 \in DOMAIN w.s.buses /\ Head(w.s.buses) = w.s.buses[1]
  BY <1>1, EmptySeq
<1> QED
  BY <1>2 DEF First, Rows

\* All rows are deleted, and with them all they had in the daemon.
LEMMA DeleteAllKeeps ==
  ASSUME NEW w, Good(w), NEW lost
  PROVE  LET v == DeleteAll(w, lost) IN Good(v) /\ Kind(w, v) /\ v.s.buses = <<>>
<1> DEFINE n == Len(w.s.buses)
           turn(x) == DeleteBus(x, First(x.s), lost)
           once(x) == CHOOSE v \in {turn(a) : a \in {x}} : TRUE
           h == [k \in 1..n |-> [x \in Worlds |-> turn(x)]]
           B == [k \in 0..n |-> {x \in Worlds : Good(x) /\ Kind(w, x) /\ Len(x.s.buses) = n - k}]
           Runs2(f) == f = [k \in 0..n |-> IF k = 0 THEN w ELSE once(f[k - 1])]
           g == CHOOSE f : Runs2(f)
<1>1. w \in Worlds /\ n \in Nat
  BY WorldParts DEF Good, Sound
<1>2. w \in B[0]
  BY <1>1 DEF Kind
<1>3. ASSUME NEW k \in 1..n, NEW x \in B[k - 1]
      PROVE  turn(x) \in B[k]
  <2>1. k - 1 \in 0..n /\ k \in 0..n
    BY <1>1
  <2>2. x \in Worlds /\ Good(x) /\ Kind(w, x) /\ Len(x.s.buses) = n - (k - 1)
    BY <1>3, <2>1
  <2>3. x.s.buses # <<>>
    BY <1>1, <2>2
  <2>4. PICK b \in Rows(x.s) : First(x.s) = b.id
    BY <2>2, <2>3, FirstIs
  <2>5. LET v == DeleteBus(x, b.id, lost)
        IN  /\ Good(v) /\ v \in Worlds /\ Kind(x, v)
            /\ Len(v.s.buses) = Len(x.s.buses) - 1
    <3>1. PICK v : v = DeleteBus(x, b.id, lost)
      OBVIOUS
    <3>2. Good(v) /\ Deleted(x, b, v)
      BY <2>2, <3>1, DeleteBusIs, DeleteKeeps
    <3> QED
      BY <3>1, <3>2 DEF Kind, Deleted
  <2>6. Len(x.s.buses) - 1 = n - k
    BY <1>1, <2>2
  <2> QED
    BY <2>1, <2>2, <2>4, <2>5, <2>6 DEF Kind
<1>4. ASSUME NEW k \in 1..n, NEW x \in B[k - 1]
      PROVE  h[k][x] \in B[k] /\ h[k][x] = turn(x)
  <2>1. k - 1 \in 0..n
    BY <1>1
  <2>2. x \in Worlds
    BY <2>1
  <2>3. turn(x) \in B[k]
    BY <1>3
  <2> QED
    BY <2>2, <2>3
<1>5. \A k \in 0..n : \A x \in B[k] : Good(x) /\ Kind(w, x) /\ Len(x.s.buses) = n - k /\ x \in Worlds
  OBVIOUS
<1>0. \A x : once(x) = turn(x)
  <2> HIDE DEF turn
  <2> QED
    OBVIOUS
<1> HIDE DEF n, turn, once, h, B
<1>6. PICK f : Runs(f, n, w, h) /\ \A k \in 0..n : f[k] \in B[k]
  BY <1>1, <1>2, <1>4, Looping
<1>7. Runs2(f)
  <2>1. \A k \in 0..n : k # 0 => k - 1 \in 0..n /\ k \in 1..n
    BY <1>1
  <2>2. \A k \in 0..n : k # 0 => h[k][f[k - 1]] = turn(f[k - 1])
    BY <1>4, <1>6, <2>1
  <2> QED
    BY <1>0, <1>6, <2>2 DEF Runs
<1>8. Runs2(g)
  BY <1>7
<1>9. DeleteAll(w, lost) = g[n]
  BY DEF DeleteAll, Loop, n, turn, once
<1> HIDE DEF g
<1>10. g[0] = w /\ \A k \in 1..n : g[k] = turn(g[k - 1])
  BY <1>0, <1>1, <1>8
<1>11. \A k \in 0..n : g[k] \in B[k]
  <2>1. \A k \in 1..n : g[k - 1] \in B[k - 1] => g[k] \in B[k]
    BY <1>4, <1>10
  <2>2. g[0] \in B[0]
    BY <1>2, <1>10
  <2> QED
    BY <1>1, <2>1, <2>2, Stays
<1>12. Good(g[n]) /\ Kind(w, g[n]) /\ Len(g[n].s.buses) = 0 /\ g[n] \in Worlds
  BY <1>1, <1>5, <1>11
<1>13. g[n].s.buses = <<>>
  BY <1>12, WorldParts, EmptySeq
<1> QED
  BY <1>9, <1>12, <1>13

-----------------------------------------------------------------------------
(* Operations on one row.                                                    *)

\* A row changes, in nothing the daemon could contradict.
LEMMA RowOnly ==
  ASSUME NEW w, Good(w), NEW b \in Rows(w.s), NEW row \in RowSet, Relabels(b, row),
         Labels(b, row, "live", TRUE)
  PROVE  LET v == SetRow(w, row)
         IN  Good(v) /\ Same(w.s, v.s) /\ Replaced(w, v, b, row)
<1> DEFINE y == w.d[b.name]
<1>1. /\ w \in Worlds /\ b.name \in BusNames /\ b.id \in Nat \ {0}
      /\ w.d \in [BusNames -> BusSet] /\ y \in BusSet /\ w = [s |-> w.s, d |-> w.d]
  BY RowAt, WorldParts DEF Good, Sound
<1>2. Agrees(w.s, b.name, y)
  BY <1>1 DEF Good, Sound
<1>3. y.live /\ y.users = {b.id} => Shows(row, y)
  BY <1>1, <1>2 DEF Agrees, Shows, Labels
<1>4. Tells(b, row, y, y)
  BY <1>2, <1>3 DEF Tells, Relabels, Agrees
<1>5. [w EXCEPT !.d = [@ EXCEPT ![b.name] = y]] = w
  BY <1>1
<1> HIDE DEF y
<1>6. Tells(b, row, w.d[b.name], y)
  BY <1>4 DEF y
<1>7. LET v == SetRow([w EXCEPT !.d = [@ EXCEPT ![b.name] = y]], row)
      IN  Good(v) /\ Same(w.s, v.s) /\ Replaced(w, v, b, row)
  BY <1>1, <1>6, RowChange
<1> QED
  BY <1>5, <1>7

\* A row lets go of what it had, and the daemon is not told.
LEMMA ForgetKeeps ==
  ASSUME NEW w, Good(w), NEW b \in Rows(w.s), NEW row \in RowSet, Relabels(b, row)
  PROVE  LET v == SetRow([w EXCEPT !.d = Forgotten(@, b)], row)
         IN  Good(v) /\ Same(w.s, v.s) /\ Replaced(w, v, b, row)
<1> DEFINE y == w.d[b.name]
<1>1. /\ w \in Worlds /\ b.name \in BusNames /\ b.id \in Nat \ {0}
      /\ w.d \in [BusNames -> BusSet] /\ y \in BusSet
  BY RowAt, WorldParts DEF Good, Sound
<1>2. PICK x \in BusSet : x = LetGo(y, b.id)
  BY <1>1, LetGoIs
<1>3. /\ x.live = y.live /\ x.sub = y.sub /\ x.rec = y.rec /\ x.fwd = y.fwd /\ x.cap = y.cap
      /\ x.users = IF b.id \in y.users THEN y.users \cup {0} ELSE y.users
  BY <1>1, <1>2, LetGoIs
<1>4. ~x.live => x = NoBus
  <2>1. Agrees(w.s, b.name, y)
    BY <1>1 DEF Good, Sound
  <2>2. b.id \notin y.users => x = y
    BY <1>2 DEF LetGo
  <2> QED
    BY <1>3, <2>1, <2>2 DEF Agrees, NoBus
<1>5. Tells(b, row, y, x)
  BY <1>1, <1>3, <1>4 DEF Tells, Relabels
<1>6. [w EXCEPT !.d = Forgotten(@, b)] = [w EXCEPT !.d = [@ EXCEPT ![b.name] = x]]
  BY <1>1, <1>2, ForgottenIs
<1> HIDE DEF y
<1>7. Tells(b, row, w.d[b.name], x)
  BY <1>5 DEF y
<1>8. LET v == SetRow([w EXCEPT !.d = [@ EXCEPT ![b.name] = x]], row)
      IN  Good(v) /\ Same(w.s, v.s) /\ Replaced(w, v, b, row)
  BY <1>7, RowChange
<1> QED
  BY <1>6, <1>8

LEMMA StopRecordKeeps ==
  ASSUME NEW w, Good(w), NEW b \in Rows(w.s), NEW lost, w.s.connected
  PROVE  LET v == StopRecord(w, b.id, lost)
         IN  Good(v) /\ Same(w.s, v.s) /\ \E c \in Rows(v.s) : c.id = b.id
<1>1. RowOf(w.s, b.id) = b /\ b \in RowSet
  BY RowAt
<1>2. PICK row : row = [b EXCEPT !.rec = FALSE]
  OBVIOUS
<1>3. StopRecord(w, b.id, lost) = SetRow([w EXCEPT !.d = Command(@, b, "stoprec", "rec", FALSE, lost)], row)
  BY <1>1, <1>2 DEF StopRecord
<1>4. row \in RowSet /\ Relabels(b, row) /\ Labels(b, row, "rec", FALSE) /\ row.id = b.id
  BY <1>1, <1>2 DEF RowSet, Relabels, Labels
<1>5. Follows(b, row, "stoprec", "rec", FALSE, lost)
  BY <1>4 DEF Follows, Looked
<1>6. Telling(w, b, row, "stoprec", "rec", FALSE, lost)
  BY <1>4, <1>5, TellKeeps
<1> QED
  BY <1>3, <1>4, <1>6 DEF Telling, Replaced

LEMMA StartForwardKeeps ==
  ASSUME NEW w, Good(w), NEW b \in Rows(w.s), ~b.fwd, w.s.connected, NEW ok \in BOOLEAN, NEW lost
  PROVE  LET v == StartForward(w, b.id, ok, lost)
         IN  Good(v) /\ Same(w.s, v.s) /\ \E c \in Rows(v.s) : c.id = b.id
<1> DEFINE done == ok /\ w.d[b.name].live /\ Heard(lost, b.id, "forward-udp")
<1>1. /\ RowOf(w.s, b.id) = b /\ b \in RowSet /\ b.name \in BusNames
      /\ w.d[b.name].live \in BOOLEAN
  BY RowAt, WorldParts DEF BusSet, Good, Sound
<1>2. PICK row : row = [b EXCEPT !.fwd = done]
  OBVIOUS
<1>3. StartForward(w, b.id, ok, lost) = SetRow([w EXCEPT !.d = Command(@, b, "forward-udp", "fwd", ok, lost)], row)
  BY <1>1, <1>2 DEF StartForward
<1>4. /\ row \in RowSet /\ Relabels(b, row) /\ row.fwd = done /\ row.rec = b.rec
      /\ row.iface = b.iface /\ row.id = b.id
  <2>1. done \in BOOLEAN
    OBVIOUS
  <2> HIDE DEF done
  <2> QED
    BY <1>1, <1>2, <2>1 DEF RowSet, Relabels
<1>5. w.d[b.name].live => Follows(b, row, "forward-udp", "fwd", ok, lost)
  BY <1>1, <1>4 DEF Follows, Labels, RowSet
<1>6. Telling(w, b, row, "forward-udp", "fwd", ok, lost)
  BY <1>4, <1>5, TellKeeps
<1> QED
  BY <1>3, <1>4, <1>6 DEF Telling, Replaced

LEMMA DetachKeeps ==
  ASSUME NEW w, Good(w), NEW b \in Rows(w.s), NEW lost
  PROVE  LET v == DetachIface(w, b.id, lost)
         IN  /\ Good(v) /\ Same(w.s, v.s) /\ Replaced(w, v, b, [b EXCEPT !.iface = "none"])
<1>1. RowOf(w.s, b.id) = b /\ b \in RowSet /\ w = [s |-> w.s, d |-> w.d]
  BY RowAt, WorldParts DEF Good, Sound
<1>2. PICK row : row = [b EXCEPT !.iface = "none"]
  OBVIOUS
<1>3. row \in RowSet /\ Relabels(b, row) /\ row.fwd = b.fwd /\ row.rec = b.rec /\ row.iface = "none"
  BY <1>1, <1>2 DEF RowSet, Relabels
<1>4. CASE b.iface = "net" /\ w.s.connected
  <2>1. DetachIface(w, b.id, lost) = SetRow([w EXCEPT !.d = Command(@, b, "stop-capture", "cap", FALSE, lost)], row)
    BY <1>1, <1>2, <1>4 DEF DetachIface
  <2>2. Follows(b, row, "stop-capture", "cap", FALSE, lost)
    BY <1>1, <1>3 DEF Follows, Looked, Labels, RowSet
  <2>3. Telling(w, b, row, "stop-capture", "cap", FALSE, lost)
    BY <1>3, <2>2, TellKeeps
  <2> QED
    BY <1>2, <2>1, <2>3 DEF Telling
<1>5. CASE b.iface = "net" /\ ~w.s.connected
  <2>1. DetachIface(w, b.id, lost) = SetRow([w EXCEPT !.d = Forgotten(@, b)], row)
    BY <1>1, <1>2, <1>5 DEF DetachIface
  <2>2. LET v == SetRow([w EXCEPT !.d = Forgotten(@, b)], row)
        IN  Good(v) /\ Same(w.s, v.s) /\ Replaced(w, v, b, row)
    BY <1>3, ForgetKeeps
  <2> QED
    BY <1>2, <2>1, <2>2
<1>6. CASE b.iface # "net"
  <2>1. DetachIface(w, b.id, lost) = SetRow(w, row)
    BY <1>1, <1>2, <1>6 DEF DetachIface
  <2>2. Labels(b, row, "live", TRUE)
    BY <1>3, <1>6 DEF Labels
  <2>3. LET v == SetRow(w, row)
        IN  Good(v) /\ Same(w.s, v.s) /\ Replaced(w, v, b, row)
    BY <1>3, <2>2, RowOnly
  <2> QED
    BY <1>2, <2>1, <2>3
<1> QED
  BY <1>4, <1>5, <1>6

\* Any row can be selected.
LEMMA SelectKeeps ==
  ASSUME NEW w, Good(w), NEW b, \E c \in Rows(w.s) : c.id = b.id
  PROVE  LET v == Selecting(b, w)
         IN  Good(v) /\ Kind(w, v) /\ v.s.buses = w.s.buses /\ Rows(v.s) = Rows(w.s) /\ v.d = w.d
<1> DEFINE t == [w.s EXCEPT !.selected = b.id]
           v == Selecting(b, w)
<1>1. w \in Worlds /\ w.s \in StateSet /\ w = [s |-> w.s, d |-> w.d] /\ w.d \in [BusNames -> BusSet]
  BY WorldParts DEF Good, Sound
<1>2. b.id \in Nat
  BY RowAt
<1>3. v = [s |-> t, d |-> w.d]
  BY <1>1 DEF Selecting
<1>4. /\ t \in StateSet /\ t.buses = w.s.buses /\ t.selected = b.id /\ t.nextId = w.s.nextId
      /\ t.connected = w.s.connected /\ t.needsSync = w.s.needsSync /\ t.path = w.s.path
  BY <1>1, <1>2 DEF StateSet
<1> HIDE DEF t, v
<1>5. v \in Worlds /\ v.s = t /\ v.d = w.d
  BY <1>1, <1>3, <1>4 DEF Worlds
<1>6. Good(v) /\ Rows(v.s) = Rows(w.s)
  BY <1>4, <1>5, RestChanges
<1> QED
  BY <1>4, <1>5, <1>6 DEF Kind, v

-----------------------------------------------------------------------------
(* Operations on every row.                                                  *)

\* The rows of v are those of w but for their subscriptions.
SubOnly(b, c) ==
    /\ c.id = b.id /\ c.name = b.name /\ c.file = b.file
    /\ c.rec = b.rec /\ c.fwd = b.fwd /\ c.iface = b.iface /\ c.filters = b.filters
SameRows(w, v) ==
    /\ Len(v.s.buses) = Len(w.s.buses)
    /\ \A k \in 1..Len(w.s.buses) : SubOnly(w.s.buses[k], v.s.buses[k])

LEMMA SyncTurn ==
  ASSUME NEW w, Good(w), NEW b \in Rows(w.s), Untouched(b), NEW ack \in BOOLEAN, NEW lost
  PROVE  LET made == [w EXCEPT !.d = Create(@, b.name, b.id, lost)]
             v == IF b.sub THEN made ELSE SubscribeFrames(made, b.id, ack, lost)
         IN  Good(v) /\ Kind(w, v) /\ SameRows(w, v)
<1> DEFINE made == [w EXCEPT !.d = Create(@, b.name, b.id, lost)]
<1>1. Good(made) /\ made.s = w.s
  BY CreateKeeps
<1> HIDE DEF made
<1>2. SameRows(w, made) /\ Kind(w, made)
  BY <1>1 DEF SameRows, SubOnly, Kind
<1>3. CASE b.sub
  BY <1>1, <1>2, <1>3 DEF made
<1>4. CASE ~b.sub
  <2> DEFINE v == SubscribeFrames(made, b.id, ack, lost)
  <2>1. /\ Good(v) /\ Same(made.s, v.s)
        /\ \A k \in 1..Len(made.s.buses) :
             \/ v.s.buses[k] = made.s.buses[k]
             \/ v.s.buses[k] = [made.s.buses[k] EXCEPT !.sub = ack]
    <3>1. Subscribed(made, v, ack)
      BY <1>1, <1>4, SubscribeKeeps
    <3> HIDE DEF v
    <3> QED
      BY <3>1 DEF Subscribed
  <2> HIDE DEF v
  <2>2. Kind(w, v)
    BY <1>1, <2>1 DEF Kind, Same
  <2>3. SameRows(w, v)
    <3>1. \A k \in 1..Len(w.s.buses) : w.s.buses[k] \in RowSet
      BY WorldParts DEF Good, Sound
    <3>2. \A k \in 1..Len(w.s.buses) : SubOnly(w.s.buses[k], v.s.buses[k])
      <4> TAKE k \in 1..Len(w.s.buses)
      <4>1. PICK e : e = w.s.buses[k]
        OBVIOUS
      <4>2. e \in RowSet /\ (v.s.buses[k] = e \/ v.s.buses[k] = [e EXCEPT !.sub = ack])
        BY <1>1, <2>1, <3>1, <4>1
      <4>3. SubOnly(e, v.s.buses[k])
        BY <4>2 DEF SubOnly, RowSet
      <4> QED
        BY <4>1, <4>3
    <3> QED
      BY <1>1, <2>1, <3>2 DEF SameRows, Same
  <2> QED
    BY <1>4, <2>1, <2>2, <2>3 DEF v, made
<1> QED
  BY <1>3, <1>4

LEMMA SameRowsUntouched ==
  ASSUME NEW w, w \in Worlds, NEW v, v \in Worlds, SameRows(w, v), \A b \in Rows(w.s) : Untouched(b)
  PROVE  /\ \A b \in Rows(v.s) : Untouched(b)
         /\ Kept(v.s) = Kept(w.s)
<1>1. DOMAIN w.s.buses = 1..Len(w.s.buses) /\ DOMAIN v.s.buses = 1..Len(w.s.buses)
  BY WorldParts DEF SameRows
<1>2. \A b \in Rows(v.s) : Untouched(b)
  BY <1>1 DEF SameRows, SubOnly, Untouched, Rows
<1>3. Kept(v.s) = Kept(w.s)
  BY <1>1 DEF SameRows, SubOnly, Kept
<1> QED
  BY <1>2, <1>3

\* needsSync is set, and with it what is known of the sync.
Flagged(w, v, to) ==
    /\ Good(v) /\ v.s.buses = w.s.buses /\ v.s.nextId = w.s.nextId
    /\ v.s.connected = w.s.connected /\ v.s.path = w.s.path /\ v.s.needsSync = to

LEMMA NeedsSyncSet ==
  ASSUME NEW w, Good(w), NEW to \in BOOLEAN, NEW m \in BOOLEAN
  PROVE  Flagged(w, [w EXCEPT !.s.needsSync = to, !.s.missed = m], to)
<1> DEFINE t == [w.s EXCEPT !.needsSync = to, !.missed = m]
           v == [w EXCEPT !.s.needsSync = to, !.s.missed = m]
<1>1. w \in Worlds /\ w.s \in StateSet /\ w = [s |-> w.s, d |-> w.d] /\ w.d \in [BusNames -> BusSet]
  BY WorldParts DEF Good, Sound
<1>2. v = [s |-> t, d |-> w.d]
  <2>1. PICK a : a = w.s
    OBVIOUS
  <2>2. PICK b : b = w.d
    OBVIOUS
  <2>3. w = [s |-> a, d |-> b]
    BY <1>1, <2>1, <2>2
  <2>4. [w EXCEPT !.s.needsSync = to] = [s |-> [a EXCEPT !.needsSync = to], d |-> b]
    BY <2>3
  <2>5. PICK c : c = [a EXCEPT !.needsSync = to]
    OBVIOUS
  <2>6. PICK u : u = [s |-> c, d |-> b]
    OBVIOUS
  <2>7. v = [u EXCEPT !.s.missed = m]
    BY <2>4, <2>5, <2>6
  <2>8. [u EXCEPT !.s.missed = m] = [s |-> [c EXCEPT !.missed = m], d |-> b]
    BY <2>6
  <2>9. t = [c EXCEPT !.missed = m]
    BY <2>1, <2>5
  <2> QED
    BY <2>2, <2>7, <2>8, <2>9
<1>3. /\ t \in StateSet /\ t.buses = w.s.buses /\ t.selected = w.s.selected /\ t.nextId = w.s.nextId
      /\ t.connected = w.s.connected /\ t.needsSync = to /\ t.path = w.s.path
  BY <1>1 DEF StateSet
<1> HIDE DEF t, v
<1>4. v \in Worlds /\ v.s = t /\ v.d = w.d
  BY <1>1, <1>2, <1>3 DEF Worlds
<1>5. Good(v)
  BY <1>3, <1>4, RestChanges DEF Good, Sound, Distinct
<1> QED
  BY <1>3, <1>4, <1>5 DEF v, Flagged

\* The list is shown to a daemon that the window has just found.
LEMMA SyncKeeps ==
  ASSUME NEW w, Good(w), w.s.connected, \A b \in Rows(w.s) : Untouched(b), NEW ack \in BOOLEAN, NEW lost
  PROVE  LET v == SyncBusesToDaemon(w, ack, lost)
         IN  /\ Good(v) /\ SameRows(w, v) /\ v.s.nextId = w.s.nextId
             /\ v.s.connected = w.s.connected /\ v.s.path = w.s.path /\ v.s.needsSync = FALSE
<1> DEFINE n == Len(w.s.buses)
           made(a, b) == [a EXCEPT !.d = Create(@, b.name, b.id, lost)]
           turn(x, k) == IF x.s.buses[k].sub THEN made(x, x.s.buses[k])
                         ELSE SubscribeFrames(made(x, x.s.buses[k]), x.s.buses[k].id, ack, lost)
           once(x, k) == CHOOSE v \in {turn(a, k) : a \in {x}} : TRUE
           h == [k \in 1..n |-> [x \in Worlds |-> turn(x, k)]]
           B == [k \in 0..n |-> {x \in Worlds : Good(x) /\ Kind(w, x) /\ SameRows(w, x)}]
           Runs2(f) == f = [k \in 0..n |-> IF k = 0 THEN w ELSE once(f[k - 1], k)]
           g == CHOOSE f : Runs2(f)
<1>1. w \in Worlds /\ n \in Nat
  BY WorldParts DEF Good, Sound
<1>2. w \in B[0]
  <2>1. Kind(w, w) /\ SameRows(w, w)
    BY DEF Kind, SameRows, SubOnly
  <2>2. 0 \in 0..n
    BY <1>1
  <2> HIDE DEF n
  <2> QED
    BY <1>1, <2>1, <2>2
<1>3. ASSUME NEW k \in 1..n, NEW x \in Worlds, Good(x), Kind(w, x), SameRows(w, x)
      PROVE  Good(turn(x, k)) /\ Kind(w, turn(x, k)) /\ SameRows(w, turn(x, k))
  <2>1. PICK b : b = x.s.buses[k]
    OBVIOUS
  <2>2. b \in Rows(x.s) /\ Untouched(b)
    <3>1. DOMAIN x.s.buses = 1..n
      BY <1>3, WorldParts DEF SameRows
    <3> QED
      BY <1>1, <1>3, <2>1, <3>1, SameRowsUntouched DEF Rows
  <2>4. LET v == IF b.sub THEN made(x, b) ELSE SubscribeFrames(made(x, b), b.id, ack, lost)
        IN  Good(v) /\ Kind(x, v) /\ SameRows(x, v)
    BY <1>3, <2>2, SyncTurn
  <2>5. Good(turn(x, k)) /\ Kind(x, turn(x, k)) /\ SameRows(x, turn(x, k))
    BY <2>1, <2>4
  <2> HIDE DEF turn
  <2> QED
    BY <1>3, <2>5 DEF Kind, SameRows, SubOnly
<1>4. ASSUME NEW k \in 1..n, NEW x \in B[k - 1]
      PROVE  h[k][x] \in B[k] /\ h[k][x] = turn(x, k)
  <2>1. k - 1 \in 0..n /\ k \in 0..n
    BY <1>1
  <2>2. x \in Worlds /\ Good(x) /\ Kind(w, x) /\ SameRows(w, x)
    BY <2>1
  <2>3. h[k][x] = turn(x, k)
    BY <2>2
  <2> HIDE DEF turn, h
  <2>4. turn(x, k) \in B[k]
    BY <1>3, <2>1, <2>2 DEF Good, Sound
  <2> QED
    BY <2>3, <2>4
<1>5. \A k \in 0..n : \A x \in B[k] : Good(x) /\ Kind(w, x) /\ SameRows(w, x)
  OBVIOUS
<1>0. \A x, k : once(x, k) = turn(x, k)
  <2> HIDE DEF turn
  <2> QED
    OBVIOUS
<1> HIDE DEF n, turn, once, h, B
<1>6. PICK f : Runs(f, n, w, h) /\ \A k \in 0..n : f[k] \in B[k]
  BY <1>1, <1>2, <1>4, Looping
<1>7. Runs2(f)
  <2>1. \A k \in 0..n : k # 0 => k - 1 \in 0..n /\ k \in 1..n
    BY <1>1
  <2>2. \A k \in 0..n : k # 0 => h[k][f[k - 1]] = turn(f[k - 1], k)
    BY <1>4, <1>6, <2>1
  <2> QED
    BY <1>0, <1>6, <2>2 DEF Runs
<1>8. Runs2(g)
  BY <1>7
<1> DEFINE m == \E b \in Rows(w.s) : ~Heard(lost, b.id, "create")
<1>9. SyncBusesToDaemon(w, ack, lost) = [g[n] EXCEPT !.s.needsSync = FALSE, !.s.missed = m]
  BY DEF SyncBusesToDaemon, ForEachRow, Loop, n, turn, once
<1> HIDE DEF g
<1>15. m \in BOOLEAN
  OBVIOUS
<1> HIDE DEF m
<1>10. g[0] = w /\ \A k \in 1..n : g[k] = turn(g[k - 1], k)
  BY <1>0, <1>1, <1>8
<1>11. \A k \in 0..n : g[k] \in B[k]
  <2>1. \A k \in 1..n : g[k - 1] \in B[k - 1] => g[k] \in B[k]
    BY <1>4, <1>10
  <2>2. g[0] \in B[0]
    BY <1>2, <1>10
  <2> QED
    BY <1>1, <2>1, <2>2, Stays
<1>12. Good(g[n]) /\ Kind(w, g[n]) /\ SameRows(w, g[n])
  BY <1>1, <1>5, <1>11
<1>13. PICK z : z = g[n]
  OBVIOUS
<1>14. Flagged(z, [z EXCEPT !.s.needsSync = FALSE, !.s.missed = m], FALSE)
  BY <1>12, <1>13, <1>15, NeedsSyncSet
<1> QED
  BY <1>9, <1>12, <1>13, <1>14 DEF Kind, SameRows, Flagged

LEMMA SameTrans ==
  ASSUME NEW a, NEW b, NEW c, Same(a, b), Same(b, c)
  PROVE  Same(a, c)
  BY DEF Same

\* The row a turn is about.
LEMMA RowAtTurn ==
  ASSUME NEW w, Good(w), NEW x, Good(x), Same(w.s, x.s), NEW k \in 1..Len(w.s.buses)
  PROVE  x.s.buses[k] \in Rows(x.s) /\ x.s.buses[k].id = w.s.buses[k].id
  BY WorldParts DEF Good, Sound, Same, Rows

\* globalRec is set.
LEMMA GlobalSet ==
  ASSUME NEW w, Good(w), NEW to \in BOOLEAN
  PROVE  LET v == [w EXCEPT !.s.globalRec = to]
         IN  Good(v) /\ Kind(w, v) /\ v.s.buses = w.s.buses
<1> DEFINE t == [w.s EXCEPT !.globalRec = to]
           v == [w EXCEPT !.s.globalRec = to]
<1>1. w \in Worlds /\ w.s \in StateSet /\ w = [s |-> w.s, d |-> w.d] /\ w.d \in [BusNames -> BusSet]
  BY WorldParts DEF Good, Sound
<1>2. v = [s |-> t, d |-> w.d]
  BY <1>1
<1>3. /\ t \in StateSet /\ t.buses = w.s.buses /\ t.selected = w.s.selected /\ t.nextId = w.s.nextId
      /\ t.connected = w.s.connected /\ t.needsSync = w.s.needsSync /\ t.path = w.s.path
  BY <1>1 DEF StateSet
<1> HIDE DEF t, v
<1>4. v \in Worlds /\ v.s = t /\ v.d = w.d
  BY <1>1, <1>2, <1>3 DEF Worlds
<1>5. Good(v)
  BY <1>3, <1>4, RestChanges DEF Good, Sound, Distinct
<1> QED
  BY <1>3, <1>4, <1>5 DEF v, Kind

\* Forwarding is started for each row that has a file and is not forwarded.
ForwardsAll(w, ok, lost) ==
    LET one(a, b) == IF ~b.file \/ b.fwd THEN a ELSE StartForward(a, b.id, ok, lost)
    IN  ForEachRow(one, w)

LEMMA ForwardAllKeeps ==
  ASSUME NEW w, Good(w), w.s.connected, NEW ok \in BOOLEAN, NEW lost
  PROVE  Good(ForwardsAll(w, ok, lost)) /\ Same(w.s, ForwardsAll(w, ok, lost).s)
<1> DEFINE n == Len(w.s.buses)
           turn(x, k) == IF ~x.s.buses[k].file \/ x.s.buses[k].fwd THEN x
                         ELSE StartForward(x, x.s.buses[k].id, ok, lost)
           once(x, k) == CHOOSE v \in {turn(a, k) : a \in {x}} : TRUE
           h == [k \in 1..n |-> [x \in Worlds |-> turn(x, k)]]
           B == [k \in 0..n |-> {x \in Worlds : Good(x) /\ Same(w.s, x.s)}]
           Runs2(f) == f = [k \in 0..n |-> IF k = 0 THEN w ELSE once(f[k - 1], k)]
           g == CHOOSE f : Runs2(f)
<1>1. w \in Worlds /\ n \in Nat
  BY WorldParts DEF Good, Sound
<1>2. w \in B[0]
  <2>1. Good(w) /\ Same(w.s, w.s)
    BY DEF Same
  <2>2. 0 \in 0..n
    BY <1>1
  <2> HIDE DEF n
  <2> QED
    BY <1>1, <2>1, <2>2
<1>3. ASSUME NEW k \in 1..n, NEW x \in Worlds, Good(x) /\ Same(w.s, x.s)
      PROVE  Good(turn(x, k)) /\ Same(w.s, turn(x, k).s)
  <2>1. PICK b \in Rows(x.s) : b = x.s.buses[k]
    BY <1>3, RowAtTurn
  <2>2. CASE ~b.file \/ b.fwd
    BY <1>3, <2>1, <2>2
  <2>3. CASE ~(~b.file \/ b.fwd)
    <3>1. x.s.connected
      BY <1>3 DEF Same
    <3>2. LET v == StartForward(x, b.id, ok, lost) IN Good(v) /\ Same(x.s, v.s)
      BY <1>3, <2>3, <3>1, StartForwardKeeps
    <3>3. turn(x, k) = StartForward(x, b.id, ok, lost)
      BY <2>1, <2>3
    <3> HIDE DEF turn
    <3> QED
      BY <1>3, <3>2, <3>3, SameTrans
  <2> QED
    BY <2>2, <2>3
<1>4. ASSUME NEW k \in 1..n, NEW x \in B[k - 1]
      PROVE  h[k][x] \in B[k] /\ h[k][x] = turn(x, k)
  <2>1. k - 1 \in 0..n /\ k \in 0..n
    BY <1>1
  <2>2. x \in Worlds /\ Good(x) /\ Same(w.s, x.s)
    BY <2>1
  <2>3. h[k][x] = turn(x, k)
    BY <2>2
  <2> HIDE DEF turn, h
  <2>4. turn(x, k) \in B[k]
    BY <1>3, <2>1, <2>2 DEF Good, Sound
  <2> QED
    BY <2>3, <2>4
<1>5. \A k \in 0..n : \A x \in B[k] : Good(x) /\ Same(w.s, x.s)
  OBVIOUS
<1>0. \A x, k : once(x, k) = turn(x, k)
  <2> HIDE DEF turn
  <2> QED
    OBVIOUS
<1> HIDE DEF n, turn, once, h, B
<1>6. PICK f : Runs(f, n, w, h) /\ \A k \in 0..n : f[k] \in B[k]
  BY <1>1, <1>2, <1>4, Looping
<1>7. Runs2(f)
  <2>1. \A k \in 0..n : k # 0 => k - 1 \in 0..n /\ k \in 1..n
    BY <1>1
  <2>2. \A k \in 0..n : k # 0 => h[k][f[k - 1]] = turn(f[k - 1], k)
    BY <1>4, <1>6, <2>1
  <2> QED
    BY <1>0, <1>6, <2>2 DEF Runs
<1>8. Runs2(g)
  BY <1>7
<1>9. ForwardsAll(w, ok, lost) = g[n]
  BY DEF ForwardsAll, ForEachRow, Loop, n, turn, once
<1> HIDE DEF g
<1>10. g[0] = w /\ \A k \in 1..n : g[k] = turn(g[k - 1], k)
  BY <1>0, <1>1, <1>8
<1>11. \A k \in 0..n : g[k] \in B[k]
  <2>1. \A k \in 1..n : g[k - 1] \in B[k - 1] => g[k] \in B[k]
    BY <1>4, <1>10
  <2>2. g[0] \in B[0]
    BY <1>2, <1>10
  <2> QED
    BY <1>1, <2>1, <2>2, Stays
<1>12. Good(g[n]) /\ Same(w.s, g[n].s)
  BY <1>1, <1>5, <1>11
<1> QED
  BY <1>9, <1>12

\* Recording is stopped for each row that records.
StopsAll(w, lost) ==
    LET one(a, b) == IF ~b.rec THEN a
                     ELSE SetRow([a EXCEPT !.d = Command(@, b, "stoprec", "rec", FALSE, lost)],
                                 [b EXCEPT !.rec = FALSE])
    IN  ForEachRow(one, w)

LEMMA StopAllKeeps ==
  ASSUME NEW w, Good(w), NEW lost
  PROVE  Good(StopsAll(w, lost)) /\ Same(w.s, StopsAll(w, lost).s)
<1> DEFINE n == Len(w.s.buses)
           turn(x, k) == IF ~x.s.buses[k].rec THEN x
                         ELSE SetRow([x EXCEPT !.d = Command(@, x.s.buses[k], "stoprec", "rec", FALSE, lost)],
                                     [x.s.buses[k] EXCEPT !.rec = FALSE])
           once(x, k) == CHOOSE v \in {turn(a, k) : a \in {x}} : TRUE
           h == [k \in 1..n |-> [x \in Worlds |-> turn(x, k)]]
           B == [k \in 0..n |-> {x \in Worlds : Good(x) /\ Same(w.s, x.s)}]
           Runs2(f) == f = [k \in 0..n |-> IF k = 0 THEN w ELSE once(f[k - 1], k)]
           g == CHOOSE f : Runs2(f)
<1>1. w \in Worlds /\ n \in Nat
  BY WorldParts DEF Good, Sound
<1>2. w \in B[0]
  <2>1. Good(w) /\ Same(w.s, w.s)
    BY DEF Same
  <2>2. 0 \in 0..n
    BY <1>1
  <2> HIDE DEF n
  <2> QED
    BY <1>1, <2>1, <2>2
<1>3. ASSUME NEW k \in 1..n, NEW x \in Worlds, Good(x) /\ Same(w.s, x.s)
      PROVE  Good(turn(x, k)) /\ Same(w.s, turn(x, k).s)
  <2>1. PICK b \in Rows(x.s) : b = x.s.buses[k]
    BY <1>3, RowAtTurn
  <2>2. CASE ~b.rec
    BY <1>3, <2>1, <2>2
  <2>3. CASE b.rec
    <3>1. PICK row : row = [b EXCEPT !.rec = FALSE]
      OBVIOUS
    <3>2. row \in RowSet /\ Relabels(b, row) /\ Follows(b, row, "stoprec", "rec", FALSE, lost)
      <4>1. b \in RowSet
        BY <1>3, RowAt
      <4> QED
        BY <3>1, <4>1 DEF RowSet, Relabels, Labels, Follows, Looked
    <3>3. Telling(x, b, row, "stoprec", "rec", FALSE, lost)
      BY <1>3, <3>2, TellKeeps
    <3>4. turn(x, k) = SetRow([x EXCEPT !.d = Command(@, b, "stoprec", "rec", FALSE, lost)], row)
      BY <2>1, <2>3, <3>1
    <3> HIDE DEF turn
    <3> QED
      BY <1>3, <3>3, <3>4, SameTrans DEF Telling
  <2> QED
    BY <2>2, <2>3
<1>4. ASSUME NEW k \in 1..n, NEW x \in B[k - 1]
      PROVE  h[k][x] \in B[k] /\ h[k][x] = turn(x, k)
  <2>1. k - 1 \in 0..n /\ k \in 0..n
    BY <1>1
  <2>2. x \in Worlds /\ Good(x) /\ Same(w.s, x.s)
    BY <2>1
  <2>3. h[k][x] = turn(x, k)
    BY <2>2
  <2> HIDE DEF turn, h
  <2>4. turn(x, k) \in B[k]
    BY <1>3, <2>1, <2>2 DEF Good, Sound
  <2> QED
    BY <2>3, <2>4
<1>5. \A k \in 0..n : \A x \in B[k] : Good(x) /\ Same(w.s, x.s)
  OBVIOUS
<1>0. \A x, k : once(x, k) = turn(x, k)
  <2> HIDE DEF turn
  <2> QED
    OBVIOUS
<1> HIDE DEF n, turn, once, h, B
<1>6. PICK f : Runs(f, n, w, h) /\ \A k \in 0..n : f[k] \in B[k]
  BY <1>1, <1>2, <1>4, Looping
<1>7. Runs2(f)
  <2>1. \A k \in 0..n : k # 0 => k - 1 \in 0..n /\ k \in 1..n
    BY <1>1
  <2>2. \A k \in 0..n : k # 0 => h[k][f[k - 1]] = turn(f[k - 1], k)
    BY <1>4, <1>6, <2>1
  <2> QED
    BY <1>0, <1>6, <2>2 DEF Runs
<1>8. Runs2(g)
  BY <1>7
<1>9. StopsAll(w, lost) = g[n]
  BY DEF StopsAll, ForEachRow, Loop, n, turn, once
<1> HIDE DEF g
<1>10. g[0] = w /\ \A k \in 1..n : g[k] = turn(g[k - 1], k)
  BY <1>0, <1>1, <1>8
<1>11. \A k \in 0..n : g[k] \in B[k]
  <2>1. \A k \in 1..n : g[k - 1] \in B[k - 1] => g[k] \in B[k]
    BY <1>4, <1>10
  <2>2. g[0] \in B[0]
    BY <1>2, <1>10
  <2> QED
    BY <1>1, <2>1, <2>2, Stays
<1>12. Good(g[n]) /\ Same(w.s, g[n].s)
  BY <1>1, <1>5, <1>11
<1> QED
  BY <1>9, <1>12

Lives(w, x) == \A m \in BusNames : x.d[m].live = w.d[m].live

\* Recording is started for each row, and shown where the bus was there.
RecordsAll(w, e, ok, lost) ==
    LET one(a, b) == SetRow([a EXCEPT !.d = Command(@, b, "record", "rec", ok, lost)],
                            [b EXCEPT !.file = TRUE, !.rec = ok /\ e[b.name].live /\ Heard(lost, b.id, "record")])
    IN  ForEachRow(one, w)

LEMMA RecordAllKeeps ==
  ASSUME NEW w, Good(w), NEW e, e = w.d, NEW ok \in BOOLEAN, NEW lost
  PROVE  Good(RecordsAll(w, e, ok, lost)) /\ Same(w.s, RecordsAll(w, e, ok, lost).s)
<1> DEFINE n == Len(w.s.buses)
           turn(x, k) == SetRow([x EXCEPT !.d = Command(@, x.s.buses[k], "record", "rec", ok, lost)],
                                [x.s.buses[k] EXCEPT !.file = TRUE,
                                    !.rec = /\ ok /\ e[x.s.buses[k].name].live
                                            /\ Heard(lost, x.s.buses[k].id, "record")])
           once(x, k) == CHOOSE v \in {turn(a, k) : a \in {x}} : TRUE
           h == [k \in 1..n |-> [x \in Worlds |-> turn(x, k)]]
           B == [k \in 0..n |-> {x \in Worlds : Good(x) /\ Same(w.s, x.s) /\ Lives(w, x)}]
           Runs2(f) == f = [k \in 0..n |-> IF k = 0 THEN w ELSE once(f[k - 1], k)]
           g == CHOOSE f : Runs2(f)
<1>1. w \in Worlds /\ n \in Nat
  BY WorldParts DEF Good, Sound
<1>2. w \in B[0]
  <2>1. Good(w) /\ Same(w.s, w.s) /\ Lives(w, w)
    BY DEF Same, Lives
  <2>2. 0 \in 0..n
    BY <1>1
  <2> HIDE DEF n
  <2> QED
    BY <1>1, <2>1, <2>2
<1>3. ASSUME NEW k \in 1..n, NEW x \in Worlds, Good(x) /\ Same(w.s, x.s) /\ Lives(w, x)
      PROVE  Good(turn(x, k)) /\ Same(w.s, turn(x, k).s) /\ Lives(w, turn(x, k))
  <2>1. PICK b \in Rows(x.s) : b = x.s.buses[k]
    BY <1>3, RowAtTurn
  <2>2. PICK row : row = [b EXCEPT !.file = TRUE, !.rec = ok /\ e[b.name].live /\ Heard(lost, b.id, "record")]
    OBVIOUS
  <2>3. /\ b \in RowSet /\ b.name \in BusNames /\ b.id \in Nat \ {0}
        /\ x.d \in [BusNames -> BusSet] /\ w.d \in [BusNames -> BusSet]
    BY <1>1, <1>3, RowAt, WorldParts
  <2>4. w.d[b.name].live \in BOOLEAN /\ x.d[b.name].live = w.d[b.name].live
    BY <1>3, <2>3 DEF BusSet, Lives
  <2>5. /\ row \in RowSet /\ Relabels(b, row)
        /\ x.d[b.name].live => Follows(b, row, "record", "rec", ok, lost)
    <3>1. row \in RowSet /\ Relabels(b, row) /\ row.fwd = b.fwd /\ row.iface = b.iface
      BY <2>2, <2>3, <2>4 DEF RowSet, Relabels
    <3>2. /\ w.d[b.name].live /\ Heard(lost, b.id, "record") => row.rec = ok
          /\ ~Heard(lost, b.id, "record") => row.rec = FALSE
      BY <2>2, <2>3 DEF RowSet
    <3>3. b.rec \in BOOLEAN
      BY <2>3 DEF RowSet
    <3> QED
      BY <2>4, <3>1, <3>2, <3>3 DEF Labels, Follows, Looked
  <2>6. Telling(x, b, row, "record", "rec", ok, lost)
    BY <1>3, <2>5, TellKeeps
  <2>7. turn(x, k) = SetRow([x EXCEPT !.d = Command(@, b, "record", "rec", ok, lost)], row)
    BY <2>1, <2>2
  <2> HIDE DEF turn
  <2>8. Good(turn(x, k)) /\ Same(w.s, turn(x, k).s)
    BY <1>3, <2>6, <2>7, SameTrans DEF Telling
  <2>9. turn(x, k).d = [x.d EXCEPT ![b.name] = After(x.d[b.name], b, "record", "rec", ok, lost)]
    BY <2>6, <2>7 DEF Telling
  <2>10. After(x.d[b.name], b, "record", "rec", ok, lost).live = x.d[b.name].live
    <3>1. PICK y \in BusSet : y = x.d[b.name]
      BY <2>3
    <3>2. After(y, b, "record", "rec", ok, lost).live = y.live
      <4>1. LetGo(y, b.id).live = y.live /\ Told(y, b.id, "rec", ok).live = y.live
        BY <2>3, LetGoIs DEF Told, BusSet
      <4> QED
        BY <4>1 DEF After
    <3> QED
      BY <3>1, <3>2
  <2>11. Lives(w, turn(x, k))
    BY <1>3, <2>3, <2>9, <2>10 DEF Lives
  <2> QED
    BY <2>8, <2>11
<1>4. ASSUME NEW k \in 1..n, NEW x \in B[k - 1]
      PROVE  h[k][x] \in B[k] /\ h[k][x] = turn(x, k)
  <2>1. k - 1 \in 0..n /\ k \in 0..n
    BY <1>1
  <2>2. x \in Worlds /\ Good(x) /\ Same(w.s, x.s) /\ Lives(w, x)
    BY <2>1
  <2>3. h[k][x] = turn(x, k)
    BY <2>2
  <2> HIDE DEF turn, h
  <2>4. turn(x, k) \in B[k]
    BY <1>3, <2>1, <2>2 DEF Good, Sound
  <2> QED
    BY <2>3, <2>4
<1>5. \A k \in 0..n : \A x \in B[k] : Good(x) /\ Same(w.s, x.s) /\ Lives(w, x)
  OBVIOUS
<1>0. \A x, k : once(x, k) = turn(x, k)
  <2> HIDE DEF turn
  <2> QED
    OBVIOUS
<1> HIDE DEF n, turn, once, h, B
<1>6. PICK f : Runs(f, n, w, h) /\ \A k \in 0..n : f[k] \in B[k]
  BY <1>1, <1>2, <1>4, Looping
<1>7. Runs2(f)
  <2>1. \A k \in 0..n : k # 0 => k - 1 \in 0..n /\ k \in 1..n
    BY <1>1
  <2>2. \A k \in 0..n : k # 0 => h[k][f[k - 1]] = turn(f[k - 1], k)
    BY <1>4, <1>6, <2>1
  <2> QED
    BY <1>0, <1>6, <2>2 DEF Runs
<1>8. Runs2(g)
  BY <1>7
<1>9. RecordsAll(w, e, ok, lost) = g[n]
  BY DEF RecordsAll, ForEachRow, Loop, n, turn, once
<1> HIDE DEF g
<1>10. g[0] = w /\ \A k \in 1..n : g[k] = turn(g[k - 1], k)
  BY <1>0, <1>1, <1>8
<1>11. \A k \in 0..n : g[k] \in B[k]
  <2>1. \A k \in 1..n : g[k - 1] \in B[k - 1] => g[k] \in B[k]
    BY <1>4, <1>10
  <2>2. g[0] \in B[0]
    BY <1>2, <1>10
  <2> QED
    BY <1>1, <2>1, <2>2, Stays
<1>12. Good(g[n]) /\ Same(w.s, g[n].s)
  BY <1>1, <1>5, <1>11
<1> QED
  BY <1>9, <1>12

\* The rows are read back: k of them so far.
ReadBack(w, x, rows, k) ==
    /\ Good(x) /\ Len(x.s.buses) = k
    /\ x.s.nextId >= w.s.nextId /\ x.s.connected = w.s.connected /\ x.s.path = w.s.path
    /\ \A b \in Rows(x.s) : Untouched(b)
    /\ \A j \in 1..k : x.s.buses[j].name = rows[j].name /\ x.s.buses[j].file = rows[j].file

\* The rows of a file come back as they were written, with nothing going.
LEMMA LoadRowsKeeps ==
  ASSUME TypeOK, NEW w, Good(w), w.s.buses = <<>>, NEW p \in Paths,
         \A k \in DOMAIN queue : queue[k][1] < w.s.nextId
  PROVE  LET v == LoadRows(w, p)
         IN  /\ Good(v) /\ v.s.nextId >= w.s.nextId /\ v.s.connected = w.s.connected
             /\ v.s.path = w.s.path /\ v.s.needsSync = TRUE /\ Kept(v.s) = disk[p].rows
             /\ \A b \in Rows(v.s) : Untouched(b)
<1> DEFINE rows == disk[p].rows
           n == Len(rows)
           turn(x, k) == AppendRow(x, rows[k].name, rows[k].file)
           once(x, k) == CHOOSE v \in {turn(a, k) : a \in {x}} : TRUE
           h == [k \in 1..n |-> [x \in Worlds |-> turn(x, k)]]
           B == [k \in 0..n |-> {x \in Worlds : ReadBack(w, x, rows, k)}]
           Runs2(f) == f = [k \in 0..n |-> IF k = 0 THEN w ELSE once(f[k - 1], k)]
           g == CHOOSE f : Runs2(f)
<1>1. /\ w \in Worlds /\ n \in Nat /\ DOMAIN rows = 1..n
      /\ \A k \in 1..n : rows[k] \in KeptRows
  <2>1. rows \in Seq(KeptRows)
    BY DEF TypeOK
  <2> HIDE DEF rows
  <2> QED
    BY <2>1, LenProperties, ElementOfSeq DEF Good, Sound
<1> HIDE DEF rows
<1>2. w \in B[0]
  <2>1. Rows(w.s) = {} /\ Len(w.s.buses) = 0 /\ w.s.nextId \in Nat
    BY <1>1, WorldParts DEF Rows
  <2>2. ReadBack(w, w, rows, 0) /\ 0 \in 0..n
    BY <1>1, <2>1 DEF ReadBack
  <2> HIDE DEF n
  <2> QED
    BY <1>1, <2>2
<1>3. ASSUME NEW k \in 1..n, NEW x \in Worlds, ReadBack(w, x, rows, k - 1)
      PROVE  ReadBack(w, turn(x, k), rows, k)
  <2>1. /\ rows[k].name \in BusNames /\ rows[k].file \in BOOLEAN
        /\ Len(x.s.buses) = k - 1 /\ x.s.nextId \in Nat /\ w.s.nextId \in Nat /\ k \in Nat
        /\ Good(x)
    BY <1>1, <1>3, WorldParts DEF KeptRows, ReadBack
  <2>2. \A j \in DOMAIN queue : queue[j][1] < x.s.nextId
    BY <1>3, <2>1 DEF ReadBack, TypeOK
  <2>3. PICK m \in BusNames, file \in BOOLEAN : m = rows[k].name /\ file = rows[k].file
    BY <2>1
  <2> DEFINE v == AppendRow(x, m, file)
             row == NewRow(x.s.nextId, m, file)
  <2>4. /\ Good(v)
        /\ Len(v.s.buses) = Len(x.s.buses) + 1
        /\ \A j \in 1..Len(x.s.buses) : v.s.buses[j] = x.s.buses[j]
        /\ v.s.buses[Len(x.s.buses) + 1] = row
        /\ v.s.nextId = x.s.nextId + 1 /\ v.s.connected = x.s.connected
        /\ v.s.path = x.s.path
        /\ Untouched(row)
        /\ \A b \in Rows(v.s) : b = row \/ b \in Rows(x.s)
    <3>1. Appends(x, v, row)
      BY <2>1, <2>2, <2>3, AppendKeeps
    <3> QED
      BY <3>1 DEF Appends
  <2>5. row.name = m /\ row.file = file
    BY DEF NewRow
  <2>6. turn(x, k) = v
    BY <2>3
  <2> HIDE DEF v, row, turn
  <2>7. Len(v.s.buses) = k /\ v.s.buses[k] = row
    BY <2>1, <2>4
  <2>8. \A j \in 1..k : j = k \/ j \in 1..(k - 1)
    BY <2>1
  <2>9. \A j \in 1..k : v.s.buses[j].name = rows[j].name /\ v.s.buses[j].file = rows[j].file
    BY <1>3, <2>1, <2>3, <2>4, <2>5, <2>7, <2>8 DEF ReadBack
  <2> QED
    BY <1>3, <2>1, <2>4, <2>6, <2>7, <2>9 DEF ReadBack
<1>4. ASSUME NEW k \in 1..n, NEW x \in B[k - 1]
      PROVE  h[k][x] \in B[k] /\ h[k][x] = turn(x, k)
  <2>1. k - 1 \in 0..n /\ k \in 0..n
    BY <1>1
  <2>2. x \in Worlds /\ ReadBack(w, x, rows, k - 1)
    BY <2>1
  <2>3. h[k][x] = turn(x, k)
    BY <2>2
  <2> HIDE DEF turn, h
  <2>4. turn(x, k) \in B[k]
    BY <1>3, <2>1, <2>2 DEF ReadBack, Good, Sound
  <2> QED
    BY <2>3, <2>4
<1>5. \A k \in 0..n : \A x \in B[k] : ReadBack(w, x, rows, k)
  OBVIOUS
<1>0. \A x, k : once(x, k) = turn(x, k)
  <2> HIDE DEF turn
  <2> QED
    OBVIOUS
<1> HIDE DEF n, turn, once, h, B
<1>6. PICK f : Runs(f, n, w, h) /\ \A k \in 0..n : f[k] \in B[k]
  BY <1>1, <1>2, <1>4, Looping
<1>7. Runs2(f)
  <2>1. \A k \in 0..n : k # 0 => k - 1 \in 0..n /\ k \in 1..n
    BY <1>1
  <2>2. \A k \in 0..n : k # 0 => h[k][f[k - 1]] = turn(f[k - 1], k)
    BY <1>4, <1>6, <2>1
  <2> QED
    BY <1>0, <1>6, <2>2 DEF Runs
<1>8. Runs2(g)
  BY <1>7
<1> DEFINE all == Loop(LAMBDA a, k : AppendRow(a, rows[k].name, rows[k].file), w, n)
<1>9. /\ all = g[n]
      /\ LoadRows(w, p) = [all EXCEPT !.s.selected = First(all.s), !.s.needsSync = TRUE, !.s.missed = FALSE]
  BY DEF LoadRows, Loop, n, turn, once, rows
<1> HIDE DEF all
<1> HIDE DEF g
<1>10. g[0] = w /\ \A k \in 1..n : g[k] = turn(g[k - 1], k)
  BY <1>0, <1>1, <1>8
<1>11. \A k \in 0..n : g[k] \in B[k]
  <2>1. \A k \in 1..n : g[k - 1] \in B[k - 1] => g[k] \in B[k]
    BY <1>4, <1>10
  <2>2. g[0] \in B[0]
    BY <1>2, <1>10
  <2> QED
    BY <1>1, <2>1, <2>2, Stays
<1>12. ReadBack(w, all, rows, n)
  BY <1>1, <1>5, <1>9, <1>11
<1> DEFINE v == LoadRows(w, p)
           t == [all.s EXCEPT !.selected = First(all.s), !.needsSync = TRUE, !.missed = FALSE]
<1>13. /\ all \in Worlds /\ all.s \in StateSet /\ all = [s |-> all.s, d |-> all.d]
       /\ all.d \in [BusNames -> BusSet] /\ Good(all) /\ DOMAIN all.s.buses = 1..n
  BY <1>12, WorldParts DEF Good, Sound, ReadBack
<1>14. First(all.s) \in {b.id : b \in Rows(all.s)} \cup {0} /\ First(all.s) \in Nat
  <2>1. CASE all.s.buses = <<>>
    BY <2>1 DEF First
  <2>2. CASE all.s.buses # <<>>
    <3>1. PICK b \in Rows(all.s) : First(all.s) = b.id
      BY <1>13, <2>2, FirstIs
    <3> QED
      BY <1>13, <3>1, RowAt
  <2> QED
    BY <2>1, <2>2
<1>15. v = [s |-> t, d |-> all.d]
  BY <1>9, <1>13
<1>16. /\ t \in StateSet /\ t.buses = all.s.buses /\ t.selected = First(all.s)
       /\ t.nextId = all.s.nextId /\ t.connected = all.s.connected /\ t.needsSync = TRUE
       /\ t.path = all.s.path
  BY <1>13, <1>14 DEF StateSet
<1> HIDE DEF t, v
<1>17. v \in Worlds /\ v.s = t /\ v.d = all.d
  BY <1>13, <1>15, <1>16 DEF Worlds
<1>18. Good(v) /\ Rows(v.s) = Rows(all.s)
  BY <1>13, <1>14, <1>16, <1>17, RestChanges
<1>19. Kept(v.s) = rows
  <2>1. rows = [k \in 1..n |-> rows[k]]
    <3>1. rows \in Seq(KeptRows)
      BY DEF TypeOK, rows
    <3> QED
      BY <1>1, <3>1
  <2>2. \A k \in 1..n : rows[k] = [name |-> all.s.buses[k].name, file |-> all.s.buses[k].file]
    BY <1>1, <1>12 DEF ReadBack, KeptRows
  <2>3. Kept(v.s) = [k \in 1..n |-> [name |-> all.s.buses[k].name, file |-> all.s.buses[k].file]]
    BY <1>13, <1>16, <1>17 DEF Kept
  <2> QED
    BY <2>1, <2>2, <2>3
<1> QED
  BY <1>12, <1>16, <1>17, <1>18, <1>19 DEF ReadBack, v, rows

-----------------------------------------------------------------------------
(* Packets.                                                                  *)

\* Rows that differ in their rings alone, what was added being what the filters select.
Filtered(b, c) == \A p \in ToSet(c.ring) \ ToSet(b.ring) : Selects(b.filters, p)
RingOnly(b, c) ==
    /\ SubOnly(b, c) /\ c.sub = b.sub /\ c.born = b.born /\ c.enabled = b.enabled
    /\ Filtered(b, c)

LEMMA RuleLists ==
  ASSUME NEW b \in RowSet, NEW p \in Packets
  PROVE  PassesFilters(b.filters, p) <=> Selects(b.filters, p)
<1>1. b.filters \in Seq([type : {"Include", "Exclude"}, expr : Seq(STRING)])
  BY GuiAssumption, EmptySeq DEF RowSet
<1>2. b.filters \in Seq(Rules(STRING))
  BY <1>1 DEF Rules
<1>3. p.vlan \in Nat /\ p.size \in Nat
  BY DEF Packets
<1> QED
  BY <1>2, <1>3, FiltersSelect

LEMMA PushIs ==
  ASSUME NEW b \in RowSet, NEW p \in Packets, Len(b.ring) <= RingCap
  PROVE  LET c == Push(b, p)
         IN  /\ c \in RowSet /\ RingOnly(b, c) /\ Len(c.ring) <= RingCap
             /\ \/ c = b
                \/ \A k \in 1..Len(c.ring) :
                     \/ k = 1 /\ c.ring[k] = p
                     \/ k - 1 \in 1..Len(b.ring) /\ c.ring[k] = b.ring[k - 1]
<1> DEFINE q == b.ring
           m == IF Len(q) < RingCap THEN Len(q) ELSE RingCap - 1
           x == SubSeq(q, 1, m)
           r == <<p>> \o x
           c == Push(b, p)
<1>1. q \in Seq(Packets) /\ Len(q) \in Nat /\ RingCap \in Nat \ {0}
  BY GuiAssumption, LenProperties DEF RowSet
<1>2. m \in Nat /\ m <= Len(q) /\ m + 1 <= RingCap
  BY <1>1
<1> HIDE DEF m
<1>3. x \in Seq(Packets) /\ Len(x) = m /\ \A j \in 1..m : x[j] = q[j]
  <2>1. 1 \in Int /\ m \in Int /\ \A j \in 1..m : q[j] \in Packets
    BY <1>1, <1>2, ElementOfSeq
  <2> HIDE DEF q
  <2>2. /\ x \in Seq(Packets) /\ Len(x) = (IF 1 <= m THEN m - 1 + 1 ELSE 0)
        /\ \A j \in 1..(m - 1 + 1) : x[j] = q[1 + j - 1]
    BY <2>1, SubSeqProperties
  <2>3. m - 1 + 1 = m /\ \A j \in 1..m : 1 + j - 1 = j
    BY <1>2
  <2> HIDE DEF x
  <2> QED
    BY <1>2, <2>2, <2>3
<1> HIDE DEF x
<1>4. <<p>> \in Seq(Packets) /\ Len(<<p>>) = 1 /\ <<p>>[1] = p
  OBVIOUS
<1>5. /\ r \in Seq(Packets) /\ Len(r) = m + 1
      /\ \A k \in 1..(m + 1) : (k = 1 /\ r[k] = p) \/ (k - 1 \in 1..m /\ r[k] = x[k - 1])
  <2> DEFINE e == <<p>>
  <2>0. e \in Seq(Packets) /\ Len(e) = 1 /\ e[1] = p
    BY <1>4
  <2> HIDE DEF e
  <2>1. /\ e \o x \in Seq(Packets) /\ Len(e \o x) = Len(e) + Len(x)
        /\ \A k \in 1..(Len(e) + Len(x)) : (e \o x)[k] = IF k <= Len(e) THEN e[k] ELSE x[k - Len(e)]
    BY <1>3, <2>0, ConcatProperties
  <2>2. r = e \o x
    BY DEF e
  <2> HIDE DEF r
  <2> QED
    BY <1>2, <1>3, <2>0, <2>1, <2>2
<1>6. c = b \/ (c = [b EXCEPT !.ring = r] /\ PassesFilters(b.filters, p))
  BY DEF Push, r, x, m
<1> HIDE DEF r, c
<1>7. CASE c = b
  BY <1>7 DEF RingOnly, SubOnly, Filtered, c
<1>8. CASE c = [b EXCEPT !.ring = r] /\ PassesFilters(b.filters, p)
  <2>0. c \in RowSet /\ c.ring = r
    BY <1>5, <1>8 DEF RowSet
  <2>1. c \in RowSet /\ c.ring = r /\ RingOnly(b, c)
    <3>1. \A k \in 1..(m + 1) : r[k] = p \/ \E j \in DOMAIN q : r[k] = q[j]
      <4> TAKE k \in 1..(m + 1)
      <4>1. DOMAIN q = 1..Len(q)
        BY <1>1, LenProperties
      <4>2. (k = 1 /\ r[k] = p) \/ (k - 1 \in 1..m /\ r[k] = x[k - 1])
        BY <1>5
      <4>3. k - 1 \in 1..m => k - 1 \in DOMAIN q /\ x[k - 1] = q[k - 1]
        BY <1>1, <1>2, <1>3, <4>1
      <4> QED
        BY <4>2, <4>3
    <3>2. DOMAIN r = 1..(m + 1)
      BY <1>5, LenProperties
    <3>3. ToSet(c.ring) \ ToSet(b.ring) \subseteq {p}
      BY <2>0, <3>1, <3>2 DEF ToSet
    <3>4. Filtered(b, c)
      BY <1>8, <3>3, RuleLists DEF Filtered
    <3> QED
      BY <1>8, <2>0, <3>4 DEF RowSet, RingOnly, SubOnly
  <2>2. \A k \in 1..(m + 1) :
          \/ k = 1 /\ r[k] = p
          \/ k - 1 \in 1..Len(q) /\ r[k] = q[k - 1]
    BY <1>1, <1>2, <1>3, <1>5
  <2> QED
    BY <1>2, <1>5, <2>1, <2>2 DEF c
<1> QED
  BY <1>6, <1>7, <1>8

\* A packet newer than all of the ring, and the row's own, leaves the ring in order.
LEMMA PushKeeps ==
  ASSUME TypeOK, NEW b \in RowSet, RingOk(b), NEW p \in Packets, p.seq <= frames,
         p.seq # 0 => b.sub /\ p.seq > b.born,
         \A k \in DOMAIN b.ring : Newer(p, b.ring[k])
  PROVE  LET c == Push(b, p)
         IN  /\ c \in RowSet /\ RingOnly(b, c) /\ RingOk(c)
             /\ \A k \in DOMAIN c.ring : c.ring[k] = p \/ \E j \in DOMAIN b.ring : c.ring[k] = b.ring[j]
<1> DEFINE c == Push(b, p)
<1>1. b.ring \in Seq(Packets) /\ DOMAIN b.ring = 1..Len(b.ring) /\ Len(b.ring) \in Nat
  BY LenProperties DEF RowSet
<1>2. /\ c \in RowSet /\ RingOnly(b, c) /\ Len(c.ring) <= RingCap
      /\ \/ c = b
         \/ \A k \in 1..Len(c.ring) :
              \/ k = 1 /\ c.ring[k] = p
              \/ k - 1 \in 1..Len(b.ring) /\ c.ring[k] = b.ring[k - 1]
  BY PushIs DEF RingOk
<1> HIDE DEF c
<1>3. c.ring \in Seq(Packets) /\ DOMAIN c.ring = 1..Len(c.ring) /\ Len(c.ring) \in Nat
  BY <1>2, LenProperties DEF RowSet
<1>4. CASE c = b
  BY <1>2, <1>4 DEF c
<1>5. CASE \A k \in 1..Len(c.ring) :
              \/ k = 1 /\ c.ring[k] = p
              \/ k - 1 \in 1..Len(b.ring) /\ c.ring[k] = b.ring[k - 1]
  <2>1. \A k \in DOMAIN c.ring :
          /\ c.ring[k].seq <= frames
          /\ c.ring[k].seq # 0 => c.sub /\ c.ring[k].seq > c.born
    BY <1>1, <1>2, <1>3, <1>5 DEF RingOk, RingOnly
  <2>2. ASSUME NEW j \in DOMAIN c.ring, NEW k \in DOMAIN c.ring, j < k
        PROVE  Newer(c.ring[j], c.ring[k])
    <3>1. k # 1 /\ k - 1 \in DOMAIN b.ring /\ c.ring[k] = b.ring[k - 1]
      BY <1>1, <1>3, <1>5, <2>2
    <3>2. CASE j = 1 /\ c.ring[j] = p
      BY <3>1, <3>2
    <3>3. CASE j - 1 \in 1..Len(b.ring) /\ c.ring[j] = b.ring[j - 1]
      <4>1. j - 1 < k - 1 /\ j - 1 \in DOMAIN b.ring
        BY <1>1, <1>3, <2>2, <3>1, <3>3
      <4> QED
        BY <3>1, <3>3, <4>1 DEF RingOk
    <3> QED
      BY <1>3, <1>5, <3>2, <3>3
  <2>3. RingOk(c)
    BY <1>2, <2>1, <2>2 DEF RingOk
  <2>4. \A k \in DOMAIN c.ring : c.ring[k] = p \/ \E j \in DOMAIN b.ring : c.ring[k] = b.ring[j]
    BY <1>1, <1>3, <1>5
  <2> QED
    BY <1>2, <2>3, <2>4 DEF c
<1> QED
  BY <1>2, <1>4, <1>5

\* What is still to come for row c, drained of the first k messages.
Drained(b, c, k) ==
    /\ c \in RowSet /\ RingOnly(b, c) /\ RingOk(c)
    /\ \A m \in DOMAIN queue : m > k /\ queue[m][1] = b.id =>
         \A j \in DOMAIN c.ring : queue[m][2].seq > c.ring[j].seq

\* The messages in the queue enter their rows in their order.
LEMMA DrainRow ==
  ASSUME TypeOK, Queued, NEW b \in RowSet, RowOk(b)
  PROVE  LET c == Loop(LAMBDA row, j : IF queue[j][1] = row.id THEN Push(row, queue[j][2]) ELSE row,
                       b, Len(queue))
         IN  c \in RowSet /\ RingOnly(b, c) /\ RingOk(c)
<1> DEFINE n == Len(queue)
           turn(x, k) == IF queue[k][1] = x.id THEN Push(x, queue[k][2]) ELSE x
           once(x, k) == CHOOSE v \in {turn(a, k) : a \in {x}} : TRUE
           h == [k \in 1..n |-> [x \in RowSet |-> turn(x, k)]]
           B == [k \in 0..n |-> {x \in RowSet : Drained(b, x, k)}]
           Runs2(f) == f = [k \in 0..n |-> IF k = 0 THEN b ELSE once(f[k - 1], k)]
           g == CHOOSE f : Runs2(f)
<1>1. /\ n \in Nat /\ DOMAIN queue = 1..n
      /\ \A k \in 1..n : queue[k] \in (Nat \ {0}) \X Packets
  <2>1. queue \in Seq((Nat \ {0}) \X Packets)
    BY DEF TypeOK
  <2> QED
    BY <2>1, LenProperties, ElementOfSeq
<1>2. b \in B[0]
  <2>1. Drained(b, b, 0)
    BY DEF Drained, RingOnly, SubOnly, Filtered, RowOk, ComingOk
  <2>2. 0 \in 0..n
    BY <1>1
  <2> HIDE DEF n
  <2> QED
    BY <2>1, <2>2
<1>3. ASSUME NEW k \in 1..n, NEW x \in RowSet, Drained(b, x, k - 1)
      PROVE  Drained(b, turn(x, k), k)
  <2>1. x.id = b.id /\ k \in DOMAIN queue /\ k \in Nat
    BY <1>1, <1>3 DEF Drained, RingOnly, SubOnly
  <2>2. \A m \in DOMAIN queue : m > k => m > k - 1
    BY <1>1, <2>1
  <2>3. CASE queue[k][1] # b.id
    BY <1>3, <2>1, <2>2, <2>3 DEF Drained
  <2>4. CASE queue[k][1] = b.id
    <3>1. PICK p \in Packets : p = queue[k][2]
      BY <1>1
    <3>2. p.seq \in 1..frames /\ frames \in Nat /\ p.seq \in Nat
      BY <2>1, <3>1 DEF Queued, TypeOK
    <3>3. x.sub /\ p.seq > x.born
      BY <1>3, <2>1, <2>4, <3>1 DEF Drained, RingOnly, RowOk, ComingOk
    <3>4. \A j \in DOMAIN x.ring : Newer(p, x.ring[j])
      BY <1>3, <2>1, <2>4, <3>1 DEF Drained, Newer
    <3> DEFINE c == Push(x, p)
    <3>5. /\ c \in RowSet /\ RingOnly(x, c) /\ RingOk(c)
          /\ \A i \in DOMAIN c.ring : c.ring[i] = p \/ \E j \in DOMAIN x.ring : c.ring[i] = x.ring[j]
      BY <1>3, <3>2, <3>3, <3>4, PushKeeps DEF Drained
    <3>6. turn(x, k) = c
      BY <2>1, <2>4, <3>1
    <3> HIDE DEF c, turn
    <3>7. RingOnly(b, c)
      BY <1>3, <3>5 DEF Drained, RingOnly, SubOnly, Filtered
    <3>8. ASSUME NEW m \in DOMAIN queue, m > k, queue[m][1] = b.id, NEW i \in DOMAIN c.ring
          PROVE  queue[m][2].seq > c.ring[i].seq
      <4>1. queue[m][2].seq > p.seq
        BY <2>1, <3>1, <3>8 DEF Queued
      <4>2. \A j \in DOMAIN x.ring : queue[m][2].seq > x.ring[j].seq
        BY <1>3, <2>2, <3>8 DEF Drained
      <4> QED
        BY <3>5, <4>1, <4>2
    <3> QED
      BY <3>5, <3>6, <3>7, <3>8 DEF Drained
  <2> QED
    BY <2>3, <2>4
<1>4. ASSUME NEW k \in 1..n, NEW x \in B[k - 1]
      PROVE  h[k][x] \in B[k] /\ h[k][x] = turn(x, k)
  <2>1. k - 1 \in 0..n /\ k \in 0..n
    BY <1>1
  <2>2. x \in RowSet /\ Drained(b, x, k - 1)
    BY <2>1
  <2>3. h[k][x] = turn(x, k)
    BY <2>2
  <2> HIDE DEF turn, h
  <2>4. turn(x, k) \in B[k]
    BY <1>3, <2>1, <2>2 DEF Drained
  <2> QED
    BY <2>3, <2>4
<1>5. \A k \in 0..n : \A x \in B[k] : Drained(b, x, k)
  OBVIOUS
<1>0. \A x, k : once(x, k) = turn(x, k)
  <2> HIDE DEF turn
  <2> QED
    OBVIOUS
<1> HIDE DEF n, turn, once, h, B
<1>6. PICK f : Runs(f, n, b, h) /\ \A k \in 0..n : f[k] \in B[k]
  BY <1>1, <1>2, <1>4, Looping
<1>7. Runs2(f)
  <2>1. \A k \in 0..n : k # 0 => k - 1 \in 0..n /\ k \in 1..n
    BY <1>1
  <2>2. \A k \in 0..n : k # 0 => h[k][f[k - 1]] = turn(f[k - 1], k)
    BY <1>4, <1>6, <2>1
  <2> QED
    BY <1>0, <1>6, <2>2 DEF Runs
<1>8. Runs2(g)
  BY <1>7
<1>9. Loop(LAMBDA row, j : IF queue[j][1] = row.id THEN Push(row, queue[j][2]) ELSE row, b, Len(queue))
        = g[n]
  BY DEF Loop, n, turn, once
<1> HIDE DEF g
<1>10. g[0] = b /\ \A k \in 1..n : g[k] = turn(g[k - 1], k)
  BY <1>0, <1>1, <1>8
<1>11. \A k \in 0..n : g[k] \in B[k]
  <2>1. \A k \in 1..n : g[k - 1] \in B[k - 1] => g[k] \in B[k]
    BY <1>4, <1>10
  <2>2. g[0] \in B[0]
    BY <1>2, <1>10
  <2> QED
    BY <1>1, <2>1, <2>2, Stays
<1>12. Drained(b, g[n], n)
  BY <1>1, <1>5, <1>11
<1> QED
  BY <1>9, <1>12 DEF Drained

\* A synthetic packet only comes to a row without a subscription.
LEMMA MockRow ==
  ASSUME TypeOK, NEW b \in RowSet, RingOk(b), ~b.sub
  PROVE  LET c == Push(b, MockPacket)
         IN  c \in RowSet /\ RingOnly(b, c) /\ RingOk(c)
<1>1. PICK p : p = MockPacket
  OBVIOUS
<1>2. p \in Packets /\ p.seq = 0 /\ p.seq <= frames
  BY <1>1 DEF MockPacket, Packets, TypeOK
<1>3. \A k \in DOMAIN b.ring : b.ring[k].seq = 0
  BY DEF RingOk
<1>4. \A k \in DOMAIN b.ring : Newer(p, b.ring[k])
  BY <1>2, <1>3 DEF Newer
<1>5. LET c == Push(b, p) IN c \in RowSet /\ RingOnly(b, c) /\ RingOk(c)
  BY <1>2, <1>4, PushKeeps
<1> QED
  BY <1>1, <1>5

\* Only the rings of the rows change, and stay in order.
RingsOnly(st, t) ==
    /\ t \in StateSet /\ t.nextId = st.nextId /\ t.connected = st.connected
    /\ t.needsSync = st.needsSync /\ t.selected = st.selected /\ t.path = st.path
    /\ Len(t.buses) = Len(st.buses)
    /\ \A k \in 1..Len(st.buses) : RingOnly(st.buses[k], t.buses[k]) /\ RingOk(t.buses[k])

LEMMA NewRings ==
  ASSUME NEW st \in StateSet, NEW q, q \in [1..Len(st.buses) -> RowSet],
         \A k \in 1..Len(st.buses) : RingOnly(st.buses[k], q[k]) /\ RingOk(q[k])
  PROVE  RingsOnly(st, [st EXCEPT !.buses = q])
<1>1. st.buses \in Seq(RowSet) /\ Len(st.buses) \in Nat
  BY LenProperties DEF StateSet
<1>2. q \in Seq(RowSet) /\ Len(q) = Len(st.buses)
  BY <1>1, FcnIsSeq
<1> DEFINE t == [st EXCEPT !.buses = q]
<1>3. /\ t \in StateSet /\ t.buses = q /\ t.nextId = st.nextId /\ t.connected = st.connected
      /\ t.needsSync = st.needsSync /\ t.selected = st.selected /\ t.path = st.path
  BY <1>2 DEF StateSet
<1> HIDE DEF t
<1> QED
  BY <1>2, <1>3 DEF RingsOnly, t

LEMMA DrainKeeps ==
  ASSUME TypeOK, Queued, NEW st \in StateSet, \A b \in Rows(st) : RowOk(b)
  PROVE  RingsOnly(st, Drain(st))
<1> DEFINE one(b) == Loop(LAMBDA row, j : IF queue[j][1] = row.id THEN Push(row, queue[j][2]) ELSE row,
                          b, Len(queue))
           q == [k \in DOMAIN st.buses |-> one(st.buses[k])]
<1>1. /\ st.buses \in Seq(RowSet) /\ DOMAIN st.buses = 1..Len(st.buses)
      /\ \A k \in 1..Len(st.buses) : st.buses[k] \in RowSet /\ RowOk(st.buses[k])
  BY LenProperties, ElementOfSeq DEF StateSet, Rows
<1>2. \A b \in RowSet : RowOk(b) => one(b) \in RowSet /\ RingOnly(b, one(b)) /\ RingOk(one(b))
  BY DrainRow
<1>3. Drain(st) = [st EXCEPT !.buses = q]
  BY DEF Drain
<1> HIDE DEF one
<1>4. /\ q \in [1..Len(st.buses) -> RowSet]
      /\ \A k \in 1..Len(st.buses) : RingOnly(st.buses[k], q[k]) /\ RingOk(q[k])
  BY <1>1, <1>2
<1> HIDE DEF q
<1> QED
  BY <1>3, <1>4, NewRings

LEMMA RingsTrans ==
  ASSUME NEW a \in StateSet, NEW b, NEW c, RingsOnly(a, b), RingsOnly(b, c)
  PROVE  RingsOnly(a, c)
<1>1. \A k \in 1..Len(a.buses) : RingOnly(a.buses[k], c.buses[k]) /\ RingOk(c.buses[k])
  <2> TAKE k \in 1..Len(a.buses)
  <2>1. /\ RingOnly(a.buses[k], b.buses[k]) /\ RingOnly(b.buses[k], c.buses[k])
        /\ RingOk(c.buses[k])
    BY DEF RingsOnly
  <2> QED
    BY <2>1 DEF RingOnly, SubOnly, Filtered
<1> QED
  BY <1>1 DEF RingsOnly

LEMMA MockKeeps ==
  ASSUME TypeOK, NEW st \in StateSet, \A k \in 1..Len(st.buses) : RingOk(st.buses[k])
  PROVE  RingsOnly(st, Mock(st))
<1> DEFINE q == [k \in DOMAIN st.buses |-> IF st.buses[k].sub THEN st.buses[k]
                                           ELSE Push(st.buses[k], MockPacket)]
<1>1. /\ st.buses \in Seq(RowSet) /\ DOMAIN st.buses = 1..Len(st.buses)
      /\ \A k \in 1..Len(st.buses) : st.buses[k] \in RowSet
  BY LenProperties, ElementOfSeq DEF StateSet
<1>2. CASE st.connected
  BY <1>2 DEF Mock, RingsOnly, RingOnly, SubOnly, Filtered
<1>3. CASE ~st.connected
  <2>1. Mock(st) = [st EXCEPT !.buses = q]
    BY <1>3 DEF Mock
  <2>2. ASSUME NEW k \in 1..Len(st.buses)
        PROVE  q[k] \in RowSet /\ RingOnly(st.buses[k], q[k]) /\ RingOk(q[k])
    <3>1. PICK b \in RowSet : b = st.buses[k]
      BY <1>1
    <3>2. q[k] = IF b.sub THEN b ELSE Push(b, MockPacket)
      BY <1>1, <3>1
    <3> HIDE DEF q
    <3>3. CASE b.sub
      BY <3>1, <3>2, <3>3 DEF RingOnly, SubOnly, Filtered
    <3>4. CASE ~b.sub
      BY <3>1, <3>2, <3>4, MockRow
    <3> QED
      BY <3>3, <3>4
  <2>3. q = [k \in 1..Len(st.buses) |-> q[k]]
    BY <1>1
  <2> HIDE DEF q
  <2>4. q \in [1..Len(st.buses) -> RowSet]
    BY <2>2, <2>3
  <2> QED
    BY <2>1, <2>2, <2>4, NewRings
<1> QED
  BY <1>2, <1>3

\* The rows have the filters they had at the beginning of the step.
Tuned(w) == \A c \in Rows(w.s) : \E a \in Rows(s) :
    a.id = c.id /\ a.filters = c.filters /\ Filtered(a, c)

LEMMA TunedRows ==
  ASSUME IInv, NEW w, Good(w), SameRows(World, w)
  PROVE  Tuned(w)
<1> SUFFICES ASSUME NEW c \in Rows(w.s)
             PROVE  \E a \in Rows(s) : a.id = c.id /\ a.filters = c.filters /\ Filtered(a, c)
  BY DEF Tuned
<1>1. World.s = s /\ Good(World) /\ World \in Worlds /\ w \in Worlds
  BY Here DEF Good, Sound
<1>2. PICK a \in Rows(s) : a.id = c.id /\ a.filters = c.filters
  <2>1. DOMAIN s.buses = 1..Len(s.buses) /\ DOMAIN w.s.buses = 1..Len(s.buses)
    BY <1>1, WorldParts DEF SameRows
  <2>2. PICK k \in 1..Len(s.buses) : c = w.s.buses[k]
    BY <2>1 DEF Rows
  <2>3. SubOnly(s.buses[k], c)
    BY <1>1, <2>2 DEF SameRows
  <2> QED
    BY <2>1, <2>3 DEF SubOnly, Rows
<1>3. \A e \in Rows(s) : e.id = a.id => e = a
  BY <1>1, RowAt
<1>4. Grows(c)
  BY DEF Good
<1>5. CASE c.ring = <<>>
  BY <1>2, <1>5 DEF Filtered, ToSet
<1>6. CASE c.ring # <<>>
  BY <1>2, <1>3, <1>4, <1>6 DEF Grows, Filtered
<1> QED
  BY <1>2, <1>5, <1>6

\* What is not in the rings does not notice.
LEMMA RingsKeep ==
  ASSUME NEW w, Good(w), Tuned(w), NEW v, v \in Worlds, v.d = w.d, RingsOnly(w.s, v.s)
  PROVE  /\ Distinct(v.s)
         /\ \A n \in BusNames : Agrees(v.s, n, v.d[n])
         /\ \A b \in Rows(v.s) : RingOk(b) /\ Grows(b) /\ b.born <= frames
         /\ \A b \in Rows(v.s) : \E c \in Rows(w.s) : SubOnly(c, b)
<1> DEFINE n == Len(w.s.buses)
<1>1. DOMAIN w.s.buses = 1..n /\ DOMAIN v.s.buses = 1..n
  BY WorldParts DEF Good, Sound, RingsOnly
<1>2. \A k \in 1..n : RingOnly(w.s.buses[k], v.s.buses[k]) /\ RingOk(v.s.buses[k])
  BY DEF RingsOnly
<1> HIDE DEF n
<1>3. \A b \in Rows(v.s) : \E c \in Rows(w.s) : RingOnly(c, b) /\ RingOk(b)
  BY <1>1, <1>2 DEF Rows
<1>4. \A c \in Rows(w.s) : \E b \in Rows(v.s) : RingOnly(c, b)
  BY <1>1, <1>2 DEF Rows
<1>5. Distinct(v.s)
  <2>1. \A j, k \in DOMAIN v.s.buses : j # k => v.s.buses[j].id # v.s.buses[k].id
    BY <1>1, <1>2 DEF Good, Sound, Distinct, RingOnly, SubOnly
  <2>2. \A b \in Rows(v.s) : b.id < v.s.nextId
    BY <1>3 DEF Good, Sound, Distinct, RingOnly, SubOnly, RingsOnly
  <2>3. v.s.selected \in {b.id : b \in Rows(v.s)} \cup {0}
    BY <1>4 DEF Good, Sound, Distinct, RingOnly, SubOnly, RingsOnly
  <2> QED
    BY <2>1, <2>2, <2>3 DEF Distinct
<1>6. ASSUME NEW m \in BusNames
      PROVE  Agrees(v.s, m, v.d[m])
  <2>1. Agrees(w.s, m, w.d[m])
    BY DEF Good, Sound
  <2> QED
    BY <1>3, <1>4, <2>1 DEF Agrees, RingOnly, SubOnly, Shows
<1>7. \A b \in Rows(v.s) : RingOk(b) /\ b.born <= frames
  BY <1>3 DEF Good, Sound, RowOk, RingOnly
<1>8. ASSUME NEW b \in Rows(v.s)
      PROVE  Grows(b)
  <2>1. PICK c \in Rows(w.s) : RingOnly(c, b)
    BY <1>3
  <2>2. PICK a \in Rows(s) : a.id = c.id /\ a.filters = c.filters /\ Filtered(a, c)
    BY DEF Tuned
  <2>3. Filtered(a, b)
    BY <2>1, <2>2 DEF RingOnly, SubOnly, Filtered
  <2> QED
    BY <2>1, <2>2, <2>3 DEF RingOnly, SubOnly, Filtered, Grows
<1> QED
  BY <1>3, <1>5, <1>6, <1>7, <1>8 DEF RingOnly

-----------------------------------------------------------------------------
(* Steps.                                                                    *)

Stored ==
    /\ disk \in [Paths -> [kind : {"absent", "good", "bad"}, rows : Seq(KeptRows)]]
    /\ recent \in Paths \cup {NoPath} /\ job \in JobSet /\ saved \in SUBSET Seq(KeptRows)
    /\ OnFile /\ JobOk

\* What is left to show of a step: the window's state and the daemon's fit together.
LEMMA Together ==
  ASSUME up' \in BOOLEAN, running' \in BOOLEAN, frames' \in Nat, events' \in Nat,
         Stored', Sound(World)', Queued', Waiting', Closed',
         queue' \in Seq((Nat \ {0}) \X Packets)
  PROVE  IInv'
<1>1. World' = [s |-> s', d |-> d']
  BY DEF World
<1>2. World.s' = s' /\ World.d' = d'
  BY <1>1 DEF World
<1>3. s' \in StateSet /\ d' \in [BusNames -> BusSet]
  BY <1>2 DEF Good, Sound, Worlds
<1>4. \A n \in BusNames : ~d'[n].live => d'[n] = NoBus
  BY <1>2 DEF Good, Sound, Agrees
<1>5. /\ \A j, k \in DOMAIN s'.buses : j # k => s'.buses[j].id # s'.buses[k].id
      /\ s'.selected \in {b.id : b \in Rows(s)'} \cup {0}
  BY <1>2 DEF Good, Sound, Distinct, Rows
<1>6. TypeOK'
  BY <1>3, <1>4, <1>5 DEF TypeOK, Stored
<1> QED
  BY <1>6 DEF IInv, Stored

\* Nothing is added where the list stays or goes.
LEMMA Stands ==
  ASSUME IInv, s' = s \/ s' = NoState
  PROVE  Added
<1>1. Rows(NoState) = {}
  BY DEF Rows, NoState
<1> QED
  BY Here, <1>1 DEF Added, Good

\* An operation of the window that leaves the queue alone.
\* (A list just loaded waits although the daemon is thought to be there.)
Due(w, j) ==
    w.s.needsSync => (w.s.connected => j.kind = "load") /\ \A b \in Rows(w.s) : Untouched(b)

LEMMA Becoming ==
  ASSUME IInv, NEW w, Good(w), w.s.nextId >= s.nextId, Due(w, job'), s' = w.s, d' = w.d,
         running' = TRUE, UNCHANGED <<up, queue, frames>>, events' \in Nat, Stored'
  PROVE  IInv' /\ Added
<1>1. World' = w
  BY WorldParts DEF World, Good, Sound
<1>2. \A b : RowOk(b) => RowOk(b)'
  BY DEF RowOk, RingOk, ComingOk
<1>3. \A st, n, x : Agrees(st, n, x) => Agrees(st, n, x)'
  BY DEF Agrees
<1>4. Sound(World)'
  <2>1. World' \in Worlds /\ Distinct(World.s)'
    BY <1>1 DEF Good, Sound, Distinct, Rows
  <2>2. \A b \in Rows(World.s)' : RowOk(b)'
    BY <1>1, <1>2 DEF Good, Sound, Rows
  <2>3. \A n \in BusNames : Agrees(World.s, n, World.d[n])'
    BY <1>1, <1>3 DEF Good, Sound
  <2> QED
    BY <2>1, <2>2, <2>3 DEF Good, Sound
<1>5. Queued'
  <2>1. s.nextId \in Nat /\ w.s.nextId \in Nat /\ queue \in Seq((Nat \ {0}) \X Packets)
    BY WorldParts DEF Good, Sound, IInv, TypeOK, StateSet
  <2>2. DOMAIN queue = 1..Len(queue) /\ \A k \in DOMAIN queue : queue[k][1] \in Nat
    BY <2>1, LenProperties, ElementOfSeq
  <2> QED
    BY <2>1, <2>2 DEF Queued, IInv
<1>6. Waiting'
  BY DEF Due, Waiting, Rows
<1>7. Added
  BY DEF Added, Good
<1> QED
  BY <1>4, <1>5, <1>6, <1>7, Together DEF IInv, TypeOK, Closed

LEMMA PingKeeps ==
  ASSUME IInv, job = NoJob, NEW answered \in BOOLEAN, NEW ack \in BOOLEAN, NEW lost
  PROVE  LET w == Ping(World, answered, ack, lost)
         IN  Good(w) /\ w.s.nextId = s.nextId /\ Waits(w) /\ SameRows(World, w)
<1>0. PICK c \in BOOLEAN : c = (up /\ answered)
  BY DEF IInv, TypeOK
<1> DEFINE t == [s EXCEPT !.connected = c]
           seen == [World EXCEPT !.s.connected = c]
           due == c /\ ~s.connected /\ s.needsSync
<1>1. /\ World.s = s /\ World.d = d /\ Good(World) /\ World \in Worlds /\ s \in StateSet
      /\ d \in [BusNames -> BusSet] /\ s.connected \in BOOLEAN
  BY Here DEF World, IInv, TypeOK, Good, Sound, StateSet
<1>2. seen = [s |-> t, d |-> d]
  BY DEF World
<1>3. /\ t \in StateSet /\ t.buses = s.buses /\ t.nextId = s.nextId /\ t.connected = c
      /\ t.needsSync = s.needsSync /\ t.selected = s.selected
  BY <1>1 DEF StateSet
<1> HIDE DEF t, seen
<1>4. seen \in Worlds /\ seen.s = t /\ seen.d = d /\ Rows(seen.s) = Rows(s)
  BY <1>1, <1>2, <1>3 DEF Worlds, Rows
<1>5. Good(seen)
  <2>1. /\ seen.d = World.d /\ seen.s.buses = World.s.buses /\ seen.s.nextId = World.s.nextId
        /\ seen.s.selected \in {b.id : b \in Rows(World.s)} \cup {0}
    BY <1>1, <1>3, <1>4 DEF Good, Sound, Distinct
  <2> QED
    BY <1>1, <1>4, <2>1, RestChanges
<1>6. Waits(World) /\ SameRows(World, seen)
  BY Here, <1>1, <1>3, <1>4 DEF SameRows, SubOnly
<1>9. Ping(World, answered, ack, lost) = IF due THEN SyncBusesToDaemon(seen, ack, lost) ELSE seen
  BY <1>0, <1>1, <1>3, <1>4 DEF Ping, seen
<1>7. CASE due
  <2>2. seen.s.connected /\ \A b \in Rows(seen.s) : Untouched(b)
    BY <1>1, <1>3, <1>4, <1>6, <1>7 DEF Waits
  <2>3. LET v == SyncBusesToDaemon(seen, ack, lost)
        IN  Good(v) /\ v.s.nextId = seen.s.nextId /\ v.s.needsSync = FALSE /\ SameRows(seen, v)
    BY <1>5, <2>2, SyncKeeps
  <2> QED
    BY <1>1, <1>3, <1>4, <1>7, <1>9, <2>3 DEF Waits, SameRows
<1>8. CASE ~due
  <2>2. Waits(seen)
    BY <1>1, <1>3, <1>4, <1>6, <1>8 DEF Waits
  <2> QED
    BY <1>3, <1>4, <1>5, <1>6, <1>8, <1>9, <2>2
<1> QED
  BY <1>7, <1>8

LEMMA TickStep ==
  ASSUME IInv, TickOnly \/ \E answered \in BOOLEAN : TickPing(answered)
  PROVE  IInv' /\ Added
<1>1. PICK w : Tick(w) /\ Good(w) /\ w.s.nextId = s.nextId /\ Waits(w) /\ SameRows(World, w)
  <2>1. job = NoJob
    BY DEF TickOnly, TickPing, Tick
  <2>2. World.s = s /\ Good(World) /\ Waits(World) /\ SameRows(World, World)
    BY <2>1, Here DEF SameRows, SubOnly
  <2>3. CASE TickOnly
    BY <2>2, <2>3 DEF TickOnly
  <2>4. CASE \E answered \in BOOLEAN : TickPing(answered)
    <3>1. PICK answered \in BOOLEAN, ack \in BOOLEAN :
                 \E lost : Tick(Ping(World, answered, ack, lost))
      BY <2>4 DEF TickPing
    <3>2. PICK lost : Tick(Ping(World, answered, ack, lost))
      BY <3>1
    <3> QED
      BY <2>1, <3>2, PingKeeps
  <2> QED
    BY <2>3, <2>4
<1> DEFINE st == Mock(Drain(w.s))
           fin == [st EXCEPT !.globalRec = AnyRecording(st)]
<1>2. w \in Worlds /\ w.s \in StateSet /\ w.d \in [BusNames -> BusSet] /\ w.s.selected \in Nat
  BY <1>1, WorldParts DEF Good, Sound
<1>3. RingsOnly(w.s, Drain(w.s))
  BY <1>1, <1>2, DrainKeeps DEF Good, Sound, IInv
<1>4. RingsOnly(Drain(w.s), st)
  BY <1>3, MockKeeps DEF RingsOnly, IInv
<1>5. RingsOnly(w.s, st)
  BY <1>2, <1>3, <1>4, RingsTrans
<1> HIDE DEF st
<1>6. RingsOnly(w.s, fin)
  <2>1. AnyRecording(st) \in BOOLEAN /\ st \in StateSet
    BY <1>5 DEF AnyRecording, RingsOnly
  <2>2. /\ fin \in StateSet /\ fin.buses = st.buses /\ fin.nextId = st.nextId
        /\ fin.connected = st.connected /\ fin.needsSync = st.needsSync
        /\ fin.selected = st.selected /\ fin.path = st.path
    <3> HIDE DEF AnyRecording
    <3> QED
      BY <2>1 DEF StateSet
  <2> HIDE DEF fin
  <2> QED
    BY <1>5, <2>2 DEF RingsOnly
<1>7. /\ s' = fin /\ d' = w.d /\ queue' = <<>> /\ running
      /\ job = NoJob
      /\ UNCHANGED <<up, disk, recent, running, job, saved, frames, events>>
  BY <1>1 DEF Tick, st
<1> HIDE DEF fin
<1> DEFINE v == [s |-> fin, d |-> w.d]
<1>8. v \in Worlds /\ v.s = fin /\ v.d = w.d
  BY <1>2, <1>6 DEF Worlds, RingsOnly
<1>9. World' = v
  BY <1>7 DEF World
<1> HIDE DEF v
<1>10. /\ Distinct(v.s)
       /\ \A n \in BusNames : Agrees(v.s, n, v.d[n])
       /\ \A b \in Rows(v.s) : RingOk(b) /\ Grows(b) /\ b.born <= frames
       /\ \A b \in Rows(v.s) : \E c \in Rows(w.s) : SubOnly(c, b)
  BY <1>1, <1>6, <1>8, TunedRows, RingsKeep
<1>11. Sound(World)'
  <2>1. \A b \in Rows(World.s)' : RowOk(b)'
    <3>1. \A b : RingOk(b) => RingOk(b)'
      BY <1>7 DEF RingOk
    <3>2. \A b : ComingOk(b)'
      BY <1>7 DEF ComingOk
    <3>3. \A b \in Rows(World.s)' : RingOk(b) /\ b.born <= frames
      BY <1>9, <1>10 DEF Rows
    <3> QED
      BY <1>7, <3>1, <3>2, <3>3 DEF RowOk
  <2>2. Distinct(World.s)' /\ World' \in Worlds
    BY <1>8, <1>9, <1>10 DEF Distinct, Rows
  <2>3. \A n \in BusNames : Agrees(World.s, n, World.d[n])'
    <3>1. \A t, n, x : Agrees(t, n, x) => Agrees(t, n, x)'
      BY <1>7 DEF Agrees
    <3> QED
      BY <1>9, <1>10, <3>1
  <2> QED
    BY <2>1, <2>2, <2>3 DEF Good, Sound
<1>12. Waiting'
  <2>1. Waits(v)
    BY <1>1, <1>6, <1>8, <1>10 DEF Waits, RingsOnly, SubOnly, Untouched
  <2> QED
    BY <1>7, <1>8, <2>1 DEF Waits, Waiting, Rows
<1>13. Queued' /\ queue' \in Seq((Nat \ {0}) \X Packets)
  BY <1>7 DEF Queued
<1>14. Stored'
  BY <1>7 DEF Stored, IInv, TypeOK, OnFile, Coming, Readable, JobOk
<1>15. Added
  BY <1>7, <1>8, <1>10 DEF Added
<1> QED
  BY <1>7, <1>11, <1>12, <1>13, <1>14, <1>15, Together DEF IInv, TypeOK, Closed

\* A frame that is carried bears a number of its own, above all there were.
LEMMA CarryStep ==
  ASSUME IInv, NEW n \in BusNames, NEW len \in Lens, Carry(n, len)
  PROVE  IInv' /\ Added
<1> DEFINE f == [seq |-> frames + 1, vlan |-> 0, size |-> TsHi % 65536]
           m == <<d[n].sub, f>>
<1>1. /\ d[n].sub # 0 /\ frames' = frames + 1 /\ events' = events + 1
      /\ queue' = queue \/ queue' = Append(queue, m)
      /\ UNCHANGED <<up, d, disk, recent, running, s, job, saved>>
  BY DEF Carry, Event
<1>2. f \in Packets /\ f.seq = frames + 1
  BY GuiAssumption DEF IInv, TypeOK, Packets
<1> HIDE DEF f
<1>5. World.s = s /\ World.d = d /\ World' = World
  BY <1>1 DEF World
<1>6. PICK b \in Rows(s) : b.id = d[n].sub /\ b.sub
  BY <1>1, <1>5 DEF IInv, Good, Sound, Agrees
<1>7. d[n].sub \in Nat \ {0} /\ d[n].sub < s.nextId
  BY <1>1, <1>5, <1>6 DEF IInv, TypeOK, BusSet, Good, Sound, Distinct
<1>8. m \in (Nat \ {0}) \X Packets /\ m[1] = d[n].sub /\ m[2] = f
  BY <1>2, <1>7
<1> HIDE DEF m
<1>9. queue \in Seq((Nat \ {0}) \X Packets) /\ frames \in Nat
  BY DEF IInv, TypeOK
<1>10. /\ DOMAIN queue = 1..Len(queue) /\ Len(queue) \in Nat
       /\ \A k \in DOMAIN queue : queue[k] \in (Nat \ {0}) \X Packets
  BY <1>9, LenProperties, ElementOfSeq
<1>11. \/ queue' = queue
       \/ /\ queue' = Append(queue, m) /\ DOMAIN queue' = 1..(Len(queue) + 1)
          /\ queue'[Len(queue) + 1] = m /\ \A k \in DOMAIN queue : queue'[k] = queue[k]
  <2> DEFINE q == Append(queue, m)
  <2>1. Len(q) = Len(queue) + 1 /\ q \in Seq((Nat \ {0}) \X Packets)
    BY <1>8, <1>9, AppendProperties
  <2>2. DOMAIN q = 1..(Len(queue) + 1)
    BY <2>1, LenProperties
  <2>3. q[Len(queue) + 1] = m /\ \A k \in 1..Len(queue) : q[k] = queue[k]
    BY <1>8, <1>9, AppendProperties
  <2>4. queue' = queue \/ queue' = q
    BY <1>1
  <2> HIDE DEF q
  <2> QED
    BY <1>10, <2>2, <2>3, <2>4 DEF q
<1>12. queue' \in Seq((Nat \ {0}) \X Packets)
  BY <1>8, <1>9, <1>11, AppendProperties
<1>13. \A k \in DOMAIN queue' : \/ k \in DOMAIN queue /\ queue'[k] = queue[k]
                                \/ queue'[k] = m /\ k = Len(queue) + 1
  <2>1. \A k \in 1..(Len(queue) + 1) : k \in 1..Len(queue) \/ k = Len(queue) + 1
    BY <1>10
  <2> QED
    <3>1. CASE queue' = queue
      BY <3>1
    <3>2. CASE queue' # queue
      <4>1. /\ DOMAIN queue' = 1..(Len(queue) + 1) /\ DOMAIN queue = 1..Len(queue)
            /\ queue'[Len(queue) + 1] = m /\ \A k \in DOMAIN queue : queue'[k] = queue[k]
        BY <1>10, <1>11, <3>2
      <4> QED
        BY <2>1, <4>1
    <3> QED
      BY <3>1, <3>2
<1>14. \A k \in DOMAIN queue : queue[k][2].seq \in 1..frames
  BY DEF IInv, Queued
<1>15. Queued'
  <2>1. ASSUME NEW k \in DOMAIN queue'
        PROVE  queue'[k][1] < s.nextId /\ queue'[k][2].seq \in 1..(frames + 1)
    <3>1. CASE k \in DOMAIN queue /\ queue'[k] = queue[k]
      BY <1>9, <3>1 DEF IInv, Queued
    <3>2. CASE queue'[k] = m
      BY <1>2, <1>7, <1>8, <1>9, <3>2
    <3> QED
      BY <1>13, <2>1, <3>1, <3>2
  <2>2. ASSUME NEW j \in DOMAIN queue', NEW k \in DOMAIN queue', j < k
        PROVE  queue'[j][2].seq < queue'[k][2].seq
    <3>1. j \in DOMAIN queue /\ queue'[j] = queue[j]
      BY <1>10, <1>11, <1>13, <2>2
    <3>2. CASE k \in DOMAIN queue /\ queue'[k] = queue[k]
      BY <2>2, <3>1, <3>2 DEF IInv, Queued
    <3>3. CASE queue'[k] = m
      BY <1>2, <1>8, <1>9, <1>14, <3>1, <3>3
    <3> QED
      BY <1>13, <3>2, <3>3
  <2> QED
    BY <1>1, <2>1, <2>2 DEF Queued
<1>16. ASSUME NEW c \in Rows(s)
       PROVE  RowOk(c)'
  <2>1. RowOk(c) /\ c \in RowSet
    BY <1>5, RowIn DEF IInv, Sound
  <2>2. /\ c.born \in Nat /\ DOMAIN c.ring = 1..Len(c.ring)
        /\ \A k \in DOMAIN c.ring : c.ring[k] \in Packets /\ c.ring[k].seq \in Nat
    <3>1. c.born \in Nat /\ c.ring \in Seq(Packets)
      BY <2>1 DEF RowSet
    <3>2. DOMAIN c.ring = 1..Len(c.ring) /\ \A k \in 1..Len(c.ring) : c.ring[k] \in Packets
      BY <3>1, LenProperties, ElementOfSeq
    <3> QED
      BY <3>1, <3>2 DEF Packets
  <2>3. RingOk(c)'
    BY <1>1, <1>9, <2>1, <2>2 DEF RowOk, RingOk
  <2>4. c.id = d[n].sub => c.sub
    BY <1>5, <1>6, RowIn DEF IInv, Sound
  <2>5. \A k \in DOMAIN c.ring : c.ring[k].seq <= frames
    BY <2>1 DEF RowOk, RingOk
  <2>6. ASSUME NEW j \in DOMAIN queue', queue'[j][1] = c.id
        PROVE  /\ c.sub /\ queue'[j][2].seq > c.born
               /\ \A k \in DOMAIN c.ring : queue'[j][2].seq > c.ring[k].seq
    <3>1. CASE j \in DOMAIN queue /\ queue'[j] = queue[j]
      BY <2>1, <2>6, <3>1 DEF RowOk, ComingOk
    <3>2. CASE queue'[j] = m
      <4>1. f.seq = frames + 1 /\ c.born <= frames
        BY <1>2, <2>1 DEF RowOk
      <4> QED
        BY <1>8, <1>9, <2>2, <2>4, <2>5, <2>6, <3>2, <4>1
    <3> QED
      BY <1>13, <3>1, <3>2
  <2>7. ComingOk(c)'
    BY <2>6 DEF ComingOk
  <2> QED
    BY <1>1, <1>9, <2>1, <2>2, <2>3, <2>7 DEF RowOk
<1>17. Sound(World)'
  <2>1. World' \in Worlds /\ Distinct(World.s)'
    BY <1>5 DEF IInv, Good, Sound, Distinct, Rows
  <2>2. \A c \in Rows(World.s)' : RowOk(c)'
    BY <1>5, <1>16 DEF Rows
  <2>3. \A k \in BusNames : Agrees(World.s, k, World.d[k])'
    <3>1. \A t, k, x : Agrees(t, k, x) => Agrees(t, k, x)'
      BY <1>1 DEF Agrees
    <3> QED
      BY <1>5, <3>1 DEF IInv, Good, Sound
  <2> QED
    BY <2>1, <2>2, <2>3 DEF Good, Sound
<1>18. Waiting'
  BY <1>1 DEF IInv, Waiting, Rows
<1>19. Stored'
  BY <1>1 DEF Stored, IInv, TypeOK, OnFile, Coming, Readable, JobOk, Kept
<1>20. Closed'
  <2>1. running
    BY <1>6 DEF IInv, Closed, NoState, Rows
  <2> QED
    BY <1>1, <2>1 DEF Closed
<1> QED
  BY <1>1, <1>9, <1>12, <1>15, <1>17, <1>18, <1>19, <1>20, Together, Stands DEF IInv, TypeOK

\* An operation of the window, on any of its state but the files.
LEMMA Operated ==
  ASSUME IInv, Operation, NEW w, Becomes(w), Good(w), w.s.nextId >= s.nextId, Waits(w)
  PROVE  IInv' /\ Added
<1>1. Stored'
  BY DEF Operation, Becomes, Stored, IInv, TypeOK, OnFile, Coming, Readable, JobOk
<1>2. Due(w, job')
  BY DEF Waits, Due
<1> QED
  BY <1>1, <1>2, Becoming DEF Becomes, Operation, Event, IInv, TypeOK

\* An operation on row b, which becomes the one selected.
LEMMA RowOperated ==
  ASSUME IInv, Operation, NEW v, Good(v), Same(s, v.s), Waits(v),
         NEW b, \E c \in Rows(v.s) : c.id = b.id, Becomes(Selecting(b, v))
  PROVE  IInv' /\ Added
<1>1. LET w == Selecting(b, v)
      IN  Good(w) /\ Kind(v, w) /\ v.s.buses = w.s.buses /\ Rows(v.s) = Rows(w.s)
  BY SelectKeeps
<1>2. s.nextId \in Nat
  BY DEF IInv, TypeOK, StateSet
<1> QED
  BY <1>1, <1>2, Operated DEF Kind, Same, Waits

\* While the daemon is thought to be there, no list waits for it.
LEMMA NoneWaits ==
  ASSUME IInv, job = NoJob, s.connected, NEW v, Same(s, v.s)
  PROVE  Waits(v)
  BY DEF IInv, Waiting, Waits, Same, NoJob

LEMMA StillWaits ==
  ASSUME IInv, job = NoJob, NEW b \in Rows(s), NEW row, NEW v, Same(s, v.s), Replaced(World, v, b, row),
         Untouched(b) => Untouched(row)
  PROVE  Waits(v)
  BY Here DEF Waits, Same, Replaced

\* An operation that tells the daemon nothing.
LEMMA RowSilent ==
  ASSUME IInv, Operation, NEW b \in Rows(s), NEW row \in RowSet, Relabels(b, row),
         row.rec = b.rec, row.fwd = b.fwd, (row.iface = "net") = (b.iface = "net"),
         RowBecomes(row)
  PROVE  IInv' /\ Added
<1>1. /\ Good(World) /\ World.s = s /\ b \in Rows(World.s) /\ row.id = b.id /\ job = NoJob
      /\ Labels(b, row, "live", TRUE)
  BY Here DEF Relabels, Labels, Operation
<1>2. LET v == SetRow(World, row)
      IN  Good(v) /\ Same(s, v.s) /\ Replaced(World, v, b, row)
  BY <1>1, RowOnly
<1>3. PICK v : v = SetRow(World, row)
  OBVIOUS
<1>4. Waits(v)
  <2>1. Untouched(b) => Untouched(row)
    BY DEF Untouched
  <2> QED
    BY <1>1, <1>2, <1>3, <2>1, StillWaits
<1>5. Becomes(Selecting(row, v))
  BY <1>3 DEF RowBecomes
<1>6. \E c \in Rows(v.s) : c.id = row.id
  BY <1>2, <1>3 DEF Replaced
<1> QED
  BY <1>2, <1>3, <1>4, <1>5, <1>6, RowOperated

\* An operation that tells the daemon of row b what the row will show.
LEMMA RowTold ==
  ASSUME IInv, Operation, s.connected, NEW b \in Rows(s), NEW row \in RowSet, Relabels(b, row),
         NEW word, NEW lost, NEW part \in {"rec", "cap", "fwd", "live"}, NEW v \in BOOLEAN, part = "live" => v = TRUE,
         d[b.name].live => Follows(b, row, word, part, v, lost),
         Tell(b, word, part, v, row, lost)
  PROVE  IInv' /\ Added
<1>1. Good(World) /\ World.s = s /\ World.d = d /\ b \in Rows(World.s) /\ job = NoJob
  BY Here DEF Operation
<1>2. Telling(World, b, row, word, part, v, lost)
  BY <1>1, TellKeeps
<1>3. PICK u : u = SetRow([World EXCEPT !.d = Command(@, b, word, part, v, lost)], row)
  OBVIOUS
<1>4. Good(u) /\ Same(s, u.s) /\ Replaced(World, u, b, row)
  BY <1>1, <1>2, <1>3 DEF Telling
<1>5. \E c \in Rows(u.s) : c.id = b.id
  BY <1>4 DEF Replaced, Relabels
<1>6. Becomes(Selecting(b, u))
  BY <1>3 DEF Tell
<1>7. Waits(u)
  BY <1>1, <1>4, NoneWaits
<1> QED
  BY <1>4, <1>5, <1>6, <1>7, RowOperated

LEMMA RowTypes ==
  ASSUME IInv, NEW b \in Rows(s)
  PROVE  /\ b \in RowSet /\ b.name \in BusNames /\ b.id \in Nat \ {0}
         /\ d \in [BusNames -> BusSet] /\ d[b.name].live \in BOOLEAN /\ up \in BOOLEAN
<1>1. Good(World) /\ World.s = s /\ b \in Rows(World.s)
  BY Here
<1>2. b \in RowSet /\ b.name \in BusNames /\ b.id \in Nat \ {0}
  BY <1>1, RowAt
<1> QED
  BY <1>2 DEF IInv, TypeOK, BusSet

\* The buttons that only change the window.
LEMMA SilentSteps ==
  ASSUME IInv, NEW b \in Rows(s),
         \/ ToggleEnabled(b) \/ TypeRecordPath(b) \/ AttachMock(b)
         \/ \E l \in FilterLists : EditFilters(b, l)
  PROVE  IInv' /\ Added
<1>1. b \in RowSet
  BY RowTypes
<1>2. CASE ToggleEnabled(b)
  <2>1. PICK row : row = [b EXCEPT !.enabled = ~@]
    OBVIOUS
  <2>2. /\ row \in RowSet /\ Relabels(b, row) /\ row.rec = b.rec /\ row.fwd = b.fwd
        /\ row.iface = b.iface
    BY <1>1, <2>1 DEF RowSet, Relabels
  <2> QED
    BY <1>2, <2>1, <2>2, RowSilent DEF ToggleEnabled
<1>3. CASE TypeRecordPath(b)
  <2>1. PICK row : row = [b EXCEPT !.file = TRUE]
    OBVIOUS
  <2>2. /\ row \in RowSet /\ Relabels(b, row) /\ row.rec = b.rec /\ row.fwd = b.fwd
        /\ row.iface = b.iface
    BY <1>1, <2>1 DEF RowSet, Relabels
  <2> QED
    BY <1>3, <2>1, <2>2, RowSilent DEF TypeRecordPath
<1>4. CASE AttachMock(b)
  <2>1. PICK row : row = [b EXCEPT !.iface = "mock"]
    OBVIOUS
  <2>2. /\ row \in RowSet /\ Relabels(b, row) /\ row.rec = b.rec /\ row.fwd = b.fwd
        /\ row.iface = "mock"
    BY <1>1, <2>1 DEF RowSet, Relabels
  <2>3. b.iface = "none"
    BY <1>4 DEF AttachMock
  <2> QED
    BY <1>4, <2>1, <2>2, <2>3, RowSilent DEF AttachMock
<1>5. ASSUME NEW l \in FilterLists, EditFilters(b, l)
      PROVE  IInv' /\ Added
  <2>1. PICK row : row = [b EXCEPT !.filters = l]
    OBVIOUS
  <2>2. /\ row \in RowSet /\ Relabels(b, row) /\ row.rec = b.rec /\ row.fwd = b.fwd
        /\ row.iface = b.iface
    BY <1>1, <2>1 DEF RowSet, Relabels
  <2> QED
    BY <1>5, <2>1, <2>2, RowSilent DEF EditFilters
<1> QED
  BY <1>2, <1>3, <1>4, <1>5

\* The buttons that have the daemon do something, and the record on the row of it.
LEMMA ToldSteps ==
  ASSUME IInv, NEW b \in Rows(s),
         NEW lost,
         \/ StopForward(b, lost) \/ ReplayFile(b, lost)
         \/ \E ok \in BOOLEAN : AttachNet(b, ok, lost) \/ StartRecord(b, ok, lost)
  PROVE  IInv' /\ Added
<1>1. b \in RowSet /\ d[b.name].live \in BOOLEAN /\ up \in BOOLEAN
  BY RowTypes
<1>2. b.rec \in BOOLEAN /\ b.fwd \in BOOLEAN /\ b.iface \in {"none", "mock", "net"}
  BY <1>1 DEF RowSet
<1>4. CASE StopForward(b, lost)
  <2>1. PICK row : row = [b EXCEPT !.fwd = FALSE]
    OBVIOUS
  <2>2. /\ row \in RowSet /\ Relabels(b, row) /\ row.rec = b.rec /\ row.fwd = FALSE
        /\ row.iface = b.iface
    BY <1>1, <2>1 DEF RowSet, Relabels
  <2>3. Follows(b, row, "stop-forward", "fwd", FALSE, lost)
    BY <1>2, <2>2 DEF Follows, Looked, Labels
  <2>4. Operation /\ s.connected /\ Tell(b, "stop-forward", "fwd", FALSE, row, lost)
    BY <1>4, <2>1 DEF StopForward
  <2> QED
    BY <2>2, <2>3, <2>4, RowTold
<1>5. CASE ReplayFile(b, lost)
  <2>1. Follows(b, b, "replay", "live", TRUE, lost) /\ Relabels(b, b)
    BY <1>2 DEF Follows, Labels, Relabels
  <2>2. Operation /\ s.connected /\ Tell(b, "replay", "live", TRUE, b, lost)
    BY <1>5 DEF ReplayFile
  <2> QED
    BY <1>1, <2>1, <2>2, RowTold
<1>6. ASSUME NEW ok \in BOOLEAN, AttachNet(b, ok, lost)
      PROVE  IInv' /\ Added
  <2>0. PICK refused \in BOOLEAN :
               refused = (Heard(lost, b.id, "capture") /\ ~(ok /\ d[b.name].live))
    BY <1>1 DEF Heard
  <2>1. PICK row : row = [b EXCEPT !.iface = IF refused THEN "none" ELSE "net"]
    OBVIOUS
  <2>2. /\ row \in RowSet /\ Relabels(b, row) /\ row.rec = b.rec /\ row.fwd = b.fwd
        /\ row.iface = IF refused THEN "none" ELSE "net"
    BY <1>1, <2>1 DEF RowSet, Relabels
  <2>3. d[b.name].live /\ Heard(lost, b.id, "capture") => (row.iface = "net") = ok
    BY <2>0, <2>2
  <2>4. d[b.name].live => Follows(b, row, "capture", "cap", ok, lost)
    BY <1>2, <2>2, <2>3 DEF Follows, Looked, Labels
  <2>5. Operation /\ s.connected /\ Tell(b, "capture", "cap", ok, row, lost)
    BY <1>6, <2>0, <2>1 DEF AttachNet
  <2> QED
    BY <2>2, <2>4, <2>5, RowTold
<1>7. ASSUME NEW ok \in BOOLEAN, StartRecord(b, ok, lost)
      PROVE  IInv' /\ Added
  <2>0. PICK rec \in BOOLEAN : rec = Recording(b, ok, lost)
    BY <1>1 DEF Recording, Heard
  <2>1. PICK row : row = [b EXCEPT !.rec = rec]
    OBVIOUS
  <2>2. /\ row \in RowSet /\ Relabels(b, row) /\ row.rec = rec /\ row.fwd = b.fwd
        /\ row.iface = b.iface
    BY <1>1, <2>1 DEF RowSet, Relabels
  <2>3. /\ d[b.name].live /\ Heard(lost, b.id, "record") => rec = ok
        /\ ~Heard(lost, b.id, "record") => ~rec
    BY <2>0 DEF Recording
  <2>4. d[b.name].live => Follows(b, row, "record", "rec", ok, lost)
    BY <1>2, <2>2, <2>3 DEF Follows, Looked, Labels
  <2>5. Operation /\ s.connected /\ Tell(b, "record", "rec", ok, row, lost)
    BY <1>7, <2>0, <2>1 DEF StartRecord
  <2> QED
    BY <2>2, <2>4, <2>5, RowTold
<1> QED
  BY <1>4, <1>5, <1>6, <1>7

LEMMA ModelSteps ==
  ASSUME IInv, NEW b \in Rows(s),
         NEW lost,
         \/ Detach(b, lost) \/ StopRecordButton(b, lost)
         \/ \E ok \in BOOLEAN : StartForwardButton(b, ok, lost)
  PROVE  IInv' /\ Added
<1>1. Good(World) /\ World.s = s /\ b \in Rows(World.s) /\ b \in RowSet /\ job = NoJob
  BY Here, RowTypes DEF Detach, StopRecordButton, StartForwardButton, Operation
<1>2. CASE Detach(b, lost)
  <2>1. PICK v : v = DetachIface(World, b.id, lost)
    OBVIOUS
  <2>2. PICK row : row = [b EXCEPT !.iface = "none"]
    OBVIOUS
  <2>3. Good(v) /\ Same(s, v.s) /\ Replaced(World, v, b, row)
    BY <1>1, <2>1, <2>2, DetachKeeps
  <2>4. /\ row.id = b.id /\ row.rec = b.rec /\ row.fwd = b.fwd /\ row.iface = "none"
    BY <1>1, <2>2 DEF RowSet
  <2>5. Untouched(b) => Untouched(row)
    BY <2>4 DEF Untouched
  <2>6. Waits(v)
    BY <1>1, <2>3, <2>5, StillWaits
  <2>7. \E c \in Rows(v.s) : c.id = b.id
    BY <2>3, <2>4 DEF Replaced
  <2>8. Operation /\ Becomes(Selecting(b, v))
    BY <1>2, <2>1 DEF Detach
  <2> QED
    BY <2>3, <2>6, <2>7, <2>8, RowOperated
<1>3. CASE StopRecordButton(b, lost)
  <2>1. PICK v : v = StopRecord(World, b.id, lost)
    OBVIOUS
  <2>2. Operation /\ s.connected /\ Becomes(Selecting(b, v))
    BY <1>3, <2>1 DEF StopRecordButton
  <2>3. Good(v) /\ Same(s, v.s) /\ \E c \in Rows(v.s) : c.id = b.id
    BY <1>1, <2>1, <2>2, StopRecordKeeps
  <2>4. Waits(v)
    BY <1>1, <2>2, <2>3, NoneWaits
  <2> QED
    BY <2>2, <2>3, <2>4, RowOperated
<1>4. ASSUME NEW ok \in BOOLEAN, StartForwardButton(b, ok, lost)
      PROVE  IInv' /\ Added
  <2>1. PICK v : v = StartForward(World, b.id, ok, lost)
    OBVIOUS
  <2>2. Operation /\ s.connected /\ ~b.fwd /\ Becomes(Selecting(b, v))
    BY <1>4, <2>1 DEF StartForwardButton
  <2>3. Good(v) /\ Same(s, v.s) /\ \E c \in Rows(v.s) : c.id = b.id
    BY <1>1, <2>1, <2>2, StartForwardKeeps
  <2>4. Waits(v)
    BY <1>1, <2>2, <2>3, NoneWaits
  <2> QED
    BY <2>2, <2>3, <2>4, RowOperated
<1> QED
  BY <1>2, <1>3, <1>4

\* A renamed row leaves its bus behind, which is nobody's alone from then on.
LEMMA RenameStep ==
  ASSUME IInv, NEW b \in Rows(s), NEW n \in BusNames, Rename(b, n)
  PROVE  IInv' /\ Added
<1>1. /\ Good(World) /\ World.s = s /\ World.d = d /\ b \in Rows(World.s) /\ b \in RowSet
      /\ World \in Worlds /\ Distinct(World.s)
      /\ b.name \in BusNames /\ b.id \in Nat \ {0} /\ d \in [BusNames -> BusSet] /\ n # b.name /\ job = NoJob
      /\ \A c \in Rows(s) : c.id = b.id => c = b
  BY Here, RowTypes, RowAt DEF Good, Sound, Rename, Operation
<1>2. PICK row : row = [b EXCEPT !.name = n]
  OBVIOUS
<1>3. row \in RowSet /\ row.id = b.id /\ row.name = n /\ row.sub = b.sub /\ (Untouched(b) => Untouched(row))
  BY <1>1, <1>2 DEF RowSet, Untouched
<1> DEFINE y == d[b.name]
           x == LetGo(y, b.id)
<1>4. /\ x \in BusSet /\ x.live = y.live /\ x.sub = y.sub
      /\ x = y \/ 0 \in x.users
      /\ y.live \/ x = y
      /\ b.id \in x.users => 0 \in x.users
  <2>1. y \in BusSet /\ (~y.live => y = NoBus)
    BY <1>1 DEF Good, Sound, Agrees
  <2> HIDE DEF y
  <2>2. ~y.live => y.users = {}
    BY <2>1 DEF NoBus
  <2>3. x = y \/ (y.users # {} /\ x.users = y.users \cup {0})
    BY <1>1, <2>1, LetGoIs DEF LetGo
  <2> QED
    BY <1>1, <2>1, <2>2, <2>3, LetGoIs
<1>5. PICK e : e = Forgotten(d, b)
  OBVIOUS
<1>6. e = [d EXCEPT ![b.name] = x]
  BY <1>1, <1>5, ForgottenIs
<1>7. e \in [BusNames -> BusSet] /\ e[b.name] = x /\ \A m \in BusNames : m # b.name => e[m] = d[m]
  BY <1>1, <1>4, <1>6
<1>8. PICK u : u = [World EXCEPT !.d = Forgotten(@, b)]
  OBVIOUS
<1>9. u \in Worlds /\ u.s = s /\ u.d = e /\ Rows(u.s) = Rows(s)
  BY <1>1, <1>5, <1>7, <1>8 DEF World, Worlds
<1>10. PICK v : v = SetRow(u, row)
  OBVIOUS
<1>11. /\ v \in Worlds /\ v.d = e /\ Same(s, v.s) /\ Replaced(World, v, b, row) /\ Distinct(v.s)
       /\ v.s \in StateSet
  <2>1. Replaced(u, v, b, row) /\ Distinct(v.s)
    BY <1>1, <1>3, <1>9, <1>10, SetRowReplaces
  <2>2. v \in Worlds /\ v.d = e /\ Same(s, v.s)
    BY <1>3, <1>9, <1>10, SetRowIs
  <2> QED
    BY <1>1, <1>9, <2>1, <2>2, WorldParts DEF Replaced
<1>12. \A c \in Rows(s) : \E g \in Rows(v.s) : g.id = c.id /\ (c.sub => g.sub) /\ (c.name # b.name => g = c)
  BY <1>1, <1>3, <1>11 DEF Replaced
<1>13. \A g \in Rows(v.s) : g = row \/ (g \in Rows(s) /\ g.id # b.id)
  BY <1>1, <1>11 DEF Replaced
<1>14. Agrees(v.s, b.name, x)
  <2>1. Agrees(s, b.name, y)
    BY <1>1 DEF Good, Sound
  <2> HIDE DEF x, y
  <2>2. ASSUME NEW g \in Rows(v.s), x.live, g.name = b.name, x.users = {g.id}
        PROVE  Shows(g, x)
    <3>1. g.id # 0
      BY <1>11, WorldParts DEF RowSet
    <3>2. x = y /\ g \in Rows(s)
      BY <1>1, <1>3, <1>4, <1>13, <2>2, <3>1
    <3> QED
      BY <2>1, <2>2, <3>2 DEF Agrees
  <2>3. ~x.live => x = NoBus
    BY <1>4, <2>1 DEF Agrees
  <2>4. x.live => up /\ x.users # {}
    BY <1>4, <2>1 DEF Agrees
  <2>5. x.sub # 0 => \E c \in Rows(v.s) : c.id = x.sub /\ c.sub
    BY <1>4, <1>12, <2>1 DEF Agrees
  <2>6. ASSUME x.live, 0 \notin x.users, NEW i \in x.users
        PROVE  \E c \in Rows(v.s) : c.id = i /\ c.name = b.name
    <3>1. PICK c \in Rows(s) : c.id = i /\ c.name = b.name
      BY <1>4, <2>1, <2>6 DEF Agrees
    <3>2. c \in Rows(v.s)
      BY <1>1, <1>4, <1>11, <2>6, <3>1 DEF Replaced
    <3> QED
      BY <3>1, <3>2
  <2> QED
    BY <2>2, <2>3, <2>4, <2>5, <2>6 DEF Agrees
<1>15. ASSUME NEW m \in BusNames, m # b.name
       PROVE  Agrees(v.s, m, d[m])
  <2>1. Agrees(s, m, d[m])
    BY <1>1 DEF Good, Sound
  <2>2. ASSUME NEW g \in Rows(v.s), d[m].live, g.name = m, d[m].users = {g.id}
        PROVE  Shows(g, d[m])
    <3>1. CASE g \in Rows(s)
      BY <2>1, <2>2, <3>1 DEF Agrees
    <3>2. CASE g = row
      <4>1. 0 \notin d[m].users /\ b.id \in d[m].users
        BY <1>1, <1>3, <2>2, <3>2
      <4>2. \E c \in Rows(s) : c.id = b.id /\ c.name = m
        BY <2>1, <2>2, <4>1 DEF Agrees
      <4> QED
        BY <1>1, <1>15, <4>2
    <3> QED
      BY <1>13, <3>1, <3>2
  <2> QED
    BY <1>12, <1>15, <2>1, <2>2 DEF Agrees
<1>16. \A c \in Rows(v.s) : RowOk(c) /\ Grows(c)
  <2>1. RowOk(b) /\ Grows(b) /\ row.ring = b.ring /\ row.born = b.born
    BY <1>1, <1>2 DEF Good, Sound, RowSet
  <2>2. RowOk(row) /\ Grows(row)
    BY <1>3, <2>1 DEF RowOk, RingOk, ComingOk, Grows
  <2> QED
    BY <1>1, <1>13, <2>2 DEF Good, Sound
<1>17. Good(v)
  <2> HIDE DEF x, y
  <2>1. \A m \in BusNames : Agrees(v.s, m, v.d[m])
    BY <1>7, <1>11, <1>14, <1>15
  <2> QED
    BY <1>11, <1>16, <2>1 DEF Good, Sound
<1>18. Same(s, v.s) /\ Waits(v)
  BY <1>1, <1>3, <1>11, StillWaits
<1>19. \E c \in Rows(v.s) : c.id = b.id
  BY <1>3, <1>11 DEF Replaced
<1>20. Becomes(Selecting(b, v))
  BY <1>2, <1>8, <1>10 DEF Rename
<1> QED
  BY <1>17, <1>18, <1>19, <1>20, RowOperated DEF Rename

LEMMA InspectorStep ==
  ASSUME IInv, NEW b \in Rows(s), Inspector(b)
  PROVE  IInv' /\ Added
  BY SilentSteps, ToldSteps, ModelSteps, RenameStep DEF Inspector

\* The bus list's buttons.
LEMMA BusListStep ==
  ASSUME IInv, BusList
  PROVE  IInv' /\ Added
<1>1. Good(World) /\ World.s = s /\ World.d = d /\ Rows(World.s) = Rows(s) /\ TypeOK
  BY Here DEF IInv
<1>2. s.nextId \in Nat /\ s.buses \in Seq(RowSet) /\ Len(s.buses) \in Nat
  BY <1>1, LenProperties DEF TypeOK, StateSet
<1>3. \A k \in DOMAIN queue : queue[k][1] < World.s.nextId
  BY <1>1 DEF IInv, Queued
<1>4. ASSUME NEW b \in Rows(s), NEW lost, DeleteButton(b.id, lost)
      PROVE  IInv' /\ Added
  <2>1. PICK v : v = DeleteBus(World, b.id, lost)
    OBVIOUS
  <2>2. Good(v)
    BY <1>1, <2>1, DeleteKeeps
  <2>0. Deleted(World, b, v)
    BY <1>1, <2>1, DeleteBusIs
  <2>3. /\ v.s.nextId = s.nextId /\ v.s.connected = s.connected /\ v.s.needsSync = s.needsSync
        /\ \A c \in Rows(v.s) : c \in Rows(s)
    BY <1>1, <2>0 DEF Deleted
  <2>5. Operation /\ Becomes(v) /\ Waits(World)
    BY <1>4, <2>1, Here DEF DeleteButton, Operation
  <2>4. Waits(v)
    BY <1>1, <2>3, <2>5 DEF Waits
  <2> QED
    BY <1>2, <2>2, <2>3, <2>4, <2>5, Operated
<1>5. ASSUME NEW lost, StopRecordAll(lost)
      PROVE  IInv' /\ Added
  <2> DEFINE one(a, b) == IF ~b.rec THEN a
                          ELSE SetRow([a EXCEPT !.d = Command(@, b, "stoprec", "rec", FALSE, lost)],
                                      [b EXCEPT !.rec = FALSE])
             all == ForEachRow(one, World)
             v == [all EXCEPT !.s.globalRec = FALSE]
  <2>1. Good(all) /\ Same(s, all.s)
    <3>1. PICK r : r = StopsAll(World, lost)
      OBVIOUS
    <3>2. Good(r) /\ Same(s, r.s)
      BY <1>1, <3>1, StopAllKeeps
    <3>3. r = all
      BY <3>1 DEF StopsAll
    <3> QED
      BY <3>2, <3>3
  <2>2. Operation /\ AnyRecording(s) /\ Becomes(v)
    BY <1>5 DEF StopRecordAll
  <2> HIDE DEF all
  <2>3. Good(v) /\ Kind(all, v) /\ v.s.buses = all.s.buses
    BY <2>1, GlobalSet
  <2>4. v.s.nextId = s.nextId /\ v.s.needsSync = s.needsSync
    BY <2>1, <2>3 DEF Same, Kind
  <2>5. ~s.needsSync
    BY <2>2 DEF AnyRecording, IInv, Waiting, Untouched
  <2> HIDE DEF v
  <2>6. Waits(v)
    BY <2>4, <2>5 DEF Waits
  <2> QED
    BY <1>2, <2>2, <2>3, <2>4, <2>6, Operated
<1>6. ASSUME NEW ok \in BOOLEAN, NEW lost, StartRecordAll(ok, lost)
      PROVE  IInv' /\ Added
  <2> DEFINE one(a, b) == SetRow([a EXCEPT !.d = Command(@, b, "record", "rec", ok, lost)],
                                [b EXCEPT !.file = TRUE, !.rec = Recording(b, ok, lost)])
             all == ForEachRow(one, World)
             to == \E b \in Rows(all.s) : b.rec
             v == [all EXCEPT !.s.globalRec = to]
  <2>1. Good(all) /\ Same(s, all.s)
    <3>1. d = World.d
      BY <1>1
    <3>2. PICK r : r = RecordsAll(World, d, ok, lost)
      OBVIOUS
    <3>3. Good(r) /\ Same(s, r.s)
      BY <1>1, <3>1, <3>2, RecordAllKeeps
    <3>4. r = all
      BY <3>2 DEF RecordsAll, Recording
    <3> QED
      BY <3>3, <3>4
  <2>2. Operation /\ s.connected /\ Becomes(v)
    BY <1>6 DEF StartRecordAll
  <2> HIDE DEF all
  <2>3. PICK g \in BOOLEAN : g = to
    OBVIOUS
  <2> HIDE DEF to
  <2>4. Good(v) /\ Kind(all, v) /\ v.s.buses = all.s.buses
    BY <2>1, <2>3, GlobalSet
  <2>5. v.s.nextId = s.nextId /\ v.s.needsSync = s.needsSync
    BY <2>1, <2>4 DEF Same, Kind
  <2>6. ~s.needsSync
    BY <2>2 DEF Operation, NoJob, IInv, Waiting
  <2> HIDE DEF v
  <2>7. Waits(v)
    BY <2>5, <2>6 DEF Waits
  <2> QED
    BY <1>2, <2>2, <2>4, <2>5, <2>7, Operated
<1>7. ASSUME NEW ok \in BOOLEAN, NEW lost, StartReplayAll(ok, lost)
      PROVE  IInv' /\ Added
  <2> DEFINE one(a, b) == IF ~b.file \/ b.fwd THEN a ELSE StartForward(a, b.id, ok, lost)
             v == ForEachRow(one, World)
  <2>1. Operation /\ s.connected /\ Becomes(v)
    BY <1>7 DEF StartReplayAll
  <2>2. Good(v) /\ Same(s, v.s)
    <3>1. PICK r : r = ForwardsAll(World, ok, lost)
      OBVIOUS
    <3>2. Good(r) /\ Same(s, r.s)
      BY <1>1, <2>1, <3>1, ForwardAllKeeps
    <3>3. r = v
      BY <3>1 DEF ForwardsAll
    <3> QED
      BY <3>2, <3>3
  <2> HIDE DEF v
  <2>3. Waits(v)
    BY <2>1, <2>2, NoneWaits DEF Operation
  <2> QED
    BY <1>2, <2>1, <2>2, <2>3, Operated DEF Same
<1>8. ASSUME NEW ack \in BOOLEAN, NEW lost, NewBusButton(ack, lost)
      PROVE  IInv' /\ Added
  <2>1. PICK v : v = NewBus(World, Len(s.buses) + 1, ack, lost)
    OBVIOUS
  <2>2. Operation /\ Becomes(v) /\ Len(s.buses) < MaxBuses
    BY <1>8, <2>1 DEF NewBusButton
  <2>3. Len(s.buses) + 1 \in BusNames
    BY <1>2, <2>2, GuiAssumption DEF BusNames
  <2>4. /\ Good(v) /\ v.s.nextId = s.nextId + 1 /\ v.s.connected = s.connected
        /\ v.s.needsSync = s.needsSync
        /\ ~s.connected => \A b \in Rows(v.s) : Untouched(b) \/ b \in Rows(s)
    BY <1>1, <1>3, <2>1, <2>3, NewBusKeeps
  <2>5. Waits(v)
    BY <1>1, <2>2, <2>4, Here DEF Waits, Operation
  <2>6. v.s.nextId >= s.nextId
    BY <1>2, <2>4
  <2> QED
    BY <2>2, <2>4, <2>5, <2>6, Operated
<1> QED
  BY <1>4, <1>5, <1>6, <1>7, <1>8 DEF BusList

-----------------------------------------------------------------------------
(* Projects.                                                                *)

\* The window forgets its project.
LEMMA ClearedKeeps ==
  ASSUME NEW w, Good(w)
  PROVE  LET v == [w EXCEPT !.s.path = NoPath, !.s.globalRec = FALSE, !.s.needsSync = FALSE]
         IN  /\ Good(v) /\ v.s.nextId = w.s.nextId /\ v.s.needsSync = FALSE
<1> DEFINE t == [w.s EXCEPT !.path = NoPath, !.globalRec = FALSE, !.needsSync = FALSE]
           v == [w EXCEPT !.s.path = NoPath, !.s.globalRec = FALSE, !.s.needsSync = FALSE]
<1>1. w \in Worlds /\ w.s \in StateSet /\ w = [s |-> w.s, d |-> w.d] /\ w.d \in [BusNames -> BusSet]
  BY WorldParts DEF Good, Sound
<1>2. v = [s |-> t, d |-> w.d]
  <2>1. PICK a : a = [w EXCEPT !.s.path = NoPath]
    OBVIOUS
  <2>2. PICK b : b = [a EXCEPT !.s.globalRec = FALSE]
    OBVIOUS
  <2>3. a = [s |-> [w.s EXCEPT !.path = NoPath], d |-> w.d]
    BY <1>1, <2>1
  <2>4. b = [s |-> [w.s EXCEPT !.path = NoPath, !.globalRec = FALSE], d |-> w.d]
    BY <2>2, <2>3
  <2>5. v = [b EXCEPT !.s.needsSync = FALSE]
    BY <2>1, <2>2
  <2> QED
    BY <2>4, <2>5
<1>3. /\ t \in StateSet /\ t.buses = w.s.buses /\ t.selected = w.s.selected /\ t.nextId = w.s.nextId
      /\ t.connected = w.s.connected /\ t.needsSync = FALSE
  BY <1>1 DEF StateSet
<1> HIDE DEF t, v
<1>4. v \in Worlds /\ v.s = t /\ v.d = w.d
  BY <1>1, <1>2, <1>3 DEF Worlds
<1>5. Good(v)
  BY <1>3, <1>4, RestChanges DEF Good, Sound, Distinct
<1> QED
  BY <1>3, <1>4, <1>5 DEF v

LEMMA PathSet ==
  ASSUME NEW w, Good(w), NEW p \in Paths
  PROVE  LET v == [w EXCEPT !.s.path = p]
         IN  /\ Good(v) /\ v.s.buses = w.s.buses /\ v.s.nextId = w.s.nextId
             /\ v.s.connected = w.s.connected /\ v.s.needsSync = w.s.needsSync /\ v.s.path = p
<1> DEFINE t == [w.s EXCEPT !.path = p]
           v == [w EXCEPT !.s.path = p]
<1>1. w \in Worlds /\ w.s \in StateSet /\ w = [s |-> w.s, d |-> w.d] /\ w.d \in [BusNames -> BusSet]
  BY WorldParts DEF Good, Sound
<1>2. v = [s |-> t, d |-> w.d]
  BY <1>1
<1>3. /\ t \in StateSet /\ t.buses = w.s.buses /\ t.selected = w.s.selected /\ t.nextId = w.s.nextId
      /\ t.connected = w.s.connected /\ t.needsSync = w.s.needsSync /\ t.path = p
  BY <1>1 DEF StateSet
<1> HIDE DEF t, v
<1>4. v \in Worlds /\ v.s = t /\ v.d = w.d
  BY <1>1, <1>2, <1>3 DEF Worlds
<1>5. Good(v)
  BY <1>3, <1>4, RestChanges DEF Good, Sound, Distinct
<1> QED
  BY <1>3, <1>4, <1>5 DEF v

\* A project is loaded, and waits for the rest of the load; or the list is empty.
Loads(w, v, p) ==
    /\ Good(v) /\ v.s.nextId >= w.s.nextId
    /\ \A b \in Rows(v.s) : Untouched(b)
    /\ IF Readable(p) THEN Kept(v.s) = disk[p].rows /\ v.s.needsSync = TRUE
       ELSE v.s.needsSync = w.s.needsSync /\ v.s.connected = w.s.connected

LEMMA LoadProjectKeeps ==
  ASSUME TypeOK, NEW w, Good(w), NEW p, NEW lost,
         \A k \in DOMAIN queue : queue[k][1] < w.s.nextId
  PROVE  Loads(w, LoadProject(w, p, lost), p)
<1> DEFINE bare == DeleteAll(w, lost)
           empty == [DeleteAll(w, lost) EXCEPT !.s.globalRec = FALSE]
           rows == LoadRows(empty, p)
           loaded == [LoadRows(empty, p) EXCEPT !.s.path = p]
           v == LoadProject(w, p, lost)
<1>1. Good(bare) /\ Kind(w, bare) /\ bare.s.buses = <<>>
  BY DeleteAllKeeps
<1>2. Good(empty) /\ Kind(w, empty) /\ empty.s.buses = <<>>
  <2> HIDE DEF bare
  <2>1. LET u == [bare EXCEPT !.s.globalRec = FALSE]
        IN  Good(u) /\ Kind(bare, u) /\ u.s.buses = bare.s.buses
    BY <1>1, GlobalSet
  <2>2. empty = [bare EXCEPT !.s.globalRec = FALSE]
    BY DEF bare
  <2> HIDE DEF empty
  <2> QED
    BY <1>1, <2>1, <2>2 DEF Kind
<1>3. w.s.nextId \in Nat
  BY WorldParts DEF Good, Sound
<1>4. v = IF Readable(p) THEN loaded ELSE empty
  BY DEF LoadProject
<1>5. CASE ~Readable(p)
  <2>1. v = empty
    BY <1>4, <1>5
  <2> HIDE DEF empty, v
  <2>2. Rows(empty.s) = {}
    BY <1>2 DEF Rows
  <2> QED
    BY <1>2, <1>3, <1>5, <2>1, <2>2 DEF Kind, Loads, v
<1>6. CASE Readable(p)
  <2>1. p \in Paths
    BY <1>6 DEF Readable
  <2>2. /\ Good(rows) /\ rows.s.nextId >= w.s.nextId
        /\ rows.s.needsSync = TRUE /\ Kept(rows.s) = disk[p].rows
        /\ \A b \in Rows(rows.s) : Untouched(b)
    <3> HIDE DEF empty
    <3>1. \A k \in DOMAIN queue : queue[k][1] < empty.s.nextId
      BY <1>2 DEF Kind
    <3> QED
      BY <1>2, <2>1, <3>1, LoadRowsKeeps DEF Kind
  <2>3. loaded = [rows EXCEPT !.s.path = p]
    OBVIOUS
  <2> HIDE DEF rows
  <2>4. /\ Good(loaded) /\ loaded.s.buses = rows.s.buses /\ loaded.s.nextId = rows.s.nextId
        /\ loaded.s.needsSync = TRUE
    BY <2>1, <2>2, PathSet DEF rows
  <2>5. v = loaded
    BY <1>4, <1>6
  <2> HIDE DEF loaded, v
  <2>6. Kept(loaded.s) = disk[p].rows /\ \A b \in Rows(loaded.s) : Untouched(b)
    BY <2>2, <2>4 DEF Kept, Rows
  <2> QED
    BY <1>6, <2>2, <2>4, <2>5, <2>6 DEF Loads, v
<1> QED
  BY <1>5, <1>6

LEMMA QueueIds ==
  ASSUME IInv
  PROVE  \A k \in DOMAIN queue : queue[k][1] < s.nextId
  BY DEF IInv, Queued

LEMMA NewProjectStep ==
  ASSUME IInv, NEW ack \in BOOLEAN, NEW lost, NewProject(ack, lost)
  PROVE  IInv' /\ Added
<1> DEFINE v == [DeleteAll(World, lost) EXCEPT !.s.path = NoPath, !.s.globalRec = FALSE,
                                         !.s.needsSync = FALSE]
<1>1. Good(World) /\ World.s = s /\ s.nextId \in Nat /\ TypeOK
  BY Here DEF IInv, TypeOK, StateSet
<1>2. PICK bare : bare = DeleteAll(World, lost)
  OBVIOUS
<1>3. Good(bare) /\ bare.s.nextId = s.nextId
  BY <1>1, <1>2, DeleteAllKeeps DEF Kind
<1>4. Good(v) /\ v.s.nextId = s.nextId /\ v.s.needsSync = FALSE
  BY <1>2, <1>3, ClearedKeeps
<1>5. Operation /\ Becomes(NewBus(v, 1, ack, lost))
  BY DEF NewProject
<1> HIDE DEF v
<1>6. 1 \in BusNames
  BY GuiAssumption DEF BusNames
<1>7. PICK w : w = NewBus(v, 1, ack, lost)
  OBVIOUS
<1>8. Good(w) /\ w.s.nextId = s.nextId + 1 /\ w.s.needsSync = FALSE
  BY <1>1, <1>4, <1>6, <1>7, QueueIds, NewBusKeeps
<1>9. Waits(w) /\ w.s.nextId >= s.nextId
  BY <1>1, <1>8 DEF Waits
<1> QED
  BY <1>5, <1>7, <1>8, <1>9, Operated

\* The files after the first half of a load.
LEMMA LoadStores ==
  ASSUME IInv, NEW p, Readable(p), Pending("load", p, disk[p].rows), UNCHANGED <<disk, recent>>,
         running', s'.needsSync, Kept(s') = disk[p].rows
  PROVE  Stored'
<1>1. TypeOK /\ OnFile /\ p \in Paths
  BY DEF IInv, Readable
<1>2. disk[p].rows \in Seq(KeptRows)
  BY <1>1 DEF TypeOK
<1>3. /\ job' = [kind |-> "load", path |-> p]
      /\ saved' = IF saved = {} THEN {} ELSE saved \cup {disk[p].rows}
  BY DEF Pending
<1>4. job' \in JobSet
  BY <1>1, <1>3 DEF JobSet
<1>5. saved' \in SUBSET Seq(KeptRows)
  BY <1>1, <1>2, <1>3 DEF TypeOK
<1>6. OnFile'
  BY <1>1, <1>3 DEF OnFile, Coming, Readable
<1>7. JobOk'
  BY <1>3 DEF JobOk, Readable, Kept
<1> QED
  BY <1>1, <1>4, <1>5, <1>6, <1>7 DEF Stored, TypeOK

LEMMA OpenProjectStep ==
  ASSUME IInv, NEW p \in Paths, NEW lost, OpenProject(p, lost)
  PROVE  IInv' /\ Added
<1>1. Good(World) /\ World.s = s /\ TypeOK /\ job = NoJob /\ Waits(World)
  BY Here DEF IInv, OpenProject, Operation
<1>2. PICK w : w = LoadProject(World, p, lost)
  OBVIOUS
<1>3. Loads(World, w, p)
  BY <1>1, <1>2, QueueIds, LoadProjectKeeps
<1>4. /\ Operation /\ s' = w.s /\ d' = w.d /\ UNCHANGED disk
      /\ IF Readable(p) THEN Pending("load", p, disk[p].rows) ELSE UNCHANGED <<job, saved>>
  BY <1>2 DEF OpenProject
<1>5. Stored' /\ Due(w, job')
  <2>1. CASE Readable(p)
    <3>1. job'.kind = "load"
      BY <1>4, <2>1 DEF Pending
    <3>2. Stored'
      BY <1>3, <1>4, <2>1, LoadStores DEF Operation, Loads
    <3> QED
      BY <1>3, <3>1, <3>2 DEF Loads, Due
  <2>2. CASE ~Readable(p)
    <3>1. Stored'
      BY <1>1, <1>4, <2>2 DEF Operation, Stored, OnFile, Coming, Readable, IInv, TypeOK, JobOk
    <3> QED
      BY <1>1, <1>3, <2>2, <3>1 DEF Loads, Waits, Due
  <2> QED
    BY <2>1, <2>2
<1> QED
  BY <1>1, <1>3, <1>4, <1>5, Becoming DEF Loads, Operation, Event, IInv, TypeOK

LEMMA KeptType ==
  ASSUME TypeOK
  PROVE  Kept(s) \in Seq(KeptRows)
<1>1. s.buses \in Seq(RowSet)
  BY DEF TypeOK, StateSet
<1>2. /\ DOMAIN s.buses = 1..Len(s.buses) /\ Len(s.buses) \in Nat
      /\ \A k \in 1..Len(s.buses) : s.buses[k] \in RowSet
  BY <1>1, LenProperties, ElementOfSeq
<1>3. Kept(s) \in [1..Len(s.buses) -> KeptRows]
  BY <1>2 DEF Kept, KeptRows, RowSet
<1> QED
  BY <1>2, <1>3, FcnIsSeq

\* A file that was written holds the rows there are; what the next launch shows is these
\* or, until its name is written, those of before.
LEMMA SaveFileStores ==
  ASSUME IInv, job = NoJob, NEW p \in Paths, NEW kind \in {"save", "exit"}, NEW how \in Writes,
         SaveFile(kind, p, how), recent' = recent,
         how # "refused" => running' /\ s'.buses = s.buses
  PROVE  Stored'
<1>1. TypeOK /\ OnFile
  BY DEF IInv
<1>2. Kept(s) \in Seq(KeptRows)
  BY <1>1, KeptType
<1> DEFINE File == [kind : {"absent", "good", "bad"}, rows : Seq(KeptRows)]
<1>3. disk \in [Paths -> File] /\ saved \in SUBSET Seq(KeptRows) /\ recent \in Paths \cup {NoPath}
  BY <1>1 DEF TypeOK
<1>4. CASE how = "refused"
  BY <1>1, <1>4 DEF SaveFile, Stored, OnFile, Coming, Readable, TypeOK, JobOk
<1>5. how # "refused" => job' = [kind |-> kind, path |-> p]
  BY DEF SaveFile, Pending, Writes
<1>6. how # "refused" => job' \in JobSet /\ job'.kind # "load" /\ job'.path = p
  BY <1>5 DEF JobSet
<1>7. CASE how = "written"
  <2>1. /\ disk' = [disk EXCEPT ![p] = [kind |-> "good", rows |-> Kept(s)]]
        /\ saved' = IF saved = {} THEN {} ELSE saved \cup {Kept(s)}
    BY <1>7 DEF SaveFile, Pending
  <2>2. [kind |-> "good", rows |-> Kept(s)] \in File
    BY <1>2
  <2>3. /\ disk' \in [Paths -> File] /\ disk'[p] = [kind |-> "good", rows |-> Kept(s)]
        /\ \A q \in Paths : q # p => disk'[q] = disk[q]
    <3> HIDE DEF File
    <3> QED
      BY <1>3, <2>1, <2>2
  <2>4. disk'[p].kind = "good" /\ disk'[p].rows = Kept(s)
    BY <2>3
  <2>5. OnFile'
    <3>1. CASE recent = p
      BY <1>3, <2>1, <2>4, <3>1 DEF OnFile, Coming, Readable
    <3>2. CASE recent # p
      BY <1>1, <1>3, <2>1, <2>3, <3>2 DEF OnFile, Coming, Readable
    <3> QED
      BY <3>1, <3>2
  <2>6. Kept(s') = Kept(s)
    BY <1>7 DEF Kept
  <2>7. JobOk'
    <3>1. running' /\ job'.kind # "load" /\ job'.path = p
      BY <1>6, <1>7
    <3>2. disk'[job'.path].rows = Kept(s')
      BY <2>4, <2>6, <3>1
    <3>3. Readable(job.path)'
      BY <2>4, <3>1 DEF Readable
    <3> QED
      BY <3>1, <3>2, <3>3 DEF JobOk, Kept
  <2>8. saved' \in SUBSET Seq(KeptRows)
    BY <1>2, <1>3, <2>1
  <2> QED
    BY <1>3, <1>6, <1>7, <2>3, <2>5, <2>7, <2>8 DEF Stored
<1>8. CASE how = "cut"
  <2>1. disk' = [disk EXCEPT ![p] = [kind |-> "bad", rows |-> <<>>]] /\ saved' = {}
    BY <1>8 DEF SaveFile
  <2>2. [kind |-> "bad", rows |-> <<>>] \in File
    <3>1. <<>> \in Seq(KeptRows)
      BY EmptySeq
    <3> QED
      BY <3>1
  <2>3. disk' \in [Paths -> File] /\ disk'[p].kind = "bad"
    <3> HIDE DEF File
    <3> QED
      BY <1>3, <2>1, <2>2
  <2>4. JobOk'
    BY <1>6, <1>8, <2>1, <2>3 DEF JobOk, Readable
  <2> QED
    BY <1>3, <1>6, <1>8, <2>1, <2>3, <2>4 DEF Stored, OnFile
<1> QED
  BY <1>4, <1>7, <1>8 DEF Writes

LEMMA SaveProjectStep ==
  ASSUME IInv, NEW p \in Paths, NEW how \in Writes, SaveProject(p, how)
  PROVE  IInv' /\ Added
<1>1. /\ Good(World) /\ World.s = s /\ World.d = d /\ Waits(World) /\ Rows(World.s) = Rows(s)
      /\ s.nextId \in Nat /\ job = NoJob /\ s \in StateSet
  BY Here DEF IInv, TypeOK, StateSet, SaveProject, Operation
<1>2. /\ Operation /\ d' = d /\ SaveFile("save", p, how)
      /\ s' = IF how = "refused" THEN s ELSE [s EXCEPT !.path = p]
  BY DEF SaveProject
<1>3. Stored'
  <2>1. s'.buses = s.buses
    BY <1>1, <1>2 DEF StateSet
  <2> QED
    BY <1>1, <1>2, <2>1, SaveFileStores DEF Operation
<1>4. running' = TRUE /\ UNCHANGED <<up, queue, frames>> /\ events' \in Nat
  BY <1>2 DEF Operation, Event, IInv, TypeOK
<1>5. CASE how = "refused"
  <2>1. World.s.nextId >= s.nextId /\ Due(World, job')
    BY <1>1 DEF Waits, Due
  <2> QED
    BY <1>1, <1>2, <1>3, <1>4, <1>5, <2>1, Becoming
<1>6. CASE how # "refused"
  <2>1. PICK v : v = [World EXCEPT !.s.path = p]
    OBVIOUS
  <2>2. /\ Good(v) /\ v.s.buses = s.buses /\ v.s.nextId = s.nextId
        /\ v.s.connected = s.connected /\ v.s.needsSync = s.needsSync
    BY <1>1, <2>1, PathSet
  <2>3. v.s = [s EXCEPT !.path = p] /\ v.d = d
    BY <1>1, <2>1 DEF World
  <2>4. Due(v, job') /\ v.s.nextId >= s.nextId
    BY <1>1, <2>2 DEF Waits, Due, Rows
  <2> QED
    BY <1>2, <1>3, <1>4, <1>6, <2>2, <2>3, <2>4, Becoming
<1> QED
  BY <1>5, <1>6

LEMMA UserStep ==
  ASSUME IInv, User
  PROVE  IInv' /\ Added
<1>1. CASE Project
  BY <1>1, NewProjectStep, OpenProjectStep, SaveProjectStep DEF Project
<1> QED
  BY <1>1, InspectorStep, BusListStep DEF User

-----------------------------------------------------------------------------
(* The window starts and ends, and so does the daemon.                       *)

LEMMA FreshIs ==
  ASSUME IInv, ~running, NEW answered \in BOOLEAN
  PROVE  LET w == [s |-> Fresh(answered), d |-> d]
         IN  /\ Good(w) /\ w.s.nextId = s.nextId /\ w.s.buses = <<>>
             /\ w.s.needsSync = FALSE
<1>1. s = NoState /\ TypeOK /\ Good(World) /\ World.s = s /\ World.d = d
  BY Here DEF IInv, Closed
<1> DEFINE t == [NoState EXCEPT !.connected = up /\ answered]
           w == [s |-> Fresh(answered), d |-> d]
<1>2. /\ t.buses = s.buses /\ t.nextId = s.nextId /\ t.needsSync = FALSE
      /\ t.selected = 0 /\ t.buses = <<>>
  BY <1>1 DEF NoState
<1>3. t \in StateSet
  BY <1>1 DEF TypeOK, StateSet
<1>4. w = [s |-> t, d |-> d]
  BY DEF Fresh
<1> HIDE DEF t, w
<1>5. w \in Worlds /\ w.s = t /\ w.d = d
  BY <1>1, <1>3, <1>4 DEF Worlds, TypeOK
<1>6. Good(w)
  BY <1>1, <1>2, <1>5, RestChanges
<1> QED
  BY <1>2, <1>5, <1>6 DEF w

LEMMA LaunchStep ==
  ASSUME IInv, Launch
  PROVE  IInv' /\ Added /\ (saved # {} => Kept(s') \in saved)
<1>1. /\ ~running /\ running' = TRUE /\ events' \in Nat /\ TypeOK /\ OnFile /\ job = NoJob
      /\ UNCHANGED <<up, disk, recent, queue, frames>>
  BY DEF Launch, Event, IInv, TypeOK, JobOk
<1> DEFINE Starts(answered, ack, lost) ==
             LET e == [s |-> Fresh(answered), d |-> d]
                 w == IF Readable(recent) THEN LoadProject(e, recent, lost)
                                          ELSE NewBus(e, 1, ack, lost)
             IN  s' = w.s /\ d' = w.d
<1>0. PICK answered \in BOOLEAN, ack \in BOOLEAN : \E lost : Starts(answered, ack, lost)
  BY DEF Launch
<1>2. PICK lost : Starts(answered, ack, lost)
  BY <1>0
<1>3. PICK e : e = [s |-> Fresh(answered), d |-> d]
  OBVIOUS
<1>4. /\ Good(e) /\ e.s.nextId = s.nextId /\ s.nextId \in Nat /\ e.s.buses = <<>>
      /\ e.s.needsSync = FALSE
  BY <1>1, <1>3, FreshIs DEF TypeOK, StateSet
<1>5. \A k \in DOMAIN queue : queue[k][1] < e.s.nextId
  BY <1>4, QueueIds
<1>6. CASE Readable(recent)
  <2>1. PICK w : w = LoadProject(e, recent, lost)
    OBVIOUS
  <2>2. s' = w.s /\ d' = w.d
    BY <1>2, <1>3, <1>6, <2>1
  <2>3. Loads(e, w, recent)
    BY <1>1, <1>4, <1>5, <2>1, LoadProjectKeeps
  <2>4. Pending("load", recent, disk[recent].rows)
    BY <1>6 DEF Launch
  <2>5. Stored'
    BY <1>1, <1>6, <2>2, <2>3, <2>4, LoadStores DEF Loads
  <2>6. Due(w, job') /\ Good(w) /\ w.s.nextId >= s.nextId
    BY <1>4, <1>6, <2>3, <2>4 DEF Loads, Due, Pending
  <2>7. IInv' /\ Added
    BY <1>1, <2>2, <2>5, <2>6, Becoming
  <2>8. Kept(s') = Coming
    BY <1>6, <2>2, <2>3 DEF Loads, Coming
  <2> QED
    BY <1>1, <2>7, <2>8 DEF OnFile
<1>7. CASE ~Readable(recent)
  <2>1. PICK w : w = NewBus(e, 1, ack, lost)
    OBVIOUS
  <2>2. s' = w.s /\ d' = w.d
    BY <1>2, <1>3, <1>7, <2>1
  <2>3. 1 \in BusNames
    BY GuiAssumption DEF BusNames
  <2>4. /\ Good(w) /\ w.s.nextId = e.s.nextId + 1 /\ w.s.needsSync = e.s.needsSync
        /\ LastIs(e, w, 1)
    BY <1>1, <1>4, <1>5, <2>1, <2>3, NewBusKeeps
  <2>5. Stored'
    BY <1>1, <1>7 DEF Launch, Stored, OnFile, Coming, Readable, TypeOK, JobOk
  <2>6. Due(w, job') /\ w.s.nextId >= s.nextId
    BY <1>4, <2>4 DEF Due
  <2>7. IInv' /\ Added
    BY <1>1, <2>2, <2>4, <2>5, <2>6, Becoming
  <2>8. Kept(w.s) = FirstRun
    <3>1. Len(w.s.buses) = 1 /\ w.s.buses[1].name = 1 /\ w.s.buses[1].file = FALSE
      BY <1>4, <2>4 DEF LastIs
    <3>2. DOMAIN w.s.buses = 1..1
      BY <2>4, <3>1, WorldParts DEF Good, Sound
    <3>3. PICK q : q = w.s.buses
      OBVIOUS
    <3>4. Kept(w.s) = [k \in 1..1 |-> [name |-> q[k].name, file |-> q[k].file]]
      BY <3>2, <3>3 DEF Kept
    <3>5. PICK r : r = [name |-> 1, file |-> FALSE]
      OBVIOUS
    <3>6. \A k \in 1..1 : [name |-> q[k].name, file |-> q[k].file] = r
      <4>1. \A k \in 1..1 : k = 1
        OBVIOUS
      <4>2. [name |-> q[1].name, file |-> q[1].file] = r
        BY <3>1, <3>3, <3>5
      <4> QED
        BY <4>1, <4>2
    <3>7. Kept(w.s) = [k \in 1..1 |-> r]
      BY <3>4, <3>6
    <3>8. [k \in 1..1 |-> r] = <<r>>
      OBVIOUS
    <3> QED
      BY <3>5, <3>7, <3>8 DEF FirstRun
  <2> QED
    BY <1>1, <1>7, <2>2, <2>7, <2>8 DEF OnFile, Coming
<1> QED
  BY <1>6, <1>7

\* The window goes: what it asked for stays with the daemon, on nobody's account.
LEMMA GoneStep ==
  ASSUME IInv, Gone, UNCHANGED <<up, frames, events>>, Stored'
  PROVE  IInv' /\ Added
<1>1. /\ running' = FALSE /\ s' = NoState /\ queue' = <<>> /\ UNCHANGED <<up, frames, events>>
      /\ d' = [n \in BusNames |-> IF d[n].live THEN [d[n] EXCEPT !.sub = 0, !.users = {0}]
                                               ELSE d[n]]
  BY DEF Gone
<1>2. World.s = s /\ World.d = d /\ Good(World) /\ TypeOK /\ d \in [BusNames -> BusSet]
  BY Here DEF IInv, TypeOK
<1>3. PICK e : e = d'
  OBVIOUS
<1>4. ASSUME NEW n \in BusNames
      PROVE  e[n] \in BusSet /\ Agrees(NoState, n, e[n])
  <2>1. e[n] = IF d[n].live THEN [d[n] EXCEPT !.sub = 0, !.users = {0}] ELSE d[n]
    BY <1>1, <1>3
  <2>2. Agrees(s, n, d[n]) /\ d[n] \in BusSet
    BY <1>2 DEF Good, Sound
  <2>3. CASE d[n].live
    <3>1. e[n] \in BusSet /\ e[n].live /\ e[n].sub = 0 /\ e[n].users = {0}
      <4>1. PICK y \in BusSet : y = d[n]
        BY <2>2
      <4>2. {0} \in SUBSET Nat
        OBVIOUS
      <4>3. PICK u \in SUBSET Nat : u = {0}
        BY <4>2
      <4>4. PICK z : z = [y EXCEPT !.sub = 0, !.users = u]
        OBVIOUS
      <4>5. z \in BusSet /\ z.live = y.live /\ z.sub = 0 /\ z.users = u
        BY <4>4 DEF BusSet
      <4>6. e[n] = z /\ y.live
        BY <2>1, <2>3, <4>1, <4>3, <4>4
      <4> QED
        BY <4>3, <4>5, <4>6
    <3>2. up
      BY <2>2, <2>3 DEF Agrees
    <3>3. Rows(NoState) = {}
      BY DEF Rows, NoState
    <3> QED
      BY <3>1, <3>2, <3>3 DEF Agrees
  <2>4. CASE ~d[n].live
    <3>1. e[n] = d[n] /\ d[n] = NoBus
      BY <2>1, <2>2, <2>4 DEF Agrees
    <3>2. NoBus.live = FALSE /\ NoBus.sub = 0
      BY DEF NoBus
    <3> QED
      BY <2>2, <3>1, <3>2 DEF Agrees
  <2> QED
    BY <2>3, <2>4
<1>5. e \in [BusNames -> BusSet]
  <2>1. e = [n \in BusNames |-> e[n]]
    BY <1>1, <1>3
  <2> QED
    BY <1>4, <2>1
<1>6. NoState \in StateSet
  BY EmptySeq DEF NoState, StateSet
<1>7. World' = [s |-> NoState, d |-> e]
  BY <1>1, <1>3 DEF World
<1>8. PICK v : v = World'
  OBVIOUS
<1>9. v \in Worlds /\ v.s = NoState /\ v.d = e /\ Rows(NoState) = {} /\ DOMAIN NoState.buses = {}
  BY <1>5, <1>6, <1>7, <1>8 DEF Worlds, Rows, NoState
<1>10. Sound(World)'
  <2>1. v \in Worlds /\ Distinct(v.s) /\ \A b \in Rows(v.s) : RowOk(b)'
    <3>1. NoState.selected = 0
      BY DEF NoState
    <3> QED
      BY <1>9, <3>1 DEF Distinct
  <2>2. \A n \in BusNames : Agrees(v.s, n, v.d[n])'
    <3>0. up' = up
      BY <1>1
    <3>1. \A t, n, x : Agrees(t, n, x) => Agrees(t, n, x)'
      BY <3>0 DEF Agrees
    <3> QED
      BY <1>4, <1>9, <3>1
  <2> QED
    BY <1>8, <2>1, <2>2 DEF Good, Sound, Distinct, Rows
<1>11. Queued' /\ queue' \in Seq((Nat \ {0}) \X Packets)
  <2>1. queue' = <<>>
    BY <1>1
  <2> QED
    BY <2>1 DEF Queued
<1>12. Waiting'
  BY <1>1 DEF Waiting, NoState
<1>13. Closed'
  BY <1>1 DEF Closed
<1> QED
  BY <1>1, <1>2, <1>10, <1>11, <1>12, <1>13, Together, Stands DEF TypeOK

\* Where the window's own state stays, only the daemon's side is to be shown.
LEMMA DaemonStep ==
  ASSUME IInv, up' \in BOOLEAN, events' \in Nat, d' \in [BusNames -> BusSet],
         UNCHANGED <<running, s, queue, frames>>, Stored', Waiting',
         \A n \in BusNames : Agrees(s, n, d[n])'
  PROVE  IInv' /\ Added
<1>1. World.s = s /\ Good(World) /\ Rows(World.s) = Rows(s) /\ s \in StateSet
  BY Here DEF IInv, TypeOK
<1>2. World' = [s |-> s, d |-> d']
  BY DEF World
<1>3. PICK v : v = World'
  OBVIOUS
<1>4. v \in Worlds /\ v.s = s /\ v.d = d' /\ Distinct(v.s)
  BY <1>1, <1>2, <1>3 DEF Worlds, Good, Sound
<1>5. Sound(World)'
  <2>1. \A b : RowOk(b) => RowOk(b)'
    BY DEF RowOk, RingOk, ComingOk
  <2>2. \A b \in Rows(v.s) : RowOk(b)'
    BY <1>1, <1>4, <2>1 DEF Good, Sound
  <2>3. \A n \in BusNames : Agrees(v.s, n, v.d[n])'
    BY <1>4 DEF Agrees, Rows
  <2> QED
    BY <1>3, <1>4, <2>2, <2>3 DEF Good, Sound, Distinct, Rows
<1>6. Queued' /\ Closed' /\ queue' \in Seq((Nat \ {0}) \X Packets)
  BY DEF IInv, TypeOK, Queued, Closed
<1> QED
  BY <1>5, <1>6, Together, Stands DEF IInv, TypeOK

LEMMA HereStays ==
  ASSUME IInv, UNCHANGED <<up, d, running, s, queue, frames, events>>, Stored', Waiting'
  PROVE  IInv' /\ Added
<1>1. \A n \in BusNames : Agrees(s, n, d[n])'
  <2>1. \A n \in BusNames : Agrees(s, n, d[n])
    BY Here DEF Good, Sound
  <2> QED
    BY <2>1 DEF Agrees, Rows
<1>2. up' \in BOOLEAN /\ events' \in Nat /\ d' \in [BusNames -> BusSet]
  BY DEF IInv, TypeOK
<1> QED
  BY <1>1, <1>2, DaemonStep

LEMMA StillStored ==
  ASSUME IInv, UNCHANGED <<disk, recent, running, s, job, saved>>
  PROVE  Stored' /\ Waiting'
<1>1. Waiting'
  BY DEF IInv, Waiting, Rows
<1> QED
  BY <1>1 DEF IInv, TypeOK, Stored, OnFile, Coming, Readable, JobOk, Kept

LEMMA DaemonStopsStep ==
  ASSUME IInv, DaemonStops
  PROVE  IInv' /\ Added
<1>1. /\ up' = FALSE /\ events' \in Nat /\ d' = [n \in BusNames |-> NoBus]
      /\ UNCHANGED <<disk, recent, running, s, queue, job, saved, frames>>
  BY DEF DaemonStops, IInv, TypeOK
<1>2. NoBus \in BusSet /\ NoBus.live = FALSE /\ NoBus.sub = 0
  BY DEF NoBus, BusSet
<1>3. d' \in [BusNames -> BusSet] /\ \A n \in BusNames : d'[n] = NoBus
  BY <1>1, <1>2
<1>4. \A n \in BusNames : Agrees(s, n, d[n])'
  BY <1>1, <1>2, <1>3 DEF Agrees
<1> QED
  BY <1>1, <1>3, <1>4, StillStored, DaemonStep

LEMMA DaemonStartsStep ==
  ASSUME IInv, DaemonStarts
  PROVE  IInv' /\ Added
<1>1. ~up /\ up' = TRUE /\ UNCHANGED <<d, disk, recent, running, s, queue, job, saved, frames, events>>
  BY DEF DaemonStarts
<1>2. World.s = s /\ World.d = d /\ Good(World) /\ d \in [BusNames -> BusSet] /\ events \in Nat
  BY Here DEF IInv, TypeOK
<1>3. ASSUME NEW n \in BusNames
      PROVE  Agrees(s, n, d[n])'
  <2>1. Agrees(s, n, d[n])
    BY <1>2 DEF Good, Sound
  <2>2. ~d[n].live
    BY <1>1, <2>1 DEF Agrees
  <2> QED
    BY <1>1, <2>1, <2>2 DEF Agrees, Rows
<1> QED
  BY <1>1, <1>2, <1>3, StillStored, DaemonStep

\* The files after the second half.
LEMMA RecentStores ==
  ASSUME IInv, job # NoJob, NEW how \in Writes, WriteRecent(how), disk' = disk
  PROVE  Stored' /\ job' = NoJob
<1>1. /\ TypeOK /\ OnFile /\ job \in JobSet
      /\ IF Readable(job.path) THEN disk[job.path].rows = Kept(s) ELSE saved = {}
  BY DEF IInv, TypeOK, JobOk
<1>2. Kept(s) \in Seq(KeptRows) /\ job.path \in Paths
  BY <1>1, KeptType DEF JobSet
<1>3. /\ job' = NoJob /\ saved' = Remembered(how)
      /\ recent' = CASE how = "refused" -> recent [] how = "written" -> job.path [] how = "cut" -> NoPath
  BY DEF WriteRecent
<1>4. recent' \in Paths \cup {NoPath} /\ job' \in JobSet /\ JobOk'
  BY <1>1, <1>2, <1>3 DEF Writes, TypeOK, JobSet, JobOk
<1>5. CASE how = "refused"
  <2>1. recent' = recent /\ saved' = saved
    BY <1>3, <1>5 DEF Remembered
  <2> QED
    BY <1>1, <1>3, <1>4, <2>1 DEF Stored, OnFile, Coming, Readable, TypeOK
<1>6. CASE how = "written" /\ Readable(job.path)
  <2>1. recent' = job.path /\ saved' = {Kept(s)}
    BY <1>3, <1>6 DEF Remembered
  <2>2. Coming' = Kept(s)
    BY <1>1, <1>6, <2>1 DEF Coming, Readable
  <2> QED
    BY <1>1, <1>2, <1>3, <1>4, <2>1, <2>2 DEF Stored, OnFile, TypeOK
<1>7. CASE how = "cut" \/ (how = "written" /\ ~Readable(job.path))
  <2>1. saved' = {}
    BY <1>1, <1>3, <1>7 DEF Remembered
  <2> QED
    BY <1>1, <1>3, <1>4, <2>1 DEF Stored, OnFile, TypeOK
<1> QED
  BY <1>5, <1>6, <1>7 DEF Writes

\* The window is closed, saving its project first, or killed.
LEMMA EndStep ==
  ASSUME IInv, Killed \/ \E how \in Writes : Exit(how)
  PROVE  IInv' /\ Added
<1>1. CASE Killed
  <2>1. Gone /\ UNCHANGED <<up, frames, events>> /\ disk' = disk /\ running
    BY <1>1 DEF Killed
  <2>2. CASE job = NoJob
    <3>1. UNCHANGED <<recent, job, saved>>
      BY <1>1, <2>2 DEF Killed
    <3>2. Stored'
      BY <2>1, <2>2, <3>1 DEF IInv, TypeOK, Stored, OnFile, Coming, Readable, JobOk
    <3> QED
      BY <2>1, <3>2, GoneStep
  <2>3. CASE job # NoJob
    <3>1. PICK how \in Writes : WriteRecent(how)
      BY <1>1, <2>3 DEF Killed, Writes
    <3> QED
      BY <2>1, <2>3, <3>1, RecentStores, GoneStep
  <2> QED
    BY <2>2, <2>3
<1>2. ASSUME NEW how \in Writes, Exit(how)
      PROVE  IInv' /\ Added
  <2>1. running /\ job = NoJob /\ UNCHANGED <<up, recent, frames, events>>
    BY <1>2 DEF Exit
  <2>2. CASE s.path = NoPath
    <3>1. Gone /\ UNCHANGED <<disk, job, saved>>
      BY <1>2, <2>2 DEF Exit
    <3>2. Stored'
      BY <2>1, <3>1 DEF IInv, TypeOK, Stored, OnFile, Coming, Readable, JobOk
    <3> QED
      BY <2>1, <3>1, <3>2, GoneStep
  <2>3. CASE s.path # NoPath
    <3>1. /\ s.path \in Paths /\ SaveFile("exit", s.path, how)
          /\ IF how = "refused" THEN Gone ELSE UNCHANGED <<d, running, s, queue>>
      BY <1>2, <2>3 DEF Exit, IInv, TypeOK, StateSet
    <3>2. Stored'
      BY <2>1, <3>1, SaveFileStores
    <3>3. CASE how = "refused"
      BY <2>1, <3>1, <3>2, <3>3, GoneStep
    <3>4. CASE how # "refused"
      <4>1. Waiting'
        BY <2>1, <3>1, <3>4 DEF IInv, Waiting, NoJob, Rows
      <4> QED
        BY <2>1, <3>1, <3>2, <3>4, <4>1, HereStays
    <3> QED
      BY <3>3, <3>4
  <2> QED
    BY <2>2, <2>3
<1> QED
  BY <1>1, <1>2

\* What a save or a load still has to do; a load whose list waits asks for its buses.
LEMMA FinishStep ==
  ASSUME IInv, NEW how \in Writes, Finish(how)
  PROVE  IInv' /\ Added
<1>1. running /\ job # NoJob /\ WriteRecent(how) /\ UNCHANGED <<up, disk, frames, events>>
  BY DEF Finish
<1>2. Stored' /\ job' = NoJob
  BY <1>1, RecentStores
<1>3. CASE job.kind = "save" /\ UNCHANGED <<d, running, s, queue>>
  <2>1. Waiting'
    BY <1>2, <1>3 DEF IInv, Waiting, Rows
  <2> QED
    BY <1>1, <1>2, <1>3, <2>1, HereStays
<1>4. CASE Gone
  BY <1>1, <1>2, <1>4, GoneStep
<1>5. ASSUME job.kind = "load", UNCHANGED <<running, queue>>, NEW ack \in BOOLEAN, NEW lost,
             s' = SyncBusesToDaemon(World, ack, lost).s, d' = SyncBusesToDaemon(World, ack, lost).d
      PROVE  IInv' /\ Added
  <2>1. /\ Good(World) /\ World.s = s /\ World.d = d /\ Rows(World.s) = Rows(s)
        /\ s.nextId \in Nat
    BY Here DEF IInv, TypeOK, StateSet
  <2>2. s.needsSync /\ \A b \in Rows(s) : Untouched(b)
    BY <1>1, <1>5 DEF IInv, JobOk, Waiting
  <2>3. PICK w : w = SyncBusesToDaemon(World, ack, lost)
    OBVIOUS
  <2>4. Good(w) /\ w.s.nextId = s.nextId /\ Due(w, job')
    <3>1. CASE s.connected
      <4>1. Good(w) /\ w.s.nextId = s.nextId /\ w.s.needsSync = FALSE
        BY <2>1, <2>2, <2>3, <3>1, SyncKeeps
      <4> QED
        BY <4>1 DEF Due
    <3>2. CASE ~s.connected
      <4>1. w = World
        BY <2>1, <2>3, <3>2 DEF SyncBusesToDaemon
      <4> QED
        BY <2>1, <2>2, <3>2, <4>1 DEF Due
    <3> QED
      BY <3>1, <3>2
  <2>5. s' = w.s /\ d' = w.d /\ running' = TRUE /\ events' \in Nat /\ w.s.nextId >= s.nextId
    BY <1>1, <1>5, <2>1, <2>3, <2>4 DEF IInv, TypeOK
  <2> QED
    BY <1>1, <1>2, <1>5, <2>4, <2>5, Becoming
<1> QED
  BY <1>3, <1>4, <1>5 DEF Finish

-----------------------------------------------------------------------------
(* The inductive invariant.                                                  *)

LEMMA IInvInit == Init => IInv
<1> SUFFICES ASSUME Init
             PROVE  IInv
  OBVIOUS
<1>1. /\ up \in BOOLEAN /\ d = [n \in BusNames |-> NoBus] /\ recent = NoPath /\ running = FALSE
      /\ disk = [p \in Paths |-> [kind |-> "absent", rows |-> <<>>]]
      /\ s = NoState /\ queue = <<>> /\ job = NoJob /\ saved = {FirstRun} /\ frames = 0 /\ events = 0
  BY DEF Init
<1>2. NoBus \in BusSet /\ NoBus.live = FALSE /\ NoBus.sub = 0
  BY DEF NoBus, BusSet
<1>3. d \in [BusNames -> BusSet] /\ \A n \in BusNames : d[n] = NoBus
  BY <1>1, <1>2
<1>4. NoState \in StateSet /\ Rows(NoState) = {} /\ DOMAIN NoState.buses = {} /\ NoState.selected = 0
  BY EmptySeq DEF NoState, StateSet, Rows
<1>5. disk \in [Paths -> [kind : {"absent", "good", "bad"}, rows : Seq(KeptRows)]]
  <2>1. [kind |-> "absent", rows |-> <<>>] \in [kind : {"absent", "good", "bad"}, rows : Seq(KeptRows)]
    BY EmptySeq
  <2> QED
    BY <1>1, <2>1
<1>6. queue \in Seq((Nat \ {0}) \X Packets) /\ Queued
  BY <1>1, EmptySeq DEF Queued
<1>11. job \in JobSet /\ saved \in SUBSET Seq(KeptRows)
  <2>1. 1 \in BusNames
    BY GuiAssumption DEF BusNames
  <2>2. FirstRun \in Seq(KeptRows)
    BY <2>1 DEF FirstRun, KeptRows
  <2> QED
    BY <1>1, <2>2 DEF JobSet
<1>7. TypeOK
  BY <1>1, <1>3, <1>4, <1>5, <1>6, <1>11 DEF TypeOK
<1>8. World \in Worlds /\ World.s = NoState /\ World.d = d
  BY <1>1, <1>3, <1>4 DEF World, Worlds
<1>9. Sound(World)
  <2>1. Distinct(NoState)
    BY <1>4 DEF Distinct
  <2>2. \A n \in BusNames : Agrees(NoState, n, d[n])
    BY <1>2, <1>3, <1>4 DEF Agrees
  <2> QED
    BY <1>4, <1>8, <2>1, <2>2 DEF Good, Sound
<1>10. Waiting /\ Closed /\ OnFile /\ JobOk
  BY <1>1, GuiAssumption DEF Waiting, Closed, OnFile, Coming, Readable, JobOk, NoState
<1> QED
  BY <1>6, <1>7, <1>9, <1>10 DEF IInv

LEMMA StepKeeps ==
  ASSUME IInv, [Next]_vars
  PROVE  IInv' /\ Added
<1>1. CASE Launch
  BY <1>1, LaunchStep
<1>2. ASSUME NEW how \in Writes, Finish(how)
      PROVE  IInv' /\ Added
  BY <1>2, FinishStep
<1>3. CASE Killed \/ \E how \in Writes : Exit(how)
  BY <1>3, EndStep
<1>4. CASE User
  BY <1>4, UserStep
<1>5. ASSUME NEW n \in BusNames, NEW len \in Lens, Carry(n, len)
      PROVE  IInv' /\ Added
  BY <1>5, CarryStep
<1>6. CASE TickOnly \/ \E answered \in BOOLEAN : TickPing(answered)
  BY <1>6, TickStep
<1>7. CASE DaemonStops
  BY <1>7, DaemonStopsStep
<1>8. CASE DaemonStarts
  BY <1>8, DaemonStartsStep
<1>9. CASE UNCHANGED vars
  <2>1. UNCHANGED <<up, d, disk, recent, running, s, queue, job, saved, frames, events>>
    BY <1>9 DEF vars
  <2>2. Stored' /\ Waiting'
    BY <2>1, StillStored
  <2> QED
    BY <2>1, <2>2, HereStays
<1> QED
  BY <1>1, <1>2, <1>3, <1>4, <1>5, <1>6, <1>7, <1>8, <1>9 DEF Next

THEOREM Invariant == Spec => []IInv
<1>1. IInv /\ [Next]_vars => IInv'
  BY StepKeeps
<1> QED
  BY IInvInit, <1>1, PTL DEF Spec

\* Every state is well typed, every row has an id of its own, and the selection is one
\* of the rows, whatever the user, the daemon and the files do.
THEOREM TypeCorrect == Spec => []TypeOK
<1>1. IInv => TypeOK
  BY DEF IInv
<1> QED
  BY <1>1, Invariant, PTL

\* Recording, capture and forwarding are shown as the daemon does them, for a bus that
\* only this row has had commands about, while no command of it was lost that went
\* unnoticed (panel_inspector.cpp, Model::stopRecord, stopForward, detachIface).
THEOREM RowsShowWhatRuns == Spec => []ShownIsTrue
<1>1. IInv => ShownIsTrue
  <2> SUFFICES ASSUME IInv, NEW b \in Rows(s),
                      d[b.name].live, d[b.name].users = {b.id}
               PROVE  b.rec = d[b.name].rec /\ b.fwd = d[b.name].fwd
                      /\ (b.iface = "net") = d[b.name].cap
    BY DEF ShownIsTrue
  <2>1. Agrees(s, b.name, d[b.name])
    BY Here, RowTypes DEF Good, Sound
  <2> QED
    BY <2>1 DEF Agrees, Shows
<1> QED
  BY <1>1, Invariant, PTL

\* No subscriber outlives its row in the daemon, and no bus does but one whose row was
\* renamed, or whose window ended, or which the daemon was not told to delete
\* (Model::deleteBus, whatever sendCmd returned).
THEOREM DeletedIsGone == Spec => []NothingLeftBehind
<1>1. IInv => NothingLeftBehind
  <2> SUFFICES ASSUME IInv, NEW n \in BusNames
               PROVE  /\ d[n].users \cap (1..s.nextId) # {} /\ 0 \notin d[n].users =>
                           \E b \in Rows(s) : b.id \in d[n].users
                      /\ d[n].sub # 0 => \E b \in Rows(s) : b.id = d[n].sub
    BY DEF NothingLeftBehind
  <2>1. Agrees(s, n, d[n])
    BY Here DEF Good, Sound
  <2>2. NoBus.users = {}
    BY DEF NoBus
  <2>3. ASSUME d[n].users \cap (1..s.nextId) # {}, 0 \notin d[n].users
        PROVE  \E b \in Rows(s) : b.id \in d[n].users
    <3>1. PICK i : i \in d[n].users
      BY <2>3
    <3>2. d[n].live
      BY <2>1, <2>2, <3>1 DEF Agrees
    <3> QED
      BY <2>1, <2>3, <3>1, <3>2 DEF Agrees
  <2>4. d[n].sub # 0 => \E b \in Rows(s) : b.id = d[n].sub
    BY <2>1 DEF Agrees
  <2> QED
    BY <2>3, <2>4
<1> QED
  BY <1>1, Invariant, PTL

\* A row's packets are the newest first, no more than the ring holds, none of them from
\* before the row was made (Model::tick, the packet list).
THEOREM RingsInOrder == Spec => []RingOrdered
<1>1. IInv => RingOrdered
  <2>1. ASSUME IInv
        PROVE  \A b \in Rows(s) : RingOk(b)
    BY <2>1, Here DEF Good, Sound, RowOk
  <2>2. ASSUME IInv, NEW b \in Rows(s)
        PROVE  \A k \in DOMAIN b.ring : b.ring[k].seq = 0 \/ b.ring[k].seq > b.born
    BY <2>1, <2>2 DEF RingOk
  <2>3. ASSUME IInv, NEW b \in Rows(s)
        PROVE  /\ Len(b.ring) <= RingCap
               /\ \A j, k \in DOMAIN b.ring :
                    j < k => b.ring[j].seq > b.ring[k].seq \/ b.ring[j].seq + b.ring[k].seq = 0
    BY <2>1, <2>3 DEF RingOk, Newer
  <2> QED
    BY <2>2, <2>3 DEF RingOrdered
<1> QED
  BY <1>1, Invariant, PTL

\* A window that starts has the rows it last wrote or read, or, where it ended between the
\* project's file and last_project.txt, or the latter did not open, those of the project
\* before; unless a write was cut short (ProjectIO::save, writeRecent, main.cpp).
THEOREM RowsComeBack == Spec => RestoredOnLaunch
<1>1. IInv /\ [Next]_vars => [~running /\ running' /\ saved # {} => Kept(s') \in saved]_vars
  <2> SUFFICES ASSUME IInv, Next, ~running, running', saved # {}
               PROVE  Kept(s') \in saved
    OBVIOUS
  <2>1. CASE Launch
    BY <2>1, LaunchStep
  <2>2. ~User
    BY DEF User, Inspector, BusList, Rename, ToggleEnabled, EditFilters, TypeRecordPath, AttachMock,
           Detach, StopRecordButton, StopForward, ReplayFile, AttachNet, StartRecord,
           StartForwardButton, DeleteButton, StopRecordAll, StartRecordAll, StartReplayAll,
           NewBusButton, NewProject, OpenProject, SaveProject, Operation, Project
  <2>3. /\ \A how \in Writes : ~Exit(how) /\ ~Finish(how)
        /\ ~Killed /\ ~TickOnly /\ \A answered \in BOOLEAN : ~TickPing(answered)
    BY DEF Exit, Finish, Killed, TickOnly, TickPing, Tick
  <2>4. ASSUME NEW n \in BusNames, NEW len \in Lens, Carry(n, len)
        PROVE  FALSE
    <3>1. UNCHANGED <<up, d, disk, recent, running, s, job, saved>>
      BY <2>4 DEF Carry
    <3> QED
      BY <3>1
  <2>5. ~DaemonStops
    BY DEF DaemonStops
  <2>6. ~DaemonStarts
    BY DEF DaemonStarts
  <2> QED
    BY <2>1, <2>2, <2>3, <2>4, <2>5, <2>6 DEF Next
<1> QED
  BY <1>1, Invariant, PTL DEF Spec, RestoredOnLaunch

\* Every packet added to a row is one the row's filters select, by what their patterns mean,
\* whatever the filters, the packets and the operation (Model::tick).
THEOREM FilteredIn == Spec => OnlySelectedShown
<1>1. IInv /\ [Next]_vars => [\A b \in Rows(s), c \in Rows(s') :
        running /\ b.id = c.id =>
            \A p \in ToSet(c.ring) \ ToSet(b.ring) : Selects(b.filters, p)]_vars
  <2> SUFFICES ASSUME IInv, [Next]_vars, NEW b \in Rows(s), NEW c \in Rows(s'), b.id = c.id,
                      NEW p \in ToSet(c.ring) \ ToSet(b.ring)
               PROVE  Selects(b.filters, p)
    OBVIOUS
  <2>1. Grows(c)
    BY StepKeeps DEF Added
  <2>2. c.ring # <<>>
    BY DEF ToSet
  <2>3. PICK a \in Rows(s) :
          a.id = c.id /\ \A q \in ToSet(c.ring) \ ToSet(a.ring) : Selects(a.filters, q)
    BY <2>1, <2>2 DEF Grows
  <2>4. a = b
    BY <2>3, Here, RowAt
  <2> QED
    BY <2>3, <2>4
<1> QED
  BY Invariant, <1>1, PTL DEF Spec, OnlySelectedShown
=============================================================================
