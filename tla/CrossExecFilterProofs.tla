----------------------- MODULE CrossExecFilterProofs -----------------------
(***************************************************************************)
(* The filters between executors never run on freed memory, for any number *)
(* of subgroups and calls: a task that points to a filter is always        *)
(* followed by whatever keeps the filter alive.                            *)
(***************************************************************************)
EXTENDS MCCrossExec, FiniteSetTheorems, TLAPS

SubgroupOps == {"object", "checkpoint", "end", "reset"}
Concerns(t, f) == f \in t.this \cup t.holds

\* What each kind of task refers to.
Proper(t) ==
    /\ t \in Task
    /\ t.op = "begin" => t.this = {Track} /\ \E s \in Subgroups : t.holds = {s}
    /\ t.op \in SubgroupOps => \E s \in Subgroups : t.this \cup t.holds = {s}
    /\ t.op = "guard" => t.this = {} /\ \E s \in Subgroups : t.holds = {s}
    /\ t.op \in {"alias", "datagram", "delete"} => t.this = {Track} /\ t.holds = {}
    /\ t.op = "done" => t.this = {} /\ t.holds = {Track}
    /\ t.op = "release" => t.this = {} /\ t.holds = {}
    /\ t.fin => t.op \in SubgroupOps
    /\ t.op \in {"end", "reset"} => t.fin

Ended(z) == \E i \in DOMAIN z : z[i] # "ok"

\* Subgroup filter b of s, when the queue is q and its consumer has answered z:
\* nothing refers to a filter not made, and nothing owns one that is freed ...
Lifetime(b, q, z, s) ==
    /\ ~ b.made => /\ ~ b.src /\ ~ b.guard /\ ~ b.freed /\ ~ b.down /\ z = <<>>
                   /\ \A i \in DOMAIN q : ~ Concerns(q[i], s)
    /\ b.freed => ~ b.src /\ ~ b.guard /\ ~ b.down /\ ~ Held(q, s)
    /\ b.down => b.keep

\* ... the filter has its guard as long as calls may come, and a task that
\* points to it runs under the guard or before a task that holds the filter ...
Guarded(b, q, s) ==
    /\ b.src /\ ~ b.over /\ ~ b.err => b.guard
    /\ \A i \in DOMAIN q : s \in q[i].this => b.guard \/ \E j \in DOMAIN q : i <= j /\ s \in q[j].holds

\* ... the task that drops the guard is the last of its subgroup ...
LastIsLast(b, q, s) ==
    \A i \in DOMAIN q : q[i].fin /\ Concerns(q[i], s) =>
        /\ b.over
        /\ \A j \in DOMAIN q : q[j].op \in SubgroupOps /\ Concerns(q[j], s) => j <= i

\* ... the one that opens the downstream is the first ...
FirstIsFirst(b, q, z, s) ==
    \A i \in DOMAIN q : q[i].op = "begin" /\ s \in q[i].holds =>
        /\ ~ b.down /\ z = <<>>
        /\ \A j \in DOMAIN q : Concerns(q[j], s) => i <= j

\* ... and a consumer that has given its last answer gets no further call.
Silent(b, q, z, s) ==
    /\ \A i \in DOMAIN z : z[i] # "ok" => i = Len(z)
    /\ Ended(z) /\ b.down => b.over /\ \A i \in DOMAIN q : q[i].op \in SubgroupOps => ~ Concerns(q[i], s)

SubgroupOK(b, q, z, s) ==
    /\ b \in SubgroupFilter /\ z \in Seq({"ok", "error", "end"})
    /\ Lifetime(b, q, z, s) /\ Guarded(b, q, s) /\ LastIsLast(b, q, s)
    /\ FirstIsFirst(b, q, z, s) /\ Silent(b, q, z, s)

\* Someone owns every filter that is there: none is leaked.
Owned(b, q, s) == b.made /\ ~ b.freed => b.src \/ b.guard \/ Held(q, s)

\* The track filter: nothing is posted behind the task that deletes it.
TrackOK(T, q) ==
    /\ T \in TrackFilter
    /\ T.src => ~ T.freed
    /\ T.freed => \A i \in DOMAIN q : ~ Concerns(q[i], Track)
    /\ \A i \in DOMAIN q : q[i].op = "delete" =>
           ~ T.src /\ ~ T.freed /\ \A j \in DOMAIN q : Concerns(q[j], Track) => j <= i /\ Track \notin q[j].holds

IInv ==
    /\ queue \in Seq(Task) /\ \A i \in DOMAIN queue : Proper(queue[i])
    /\ sub \in [Subgroups -> SubgroupFilter]
    /\ seen \in [Subgroups -> Seq({"ok", "error", "end"})]
    /\ owned \in BOOLEAN
    /\ TrackOK(track, queue)
    /\ \A s \in Subgroups : SubgroupOK(sub[s], queue, seen[s], s) /\ Owned(sub[s], queue, s)
-----------------------------------------------------------------------------
(***************************************************************************)
(* The queue.                                                              *)
(***************************************************************************)
Tasks(q) == q \in Seq(Task) /\ \A i \in DOMAIN q : Proper(q[i])

\* A task more, at the end.
LEMMA Pushed ==
    ASSUME NEW q, Tasks(q), NEW t, Proper(t)
    PROVE  /\ Tasks(Append(q, t))
           /\ Len(q) \in Nat /\ DOMAIN q = 1 .. Len(q) /\ DOMAIN Append(q, t) = 1 .. Len(q) + 1
           /\ \A i \in 1 .. Len(q) : Append(q, t)[i] = q[i]
           /\ Append(q, t)[Len(q) + 1] = t
<1>1. t \in Task /\ q \in Seq(Task)
  BY Zenon DEF Proper, Tasks
<1>2. /\ Len(q) \in Nat /\ DOMAIN q = 1 .. Len(q) /\ DOMAIN Append(q, t) = 1 .. Len(q) + 1
      /\ \A i \in 1 .. Len(q) : Append(q, t)[i] = q[i]
      /\ Append(q, t)[Len(q) + 1] = t /\ Append(q, t) \in Seq(Task)
  BY <1>1
<1>3. \A i \in 1 .. Len(q) + 1 : i \in 1 .. Len(q) \/ i = Len(q) + 1
  BY <1>2
<1>4. \A i \in DOMAIN Append(q, t) : Proper(Append(q, t)[i])
  BY <1>2, <1>3, Zenon DEF Tasks
<1> QED BY <1>2, <1>4, Zenon DEF Tasks

\* A task less, at the front.
LEMMA Popped ==
    ASSUME NEW q, Tasks(q), q # <<>>
    PROVE  /\ Tasks(Tail(q)) /\ Proper(Head(q)) /\ Head(q) = q[1]
           /\ Len(q) \in Nat \ {0} /\ DOMAIN q = 1 .. Len(q) /\ DOMAIN Tail(q) = 1 .. Len(q) - 1
           /\ \A i \in 1 .. Len(q) - 1 : Tail(q)[i] = q[i + 1]
<1>1. q \in Seq(Task)
  BY Zenon DEF Tasks
<1>2. /\ Len(q) \in Nat \ {0} /\ DOMAIN q = 1 .. Len(q) /\ DOMAIN Tail(q) = 1 .. Len(q) - 1
      /\ \A i \in 1 .. Len(q) - 1 : Tail(q)[i] = q[i + 1]
      /\ Head(q) = q[1] /\ Tail(q) \in Seq(Task)
  BY <1>1
<1>3. \A i \in 1 .. Len(q) - 1 : i + 1 \in DOMAIN q
  BY <1>2
<1>4. 1 \in DOMAIN q
  BY <1>2
<1> QED BY <1>2, <1>3, <1>4, Zenon DEF Tasks

\* A task that has nothing to do with a subgroup changes nothing for it.
LEMMA PushOther ==
    ASSUME NEW b, NEW q, NEW z, NEW s \in Subgroups, NEW t, Tasks(q), Proper(t),
           ~ Concerns(t, s), SubgroupOK(b, q, z, s)
    PROVE  SubgroupOK(b, Append(q, t), z, s) /\ (Owned(b, q, s) => Owned(b, Append(q, t), s))
<1> DEFINE r == Append(q, t)
<1>1. \A i \in DOMAIN r : Concerns(r[i], s) => i \in DOMAIN q /\ r[i] = q[i]
  BY Pushed
<1>2. \A i \in DOMAIN q : i \in DOMAIN r /\ r[i] = q[i]
  BY Pushed
<1> HIDE DEF r
<1>3. Held(r, s) <=> Held(q, s)
  BY <1>1, <1>2, Zenon DEF Held, Concerns
<1>4. Lifetime(b, r, z, s)
  BY <1>1, <1>3, Zenon DEF SubgroupOK, Lifetime
<1>5. Guarded(b, r, s)
  BY <1>1, <1>2, Zenon DEF SubgroupOK, Guarded, Concerns
<1>6. LastIsLast(b, r, s)
  BY <1>1, Zenon DEF SubgroupOK, LastIsLast
<1>7. FirstIsFirst(b, r, z, s)
  BY <1>1, Zenon DEF SubgroupOK, FirstIsFirst, Concerns
<1>8. Silent(b, r, z, s)
  BY <1>1, Zenon DEF SubgroupOK, Silent
<1>9. Owned(b, q, s) => Owned(b, r, s)
  BY <1>3, Zenon DEF Owned
<1> QED BY <1>4, <1>5, <1>6, <1>7, <1>8, <1>9, Zenon DEF SubgroupOK, r

\* A task that has run takes nothing from those behind it.  Behind the last
\* task of a subgroup there is no other of that subgroup, and behind any of its
\* tasks there is none that opens its downstream.
LEMMA PopAny ==
    ASSUME NEW b, NEW q, NEW z, NEW s \in Subgroups, Tasks(q), q # <<>>, SubgroupOK(b, q, z, s)
    PROVE  /\ SubgroupOK(b, Tail(q), z, s)
           /\ s \notin Head(q).holds /\ Owned(b, q, s) => Owned(b, Tail(q), s)
           /\ Head(q).fin /\ Concerns(Head(q), s) =>
                  b.over /\ \A i \in DOMAIN Tail(q) : Tail(q)[i].op \in SubgroupOps => ~ Concerns(Tail(q)[i], s)
           /\ Concerns(Head(q), s) =>
                  \A i \in DOMAIN Tail(q) : Tail(q)[i].op = "begin" => s \notin Tail(q)[i].holds
<1> DEFINE r == Tail(q)
           n == Len(q)
<1>1. /\ n \in Nat \ {0} /\ DOMAIN q = 1 .. n /\ DOMAIN r = 1 .. n - 1 /\ Head(q) = q[1]
      /\ \A i \in 1 .. n - 1 : r[i] = q[i + 1]
  BY Popped, Zenon
<1> HIDE DEF r, n
<1>2. \A i \in 1 .. n - 1 : i \in Int /\ i + 1 \in 1 .. n
  BY <1>1
<1>3. \A i \in 1 .. n : i \in Int /\ (i = 1 \/ (i - 1 \in 1 .. n - 1 /\ q[i] = r[i - 1]))
  BY <1>1
<1>4. Held(r, s) => Held(q, s)
  BY <1>1, <1>2, Zenon DEF Held
<1>5. Lifetime(b, r, z, s)
  BY <1>1, <1>2, <1>4, Zenon DEF SubgroupOK, Lifetime
<1>6. Guarded(b, r, s)
  <2>1. ASSUME NEW i \in 1 .. n - 1, s \in r[i].this, ~ b.guard
        PROVE  \E j \in 1 .. n - 1 : i <= j /\ s \in r[j].holds
    <3>1. PICK j \in 1 .. n : i + 1 <= j /\ s \in q[j].holds
      BY <1>1, <1>2, <2>1, Zenon DEF SubgroupOK, Guarded
    <3>2. j - 1 \in 1 .. n - 1 /\ i <= j - 1
      BY <1>1, <3>1
    <3>3. s \in r[j - 1].holds
      BY <1>3, <3>1, <3>2
    <3> QED BY <3>2, <3>3, Zenon
  <2> QED BY <1>1, <2>1, Zenon DEF SubgroupOK, Guarded
<1>7. LastIsLast(b, r, s)
  <2>1. ASSUME NEW i \in 1 .. n - 1, r[i].fin, Concerns(r[i], s)
        PROVE  b.over /\ \A j \in 1 .. n - 1 : r[j].op \in SubgroupOps /\ Concerns(r[j], s) => j <= i
    <3>1. /\ b.over
          /\ \A j \in 1 .. n : q[j].op \in SubgroupOps /\ Concerns(q[j], s) => j <= i + 1
      BY <1>1, <1>2, <2>1, Zenon DEF SubgroupOK, LastIsLast
    <3>2. \A j \in 1 .. n - 1 : j + 1 <= i + 1 => j <= i
      OBVIOUS
    <3> QED BY <1>1, <1>2, <3>1, <3>2, Zenon
  <2> QED BY <1>1, <2>1, Zenon DEF LastIsLast
<1>8. FirstIsFirst(b, r, z, s)
  <2>1. ASSUME NEW i \in 1 .. n - 1, r[i].op = "begin", s \in r[i].holds
        PROVE  ~ b.down /\ z = <<>> /\ \A j \in 1 .. n - 1 : Concerns(r[j], s) => i <= j
    <3>1. ~ b.down /\ z = <<>> /\ \A j \in 1 .. n : Concerns(q[j], s) => i + 1 <= j
      BY <1>1, <1>2, <2>1, Zenon DEF SubgroupOK, FirstIsFirst
    <3>2. \A j \in 1 .. n - 1 : i + 1 <= j + 1 => i <= j
      OBVIOUS
    <3> QED BY <1>1, <1>2, <3>1, <3>2, Zenon
  <2> QED BY <1>1, <2>1, Zenon DEF FirstIsFirst
<1>9. Silent(b, r, z, s)
  BY <1>1, <1>2, Zenon DEF SubgroupOK, Silent
<1>10. s \notin Head(q).holds /\ Owned(b, q, s) => Owned(b, r, s)
  BY <1>1, <1>3, Zenon DEF Owned, Held
<1>11. Head(q).fin /\ Concerns(Head(q), s) =>
          b.over /\ \A i \in DOMAIN r : r[i].op \in SubgroupOps => ~ Concerns(r[i], s)
  <2>1. ASSUME q[1].fin, Concerns(q[1], s)
        PROVE  b.over /\ \A j \in 1 .. n : q[j].op \in SubgroupOps /\ Concerns(q[j], s) => j <= 1
    BY <1>1, <2>1, SMTT(30) DEF SubgroupOK, LastIsLast
  <2>2. \A i \in 1 .. n - 1 : ~ (i + 1 <= 1)
    OBVIOUS
  <2> QED BY <1>1, <1>2, <2>1, <2>2, Zenon
<1>12. Concerns(Head(q), s) => \A i \in DOMAIN r : r[i].op = "begin" => s \notin r[i].holds
  BY <1>1, <1>2, SMTT(30) DEF SubgroupOK, FirstIsFirst
<1> QED BY <1>5, <1>6, <1>7, <1>8, <1>9, <1>10, <1>11, <1>12, Zenon DEF SubgroupOK, r
-----------------------------------------------------------------------------
(***************************************************************************)
(* A subgroup filter.                                                      *)
(***************************************************************************)
\* The filter may record an error, lose its downstream, and lose its guard when
\* no task that points to it is left without a later one that holds it.
LEMMA Changed ==
    ASSUME NEW b, NEW c \in SubgroupFilter, NEW q, NEW z, NEW s \in Subgroups, SubgroupOK(b, q, z, s),
           c.made = b.made, c.freed = b.freed, c.src => b.src, c.guard => b.guard,
           b.over => c.over, c.down => b.down /\ c.keep, c.src /\ ~ c.over /\ ~ c.err => c.guard,
           c.guard \/ ~ b.guard \/ \A i \in DOMAIN q : s \notin q[i].this
    PROVE  SubgroupOK(c, q, z, s)
<1>1. Lifetime(c, q, z, s)
  BY Zenon DEF SubgroupOK, Lifetime
<1>2. Guarded(c, q, s)
  BY Zenon DEF SubgroupOK, Guarded
<1>3. LastIsLast(c, q, s)
  BY Zenon DEF SubgroupOK, LastIsLast
<1>4. FirstIsFirst(c, q, z, s)
  BY Zenon DEF SubgroupOK, FirstIsFirst
<1>5. Silent(c, q, z, s)
  BY Zenon DEF SubgroupOK, Silent
<1> QED BY <1>1, <1>2, <1>3, <1>4, <1>5, Zenon DEF SubgroupOK

\* A call on a filter that is not over posts a task.
LEMMA Called ==
    ASSUME NEW b, NEW c \in SubgroupFilter, NEW q, NEW z, NEW s \in Subgroups, NEW t, Tasks(q), Proper(t),
           SubgroupOK(b, q, z, s), Concerns(t, s), t.op # "begin", b.made, ~ b.freed, ~ b.over,
           c.made = b.made, c.freed = b.freed, c.down = b.down, c.keep = b.keep,
           c.src /\ ~ c.over /\ ~ c.err => c.guard,
           s \in t.this => c.guard, b.guard => c.guard \/ s \in t.holds, t.fin => c.over
    PROVE  SubgroupOK(c, Append(q, t), z, s)
<1> DEFINE r == Append(q, t)
           n == Len(q)
<1>1. /\ n \in Nat /\ DOMAIN q = 1 .. n /\ DOMAIN r = 1 .. n + 1 /\ r[n + 1] = t
      /\ \A i \in 1 .. n : r[i] = q[i]
  BY Pushed
<1> HIDE DEF r, n
<1>2. \A i \in 1 .. n + 1 : i <= n + 1 /\ (i = n + 1 \/ i \in 1 .. n)
  BY <1>1
<1>3. \A i \in 1 .. n : i \in 1 .. n + 1
  BY <1>1
<1>4. n + 1 \in 1 .. n + 1
  BY <1>1
<1>5. Lifetime(c, r, z, s)
  BY Zenon DEF SubgroupOK, Lifetime
<1>6. Guarded(c, r, s)
  <2>1. ASSUME NEW i \in 1 .. n, s \in q[i].this, ~ c.guard
        PROVE  \E j \in 1 .. n + 1 : i <= j /\ s \in r[j].holds
    <3>1. CASE b.guard
      BY <1>1, <1>2, <1>3, <1>4, <2>1, <3>1, Zenon
    <3>2. CASE ~ b.guard
      <4>1. PICK j \in 1 .. n : i <= j /\ s \in q[j].holds
        BY <1>1, <2>1, <3>2, Zenon DEF SubgroupOK, Guarded
      <4> QED BY <1>1, <1>3, <4>1, Zenon
    <3> QED BY <3>1, <3>2, Zenon
  <2> QED BY <1>1, <1>2, <2>1, Zenon DEF Guarded
<1>7. \A i \in 1 .. n : ~ (q[i].fin /\ Concerns(q[i], s))
  BY <1>1, Zenon DEF SubgroupOK, LastIsLast
<1>8. LastIsLast(c, r, s)
  BY <1>1, <1>2, <1>7 DEF LastIsLast
<1>9. FirstIsFirst(c, r, z, s)
  BY <1>1, <1>2 DEF SubgroupOK, FirstIsFirst
<1>10. Silent(c, r, z, s)
  BY Zenon DEF SubgroupOK, Silent
<1> QED BY <1>5, <1>6, <1>8, <1>9, <1>10, Zenon DEF SubgroupOK, r

\* A subgroup is begun: the first task that concerns it opens its downstream.
LEMMA Begun ==
    ASSUME NEW b, NEW c \in SubgroupFilter, NEW q, NEW z, NEW s \in Subgroups, NEW t, Tasks(q), Proper(t),
           SubgroupOK(b, q, z, s), s \in t.holds, s \notin t.this, ~ t.fin, ~ b.made,
           c.made, c.freed = b.freed, c.down = b.down, c.guard
    PROVE  SubgroupOK(c, Append(q, t), z, s)
<1> DEFINE r == Append(q, t)
           n == Len(q)
<1>1. /\ n \in Nat /\ DOMAIN q = 1 .. n /\ DOMAIN r = 1 .. n + 1 /\ r[n + 1] = t
      /\ \A i \in 1 .. n : r[i] = q[i]
  BY Pushed
<1> HIDE DEF r, n
<1>2. \A i \in 1 .. n + 1 : i <= n + 1 /\ (i = n + 1 \/ i \in 1 .. n)
  BY <1>1
<1>3. /\ ~ b.freed /\ ~ b.down /\ z = <<>> /\ z \in Seq({"ok", "error", "end"})
      /\ \A i \in 1 .. n : ~ Concerns(r[i], s)
  BY <1>1, Zenon DEF SubgroupOK, Lifetime
<1>4. Lifetime(c, r, z, s) /\ Guarded(c, r, s)
  BY <1>1, <1>2, <1>3, Zenon DEF Lifetime, Guarded, Concerns
<1>5. LastIsLast(c, r, s)
  BY <1>1, <1>2, <1>3, Zenon DEF LastIsLast
<1>6. FirstIsFirst(c, r, z, s)
  BY <1>1, <1>2, <1>3, Zenon DEF FirstIsFirst, Concerns
<1>7. Silent(c, r, z, s)
  BY <1>3, Zenon DEF SubgroupOK, Silent
<1> QED BY <1>3, <1>4, <1>5, <1>6, <1>7, Zenon DEF SubgroupOK, r

\* Its first task has run and the downstream is there.
LEMMA OpenedOK ==
    ASSUME NEW b, NEW c \in SubgroupFilter, NEW q, NEW z, NEW s \in Subgroups, SubgroupOK(b, q, z, s),
           b.made, ~ b.freed, z = <<>>, \A i \in DOMAIN q : q[i].op = "begin" => s \notin q[i].holds,
           c.made, ~ c.freed, c.src = b.src, c.guard = b.guard, c.over = b.over, c.err = b.err, c.keep
    PROVE  SubgroupOK(c, q, z, s)
<1>1. Lifetime(c, q, z, s)
  BY Zenon DEF Lifetime
<1>2. Guarded(c, q, s) /\ LastIsLast(c, q, s)
  BY Zenon DEF SubgroupOK, Guarded, LastIsLast
<1>3. FirstIsFirst(c, q, z, s)
  BY Zenon DEF FirstIsFirst
<1>4. ~ Ended(z)
  BY DEF Ended
<1>5. Silent(c, q, z, s)
  BY <1>4, Zenon DEF SubgroupOK, Silent
<1> QED BY <1>1, <1>2, <1>3, <1>5, Zenon DEF SubgroupOK

\* Its consumer has answered x: the last answer only when no call is left or the
\* downstream goes.
LEMMA AnsweredOK ==
    ASSUME NEW b, NEW q, NEW z, NEW s \in Subgroups, SubgroupOK(b, q, z, s), b.made, ~ Ended(z),
           \A i \in DOMAIN q : q[i].op = "begin" => s \notin q[i].holds,
           NEW x \in {"ok", "error", "end"},
           x = "ok" \/ ~ b.down \/ (b.over /\ \A i \in DOMAIN q : q[i].op \in SubgroupOps => ~ Concerns(q[i], s))
    PROVE  SubgroupOK(b, q, Append(z, x), s)
<1> DEFINE y == Append(z, x)
           n == Len(z)
<1>1. /\ z \in Seq({"ok", "error", "end"}) /\ y \in Seq({"ok", "error", "end"}) /\ n \in Nat
      /\ DOMAIN z = 1 .. n /\ DOMAIN y = 1 .. n + 1 /\ Len(y) = n + 1 /\ y[n + 1] = x
      /\ \A i \in 1 .. n : y[i] = z[i]
  BY DEF SubgroupOK
<1> HIDE DEF y, n
<1>2. \A i \in 1 .. n + 1 : i = n + 1 \/ i \in 1 .. n
  BY <1>1
<1>3. \A i \in 1 .. n + 1 : y[i] # "ok" => i = n + 1
  BY <1>1, <1>2, Zenon DEF Ended
<1>4. Ended(y) => x # "ok"
  BY <1>1, <1>3, Zenon DEF Ended
<1>5. Silent(b, q, y, s)
  BY <1>1, <1>3, <1>4, Zenon DEF SubgroupOK, Silent
<1>6. Lifetime(b, q, y, s) /\ FirstIsFirst(b, q, y, s)
  BY Zenon DEF SubgroupOK, Lifetime, FirstIsFirst
<1> QED BY <1>1, <1>5, <1>6, Zenon DEF SubgroupOK, y

\* The filter is deleted when nothing refers to it; then no task points to it.
LEMMA DestroyedOK ==
    ASSUME NEW b, NEW q, NEW z, NEW s \in Subgroups, SubgroupOK(b, q, z, s),
           b.made, ~ b.src, ~ b.guard, ~ Held(q, s)
    PROVE  SubgroupOK(Destroyed(b), q, z, s) /\ Owned(Destroyed(b), q, s)
<1> DEFINE c == Destroyed(b)
<1>1. /\ c \in SubgroupFilter /\ c.made /\ c.freed /\ ~ c.src /\ ~ c.guard /\ ~ c.down
      /\ c.over = b.over
  BY Zenon DEF SubgroupOK, SubgroupFilter, Destroyed
<1> HIDE DEF c
<1>2. \A i \in DOMAIN q : s \notin q[i].this /\ s \notin q[i].holds
  BY Zenon DEF SubgroupOK, Guarded, Held
<1>3. Lifetime(c, q, z, s) /\ Guarded(c, q, s) /\ LastIsLast(c, q, s) /\ FirstIsFirst(c, q, z, s)
  BY <1>1, <1>2, Zenon DEF Lifetime, Guarded, LastIsLast, FirstIsFirst, Concerns
<1>4. Silent(c, q, z, s)
  BY <1>1, Zenon DEF SubgroupOK, Silent
<1>5. Owned(c, q, s)
  BY <1>1, Zenon DEF Owned
<1>6. z \in Seq({"ok", "error", "end"})
  BY Zenon DEF SubgroupOK
<1> QED BY <1>1, <1>3, <1>4, <1>5, <1>6, Zenon DEF SubgroupOK, c
-----------------------------------------------------------------------------
(***************************************************************************)
(* The track filter.                                                       *)
(***************************************************************************)
\* A task is posted: on behalf of a source that holds the filter, or of others.
LEMMA TrackPush ==
    ASSUME NEW T, NEW q, NEW t, TrackOK(T, q), Tasks(q), Proper(t), t.op # "delete",
           T.src \/ ~ Concerns(t, Track)
    PROVE  TrackOK(T, Append(q, t))
<1> DEFINE r == Append(q, t)
           n == Len(q)
<1>1. /\ n \in Nat /\ DOMAIN q = 1 .. n /\ DOMAIN r = 1 .. n + 1 /\ r[n + 1] = t
      /\ \A i \in 1 .. n : r[i] = q[i]
  BY Pushed
<1> HIDE DEF r, n
<1>2. \A i \in 1 .. n + 1 : i = n + 1 \/ i \in 1 .. n
  BY <1>1
<1>3. T.freed => \A i \in 1 .. n + 1 : ~ Concerns(r[i], Track)
  BY <1>1, <1>2, Zenon DEF TrackOK
<1>4. ASSUME NEW i \in 1 .. n + 1, r[i].op = "delete"
      PROVE  /\ ~ T.src /\ ~ T.freed
             /\ \A j \in 1 .. n + 1 : Concerns(r[j], Track) => j <= i /\ Track \notin r[j].holds
  BY <1>1, <1>2, <1>4, Zenon DEF TrackOK
<1> QED BY <1>1, <1>3, <1>4, Zenon DEF TrackOK, r

\* A task has run; nothing is behind the one that deletes the filter.
LEMMA TrackPop ==
    ASSUME NEW T, NEW q, TrackOK(T, q), Tasks(q), q # <<>>
    PROVE  /\ TrackOK(T, Tail(q))
           /\ Head(q).op = "delete" =>
                  ~ T.src /\ \A i \in DOMAIN Tail(q) : ~ Concerns(Tail(q)[i], Track) /\ Tail(q)[i].op # "delete"
<1> DEFINE r == Tail(q)
           n == Len(q)
<1>1. /\ n \in Nat \ {0} /\ DOMAIN q = 1 .. n /\ DOMAIN r = 1 .. n - 1 /\ Head(q) = q[1]
      /\ \A i \in 1 .. n - 1 : r[i] = q[i + 1]
  BY Popped, Zenon
<1> HIDE DEF r, n
<1>2. \A i \in 1 .. n - 1 : i + 1 \in 1 .. n /\ ~ (i + 1 <= 1) /\ \A j \in 1 .. n - 1 : j + 1 <= i + 1 => j <= i
  BY <1>1
<1>3. T.freed => \A i \in 1 .. n - 1 : ~ Concerns(r[i], Track)
  BY <1>1, <1>2, Zenon DEF TrackOK
<1>4. ASSUME NEW i \in 1 .. n - 1, r[i].op = "delete"
      PROVE  /\ ~ T.src /\ ~ T.freed
             /\ \A j \in 1 .. n - 1 : Concerns(r[j], Track) => j <= i /\ Track \notin r[j].holds
  <2>1. q[i + 1].op = "delete" /\ i + 1 \in 1 .. n
    BY <1>1, <1>2, <1>4, Zenon
  <2>2. /\ ~ T.src /\ ~ T.freed
        /\ \A j \in 1 .. n : Concerns(q[j], Track) => j <= i + 1 /\ Track \notin q[j].holds
    BY <1>1, <2>1, Zenon DEF TrackOK
  <2> QED BY <1>1, <1>2, <2>2, Zenon
<1>5. ASSUME q[1].op = "delete"
      PROVE  ~ T.src /\ \A i \in 1 .. n - 1 : ~ Concerns(r[i], Track) /\ r[i].op # "delete"
  <2>1. ~ T.src /\ \A j \in 1 .. n : Concerns(q[j], Track) => j <= 1
    BY <1>1, <1>5 DEF TrackOK
  <2>2. \A j \in 1 .. n : q[j].op = "delete" => Concerns(q[j], Track)
    BY <1>1 DEF Tasks, Proper, Concerns
  <2> QED BY <1>1, <1>2, <2>1, <2>2
<1>6. TrackOK(T, r)
  BY <1>1, <1>3, <1>4, Zenon DEF TrackOK
<1> QED BY <1>1, <1>5, <1>6, Zenon DEF r

\* The deleter of the filter: the task it posts is the last.
LEMMA ReleasedOK ==
    ASSUME NEW T, NEW q, TrackOK(T, q), Tasks(q)
    PROVE  TrackOK(T, TrackReleased(T, q)) /\ Tasks(TrackReleased(T, q))
<1> DEFINE t == This("delete", Track)
<1>1. Proper(t) /\ t.op = "delete" /\ t.this = {Track} /\ t.holds = {}
  BY CrossExecAssumption, Zenon DEF This, NewTask, Proper, Task, SubgroupOps, Filters
<1> HIDE DEF t
<1>2. CASE T.src \/ T.freed \/ Held(q, Track) \/ \E i \in DOMAIN q : q[i].op = "delete"
  BY <1>2, Zenon DEF TrackReleased
<1>3. CASE ~ (T.src \/ T.freed \/ Held(q, Track) \/ \E i \in DOMAIN q : q[i].op = "delete")
  <2> DEFINE r == Append(q, t)
             n == Len(q)
  <2>1. TrackReleased(T, q) = r
    BY <1>3, Zenon DEF TrackReleased, t
  <2>2. /\ n \in Nat /\ DOMAIN q = 1 .. n /\ DOMAIN r = 1 .. n + 1 /\ r[n + 1] = t
        /\ \A i \in 1 .. n : r[i] = q[i]
    BY <1>1, Pushed
  <2>3. Tasks(r)
    BY <1>1, Pushed, Zenon
  <2> HIDE DEF r, n
  <2>4. \A i \in 1 .. n + 1 : i <= n + 1 /\ (i = n + 1 \/ i \in 1 .. n)
    BY <2>2
  <2>5. \A i \in 1 .. n + 1 : Track \notin r[i].holds
    BY <1>1, <1>3, <2>2, <2>4, Zenon DEF Held
  <2>6. \A i \in 1 .. n + 1 : r[i].op = "delete" => i = n + 1
    BY <1>3, <2>2, <2>4, Zenon
  <2>7. TrackOK(T, r)
    BY <1>3, <2>2, <2>4, <2>5, <2>6, Zenon DEF TrackOK
  <2> QED BY <2>1, <2>3, <2>7, Zenon
<1> QED BY <1>2, <1>3, Zenon
-----------------------------------------------------------------------------
(***************************************************************************)
(* The end of a step.                                                      *)
(***************************************************************************)
\* What the destructors post concerns no subgroup.
LEMMA PostedByDestructors ==
    ASSUME NEW b, NEW q, NEW z, NEW s \in Subgroups, NEW c \in SubgroupFilter, NEW T, Tasks(q),
           SubgroupOK(b, q, z, s)
    PROVE  /\ SubgroupOK(b, Release(q, c), z, s) /\ (Owned(b, q, s) => Owned(b, Release(q, c), s))
           /\ SubgroupOK(b, TrackReleased(T, q), z, s) /\ (Owned(b, q, s) => Owned(b, TrackReleased(T, q), s))
<1> DEFINE t == [NewTask("release") EXCEPT !.forwarder = c.keep]
           d == This("delete", Track)
<1>1. Proper(t) /\ ~ Concerns(t, s)
  BY Zenon DEF NewTask, Proper, Task, SubgroupOps, Concerns, SubgroupFilter
<1>2. Proper(d) /\ ~ Concerns(d, s)
  BY CrossExecAssumption, Zenon DEF This, NewTask, Proper, Task, SubgroupOps, Filters, Concerns
<1>3. Release(q, c) \in {q, Append(q, t)}
  BY Zenon DEF Release
<1>4. TrackReleased(T, q) \in {q, Append(q, d)}
  BY Zenon DEF TrackReleased
<1> HIDE DEF t, d
<1>5. SubgroupOK(b, Append(q, t), z, s) /\ (Owned(b, q, s) => Owned(b, Append(q, t), s))
  BY <1>1, PushOther, Zenon
<1>6. SubgroupOK(b, Append(q, d), z, s) /\ (Owned(b, q, s) => Owned(b, Append(q, d), s))
  BY <1>2, PushOther, Zenon
<1> QED BY <1>3, <1>4, <1>5, <1>6, Zenon

\* What the destructor of a subgroup filter posts does not concern the track.
LEMMA ReleaseOK ==
    ASSUME NEW T, NEW q, NEW c \in SubgroupFilter, TrackOK(T, q), Tasks(q)
    PROVE  TrackOK(T, Release(q, c)) /\ Tasks(Release(q, c))
<1> DEFINE t == [NewTask("release") EXCEPT !.forwarder = c.keep]
<1>1. Proper(t) /\ ~ Concerns(t, Track) /\ t.op # "delete"
  BY ZenonT(60) DEF NewTask, Proper, Task, SubgroupOps, Concerns, SubgroupFilter
<1>2. Release(q, c) \in {q, Append(q, t)}
  BY Zenon DEF Release
<1> HIDE DEF t
<1>3. TrackOK(T, Append(q, t)) /\ Tasks(Append(q, t))
  BY <1>1, TrackPush, Pushed, Zenon
<1> QED BY <1>2, <1>3, Zenon

\* A step may leave one filter without an owner: it is destroyed.
LEMMA Becomes ==
    ASSUME NEW S \in [Subgroups -> SubgroupFilter], NEW T, NEW q, NEW f \in Filters, Become(S, T, q, f),
           seen' \in [Subgroups -> Seq({"ok", "error", "end"})], owned' \in BOOLEAN,
           Tasks(q), TrackOK(T, q),
           \A s \in Subgroups : SubgroupOK(S[s], q, seen'[s], s) /\ (s # f => Owned(S[s], q, s))
    PROVE  IInv'
<1> DEFINE gone == f \in Subgroups /\ Unreferenced(S, q, f)
           p == IF gone THEN Release(q, S[f]) ELSE q
<1>1. /\ sub' = IF gone THEN [S EXCEPT ![f] = Destroyed(@)] ELSE S
      /\ track' = T /\ queue' = TrackReleased(T, p)
  BY Zenon DEF Become
<1>2. f \in Subgroups => S[f] \in SubgroupFilter
  BY Zenon
<1>3. TrackOK(T, p) /\ Tasks(p)
  BY <1>2, ReleaseOK, ZenonT(60)
<1>4. /\ sub' \in [Subgroups -> SubgroupFilter]
      /\ \A s \in Subgroups : SubgroupOK(sub'[s], q, seen'[s], s) /\ Owned(sub'[s], q, s)
  <2>1. CASE gone
    <3>1. SubgroupOK(Destroyed(S[f]), q, seen'[f], f) /\ Owned(Destroyed(S[f]), q, f)
      BY <2>1, DestroyedOK, ZenonT(60) DEF Unreferenced
    <3>2. Destroyed(S[f]) \in SubgroupFilter
      BY <3>1, Zenon DEF SubgroupOK
    <3>3. \A s \in Subgroups : sub'[s] = IF s = f THEN Destroyed(S[f]) ELSE S[s]
      BY <1>1, <2>1, Zenon
    <3>4. sub' \in [Subgroups -> SubgroupFilter]
      BY <1>1, <2>1, <3>2, Zenon
    <3> QED BY <3>1, <3>3, <3>4, Zenon
  <2>2. CASE ~ gone
    <3>1. sub' = S
      BY <1>1, <2>2, Zenon
    <3>2. f \in Subgroups => Owned(S[f], q, f)
      BY <2>2, Zenon DEF Unreferenced, Owned
    <3> QED BY <3>1, <3>2, Zenon
  <2> QED BY <2>1, <2>2, Zenon
<1>5. ASSUME NEW s \in Subgroups
      PROVE  SubgroupOK(sub'[s], p, seen'[s], s) /\ Owned(sub'[s], p, s)
  BY <1>2, <1>4, PostedByDestructors, Zenon
<1>6. ASSUME NEW s \in Subgroups
      PROVE  SubgroupOK(sub'[s], queue', seen'[s], s) /\ Owned(sub'[s], queue', s)
  <2>1. SubgroupOK(sub'[s], p, seen'[s], s) /\ Owned(sub'[s], p, s)
    BY <1>5, Zenon
  <2>2. sub'[s] \in SubgroupFilter
    BY <1>4, Zenon
  <2> HIDE DEF p
  <2> QED BY <1>1, <1>3, <2>1, <2>2, PostedByDestructors, Zenon
<1>7. TrackOK(track', queue') /\ Tasks(queue')
  BY <1>1, <1>3, ReleasedOK, Zenon
<1> QED BY <1>4, <1>6, <1>7, Zenon DEF IInv, Tasks

\* The track filter changes, but is neither freed nor taken up again.
LEMMA TrackChanged ==
    ASSUME NEW T, NEW U \in TrackFilter, NEW q, TrackOK(T, q), U.src => T.src, U.freed = T.freed
    PROVE  TrackOK(U, q)
BY Zenon DEF TrackOK

\* A step of the track filter that posts a task of its own.
LEMMA TrackPosts ==
    ASSUME IInv, NEW T, NEW t, Become(sub, T, Append(queue, t), Track), UNCHANGED <<seen, owned>>,
           Proper(t), t.op # "delete", \A s \in Subgroups : ~ Concerns(t, s), T.src, TrackOK(T, queue)
    PROVE  IInv'
<1> DEFINE q == Append(queue, t)
<1>1. Tasks(queue)
  BY Zenon DEF IInv, Tasks
<1>2. Tasks(q) /\ TrackOK(T, q)
  BY <1>1, Pushed, TrackPush, Zenon
<1>3. ASSUME NEW s \in Subgroups
      PROVE  SubgroupOK(sub[s], q, seen'[s], s) /\ Owned(sub[s], q, s)
  BY <1>1, PushOther, Zenon DEF IInv
<1> HIDE DEF q
<1>4. sub \in [Subgroups -> SubgroupFilter] /\ Track \in Filters /\ Become(sub, T, q, Track)
  BY Zenon DEF IInv, Filters, q
<1>5. seen' \in [Subgroups -> Seq({"ok", "error", "end"})] /\ owned' \in BOOLEAN
  BY Zenon DEF IInv
<1> QED BY <1>2, <1>3, <1>4, <1>5, Becomes, Zenon

\* A step that runs a task of the track filter, or one of no filter.
LEMMA TrackRuns ==
    ASSUME IInv, NEW T, Become(sub, T, Tail(queue), Track), UNCHANGED <<seen, owned>>, queue # <<>>,
           \A s \in Subgroups : s \notin Head(queue).holds, TrackOK(T, Tail(queue))
    PROVE  IInv'
<1> DEFINE q == Tail(queue)
<1>1. Tasks(queue)
  BY Zenon DEF IInv, Tasks
<1>2. Tasks(q)
  BY <1>1, Popped, Zenon
<1>3. ASSUME NEW s \in Subgroups
      PROVE  SubgroupOK(sub[s], q, seen'[s], s) /\ Owned(sub[s], q, s)
  BY <1>1, PopAny, Zenon DEF IInv
<1>4. TrackOK(T, q) /\ Become(sub, T, q, Track)
  BY Zenon
<1> HIDE DEF q
<1>5. sub \in [Subgroups -> SubgroupFilter] /\ Track \in Filters
  BY Zenon DEF IInv, Filters
<1>6. seen' \in [Subgroups -> Seq({"ok", "error", "end"})] /\ owned' \in BOOLEAN
  BY Zenon DEF IInv
<1> QED BY <1>2, <1>3, <1>4, <1>5, <1>6, Becomes, Zenon

\* A step of one subgroup filter, after which it is c.
LEMMA SubgroupStep ==
    ASSUME IInv, NEW s \in Subgroups, NEW c, NEW q, Become([sub EXCEPT ![s] = c], track, q, s),
           Tasks(q), TrackOK(track, q), SubgroupOK(c, q, seen'[s], s), owned' = owned,
           seen' \in [Subgroups -> Seq({"ok", "error", "end"})],
           \A u \in Subgroups \ {s} : /\ seen'[u] = seen[u]
                                      /\ SubgroupOK(sub[u], q, seen[u], u) /\ Owned(sub[u], q, u)
    PROVE  IInv'
<1> DEFINE S == [sub EXCEPT ![s] = c]
<1>1. c \in SubgroupFilter /\ sub \in [Subgroups -> SubgroupFilter] /\ owned' \in BOOLEAN
  BY Zenon DEF SubgroupOK, IInv
<1>2. S \in [Subgroups -> SubgroupFilter] /\ \A u \in Subgroups : S[u] = IF u = s THEN c ELSE sub[u]
  BY <1>1, Zenon
<1>3. Become(S, track, q, s) /\ s \in Filters
  BY Zenon DEF Filters
<1> HIDE DEF S
<1>4. \A u \in Subgroups : SubgroupOK(S[u], q, seen'[u], u) /\ (u # s => Owned(S[u], q, u))
  BY <1>2, Zenon
<1> QED BY <1>1, <1>2, <1>3, <1>4, Becomes, ZenonT(60)

\* It posts a task that concerns no other subgroup.
LEMMA SubgroupPosts ==
    ASSUME IInv, NEW s \in Subgroups, NEW c, NEW t, Become([sub EXCEPT ![s] = c], track, Append(queue, t), s),
           UNCHANGED <<seen, owned>>, Proper(t), t.op # "delete", track.src \/ ~ Concerns(t, Track),
           \A u \in Subgroups \ {s} : ~ Concerns(t, u), SubgroupOK(c, Append(queue, t), seen[s], s)
    PROVE  IInv'
<1> DEFINE q == Append(queue, t)
<1>1. Tasks(queue) /\ TrackOK(track, queue)
  BY Zenon DEF IInv, Tasks
<1>2. Tasks(q) /\ TrackOK(track, q)
  BY <1>1, Pushed, TrackPush, Zenon
<1>3. ASSUME NEW u \in Subgroups \ {s}
      PROVE  SubgroupOK(sub[u], q, seen[u], u) /\ Owned(sub[u], q, u)
  BY <1>1, PushOther, Zenon DEF IInv
<1>4. Become([sub EXCEPT ![s] = c], track, q, s) /\ SubgroupOK(c, q, seen'[s], s) /\ seen' = seen
  BY Zenon
<1> HIDE DEF q
<1>5. seen' \in [Subgroups -> Seq({"ok", "error", "end"})]
  BY Zenon DEF IInv
<1> QED BY <1>2, <1>3, <1>4, <1>5, SubgroupStep, Zenon

\* It runs the task at the front, which no other subgroup holds.
LEMMA SubgroupRuns ==
    ASSUME IInv, NEW s \in Subgroups, NEW c, Become([sub EXCEPT ![s] = c], track, Tail(queue), s),
           queue # <<>>, \A u \in Subgroups \ {s} : u \notin Head(queue).holds /\ seen'[u] = seen[u],
           seen' \in [Subgroups -> Seq({"ok", "error", "end"})], owned' = owned,
           SubgroupOK(c, Tail(queue), seen'[s], s)
    PROVE  IInv'
<1> DEFINE q == Tail(queue)
<1>1. Tasks(queue) /\ TrackOK(track, queue)
  BY Zenon DEF IInv, Tasks
<1>2. Tasks(q) /\ TrackOK(track, q)
  BY <1>1, Popped, TrackPop, Zenon
<1>3. ASSUME NEW u \in Subgroups \ {s}
      PROVE  SubgroupOK(sub[u], q, seen[u], u) /\ Owned(sub[u], q, u)
  BY <1>1, PopAny, Zenon DEF IInv
<1>4. Become([sub EXCEPT ![s] = c], track, q, s) /\ SubgroupOK(c, q, seen'[s], s)
  BY Zenon
<1> HIDE DEF q
<1> QED BY <1>2, <1>3, <1>4, SubgroupStep, Zenon
-----------------------------------------------------------------------------
(***************************************************************************)
(* The steps of the source.                                                *)
(***************************************************************************)
\* A subgroup filter in use.
LEMMA InUse ==
    ASSUME IInv, NEW s \in Subgroups
    PROVE  /\ sub[s] \in SubgroupFilter /\ SubgroupOK(sub[s], queue, seen[s], s) /\ Tasks(queue)
           /\ sub[s].src => sub[s].made /\ ~ sub[s].freed /\ (sub[s].over \/ sub[s].err \/ sub[s].guard)
           /\ sub[s].down => sub[s].keep /\ sub[s].made
BY Zenon DEF IInv, Tasks, SubgroupOK, Lifetime, Guarded

\* setTrackAlias, objectStream and datagram.
LEMMA trackCallOK ==
    ASSUME IInv, NEW op \in {"alias", "datagram"}, trackCall(op)
    PROVE  IInv'
<1> DEFINE t == This(op, Track)
           T == [track EXCEPT !.calls = @ + 1]
<1>1. Proper(t) /\ t.op # "delete" /\ \A s \in Subgroups : ~ Concerns(t, s)
  BY CrossExecAssumption, Zenon DEF This, NewTask, Proper, Task, SubgroupOps, Filters, Concerns
<1>2. TrackOK(track, queue) /\ track \in TrackFilter
  BY Zenon DEF IInv, TrackOK
<1>3. T \in TrackFilter /\ T.src = track.src /\ T.freed = track.freed /\ T.src
  <2>1. track.calls \in 0 .. MaxCalls /\ track.calls < MaxCalls /\ track.src
    BY <1>2, Zenon DEF TrackFilter, trackCall, UsableTrack
  <2>2. track.calls + 1 \in 0 .. MaxCalls
    BY <2>1, CrossExecAssumption
  <2> QED BY <1>2, <2>1, <2>2, Zenon DEF TrackFilter
<1>4. Become(sub, T, Append(queue, t), Track) /\ UNCHANGED <<seen, owned>>
  BY Zenon DEF trackCall
<1> HIDE DEF t, T
<1>5. TrackOK(T, queue)
  BY <1>2, <1>3, TrackChanged, Zenon
<1> QED BY <1>1, <1>3, <1>4, <1>5, TrackPosts, Zenon

\* publishDone: its task holds the track filter.
LEMMA publishDoneOK ==
    ASSUME IInv, publishDone
    PROVE  IInv'
<1> DEFINE t == Self("done", Track)
           T == [track EXCEPT !.over = TRUE]
<1>1. Proper(t) /\ t.op # "delete" /\ \A s \in Subgroups : ~ Concerns(t, s)
  BY CrossExecAssumption, Zenon DEF Self, NewTask, Proper, Task, SubgroupOps, Filters, Concerns
<1>2. TrackOK(track, queue) /\ track \in TrackFilter
  BY Zenon DEF IInv, TrackOK
<1>3. T \in TrackFilter /\ T.src = track.src /\ T.freed = track.freed /\ T.src
  BY <1>2, Zenon DEF TrackFilter, publishDone, UsableTrack
<1>4. Become(sub, T, Append(queue, t), Track) /\ UNCHANGED <<seen, owned>>
  BY Zenon DEF publishDone
<1> HIDE DEF t, T
<1>5. TrackOK(T, queue)
  BY <1>2, <1>3, TrackChanged, Zenon
<1> QED BY <1>1, <1>3, <1>4, <1>5, TrackPosts, Zenon

\* The source lets go of the track filter.
LEMMA dropTrackOK ==
    ASSUME IInv, dropTrack
    PROVE  IInv'
<1> DEFINE T == [track EXCEPT !.src = FALSE]
<1>1. TrackOK(track, queue) /\ track \in TrackFilter
  BY Zenon DEF IInv, TrackOK
<1>2. T \in TrackFilter /\ ~ T.src /\ T.freed = track.freed
  BY <1>1, Zenon DEF TrackFilter
<1>3. Become(sub, T, queue, Track) /\ UNCHANGED <<seen, owned>> /\ Track \in Filters
  BY Zenon DEF dropTrack, Filters
<1> HIDE DEF T
<1>4. TrackOK(T, queue)
  BY <1>1, <1>2, TrackChanged, Zenon
<1>5. /\ sub \in [Subgroups -> SubgroupFilter] /\ seen' \in [Subgroups -> Seq({"ok", "error", "end"})]
      /\ owned' \in BOOLEAN /\ Tasks(queue)
      /\ \A s \in Subgroups : SubgroupOK(sub[s], queue, seen'[s], s) /\ Owned(sub[s], queue, s)
  BY <1>3, Zenon DEF IInv, Tasks
<1> QED BY <1>3, <1>4, <1>5, Becomes, Zenon

\* beginSubgroup: its task holds the new subgroup filter.
LEMMA beginSubgroupOK ==
    ASSUME IInv, NEW s \in Subgroups, beginSubgroup(s)
    PROVE  IInv'
<1> DEFINE t == [This("begin", Track) EXCEPT !.holds = {s}]
           c == [sub[s] EXCEPT !.made = TRUE, !.src = TRUE, !.guard = TRUE]
<1>1. /\ Proper(t) /\ t.op # "delete" /\ \A u \in Subgroups \ {s} : ~ Concerns(t, u)
      /\ s \in t.holds /\ s \notin t.this /\ ~ t.fin
  BY CrossExecAssumption, Zenon DEF This, NewTask, Proper, Task, SubgroupOps, Filters, Concerns
<1>2. /\ SubgroupOK(sub[s], queue, seen[s], s) /\ Tasks(queue) /\ sub[s] \in SubgroupFilter
      /\ ~ sub[s].made /\ track.src
  BY InUse, Zenon DEF beginSubgroup, UsableTrack
<1>3. c \in SubgroupFilter /\ c.made /\ c.guard /\ c.freed = sub[s].freed /\ c.down = sub[s].down
  BY <1>2, Zenon DEF SubgroupFilter
<1>4. Become([sub EXCEPT ![s] = c], track, Append(queue, t), s) /\ UNCHANGED <<seen, owned>>
  <2>1. [sub EXCEPT ![s].made = TRUE, ![s].src = TRUE, ![s].guard = TRUE] = [sub EXCEPT ![s] = c]
    BY Zenon DEF IInv
  <2> QED BY <2>1, Zenon DEF beginSubgroup
<1> HIDE DEF t, c
<1>5. SubgroupOK(c, Append(queue, t), seen[s], s)
  BY <1>1, <1>2, <1>3, Begun, Zenon
<1> QED BY <1>1, <1>2, <1>4, <1>5, SubgroupPosts, Zenon

\* enqueueDeactivate: the guard goes behind the tasks that need it.
LEMMA failedCallOK ==
    ASSUME IInv, NEW s \in Subgroups, failedCall(s)
    PROVE  IInv'
<1> DEFINE t == Self("guard", s)
           c == [sub[s] EXCEPT !.guard = FALSE, !.told = TRUE]
<1>1. /\ Proper(t) /\ t.op \notin {"begin", "delete"} /\ \A u \in Filters \ {s} : ~ Concerns(t, u)
      /\ s \in t.holds /\ s \notin t.this /\ ~ t.fin
  BY CrossExecAssumption, Zenon DEF Self, NewTask, Proper, Task, SubgroupOps, Filters, Concerns
<1>2. /\ SubgroupOK(sub[s], queue, seen[s], s) /\ Tasks(queue) /\ sub[s] \in SubgroupFilter
      /\ sub[s].made /\ ~ sub[s].freed /\ ~ sub[s].over /\ sub[s].err /\ (sub[s].down => sub[s].keep)
  BY InUse, Zenon DEF failedCall, Usable
<1>3. /\ c \in SubgroupFilter /\ c.made = sub[s].made /\ c.freed = sub[s].freed /\ c.src = sub[s].src
      /\ c.over = sub[s].over /\ c.err = sub[s].err /\ c.down = sub[s].down /\ c.keep = sub[s].keep /\ ~ c.guard
  BY <1>2, Zenon DEF SubgroupFilter
<1>4. [sub EXCEPT ![s].guard = FALSE, ![s].told = TRUE] = [sub EXCEPT ![s] = c]
  BY ZenonT(60) DEF IInv
<1>5. Track \in Filters \ {s} /\ \A u \in Subgroups \ {s} : u \in Filters \ {s}
  BY CrossExecAssumption, Zenon DEF Filters
<1>6. CASE sub[s].guard
  <2>1. Become([sub EXCEPT ![s] = c], track, Append(queue, t), s) /\ UNCHANGED <<seen, owned>>
    BY <1>4, <1>6, Zenon DEF failedCall, enqueueDeactivate
  <2> HIDE DEF t, c
  <2>2. Concerns(t, s)
    BY <1>1, Zenon DEF Concerns
  <2>3. SubgroupOK(c, Append(queue, t), seen[s], s)
    BY <1>1, <1>2, <1>3, <2>2, Called, Zenon
  <2> QED BY <1>1, <1>5, <2>1, <2>3, SubgroupPosts, Zenon
<1>7. CASE ~ sub[s].guard
  <2>1. Become([sub EXCEPT ![s] = c], track, queue, s) /\ UNCHANGED <<seen, owned>>
    BY <1>4, <1>7, Zenon DEF failedCall, enqueueDeactivate
  <2> HIDE DEF c
  <2>2. SubgroupOK(c, queue, seen[s], s)
    BY <1>2, <1>3, <1>7, Changed, Zenon
  <2> QED BY <1>2, <2>1, <2>2, SubgroupStep, Zenon DEF IInv
<1> QED BY <1>6, <1>7, Zenon

\* object, beginObject, objectPayload and checkpoint.
LEMMA subgroupCallOK ==
    ASSUME IInv, NEW s \in Subgroups, NEW op \in {"object", "checkpoint"}, subgroupCall(s, op)
    PROVE  IInv'
<1> DEFINE t == This(op, s)
           c == [sub[s] EXCEPT !.calls = @ + 1]
<1>1. /\ Proper(t) /\ t.op \notin {"begin", "delete"} /\ \A u \in Filters \ {s} : ~ Concerns(t, u)
      /\ Concerns(t, s) /\ ~ t.fin
  BY CrossExecAssumption, Zenon DEF This, NewTask, Proper, Task, SubgroupOps, Filters, Concerns
<1>2. /\ SubgroupOK(sub[s], queue, seen[s], s) /\ Tasks(queue) /\ sub[s] \in SubgroupFilter
      /\ sub[s].made /\ ~ sub[s].freed /\ ~ sub[s].over /\ sub[s].guard
  BY InUse, Zenon DEF subgroupCall, Usable
<1>3. /\ c \in SubgroupFilter /\ c.made = sub[s].made /\ c.freed = sub[s].freed /\ c.guard
      /\ c.down = sub[s].down /\ c.keep = sub[s].keep
  <2>1. sub[s].calls \in 0 .. MaxCalls /\ sub[s].calls < MaxCalls
    BY <1>2, Zenon DEF SubgroupFilter, subgroupCall
  <2>2. sub[s].calls + 1 \in 0 .. MaxCalls
    BY <2>1, CrossExecAssumption
  <2> QED BY <1>2, <2>2, Zenon DEF SubgroupFilter
<1>4. [sub EXCEPT ![s].calls = @ + 1] = [sub EXCEPT ![s] = c]
  BY Zenon DEF IInv
<1>5. Track \in Filters \ {s} /\ \A u \in Subgroups \ {s} : u \in Filters \ {s}
  BY CrossExecAssumption, Zenon DEF Filters
<1>6. Become([sub EXCEPT ![s] = c], track, Append(queue, t), s) /\ UNCHANGED <<seen, owned>>
  BY <1>4, Zenon DEF subgroupCall
<1> HIDE DEF t, c
<1>7. SubgroupOK(c, Append(queue, t), seen[s], s)
  BY <1>1, <1>2, <1>3, Called, Zenon
<1> QED BY <1>1, <1>5, <1>6, <1>7, SubgroupPosts, Zenon

\* The last call of a subgroup: its task drops the guard.
LEMMA endCallOK ==
    ASSUME IInv, NEW s \in Subgroups, NEW op \in {"object", "end"}, endCall(s, op)
    PROVE  IInv'
<1> DEFINE t == [This(op, s) EXCEPT !.fin = TRUE]
           c == [sub[s] EXCEPT !.over = TRUE]
<1>1. /\ Proper(t) /\ t.op \notin {"begin", "delete"} /\ \A u \in Filters \ {s} : ~ Concerns(t, u)
      /\ Concerns(t, s)
  BY CrossExecAssumption, Zenon DEF This, NewTask, Proper, Task, SubgroupOps, Filters, Concerns
<1>2. /\ SubgroupOK(sub[s], queue, seen[s], s) /\ Tasks(queue) /\ sub[s] \in SubgroupFilter
      /\ sub[s].made /\ ~ sub[s].freed /\ ~ sub[s].over /\ sub[s].guard
  BY InUse, Zenon DEF endCall, Usable
<1>3. /\ c \in SubgroupFilter /\ c.made = sub[s].made /\ c.freed = sub[s].freed /\ c.guard /\ c.over
      /\ c.down = sub[s].down /\ c.keep = sub[s].keep
  BY <1>2, Zenon DEF SubgroupFilter
<1>4. [sub EXCEPT ![s].over = TRUE] = [sub EXCEPT ![s] = c]
  BY Zenon DEF IInv
<1>5. Track \in Filters \ {s} /\ \A u \in Subgroups \ {s} : u \in Filters \ {s}
  BY CrossExecAssumption, Zenon DEF Filters
<1>6. Become([sub EXCEPT ![s] = c], track, Append(queue, t), s) /\ UNCHANGED <<seen, owned>>
  BY <1>4, Zenon DEF endCall
<1> HIDE DEF t, c
<1>7. SubgroupOK(c, Append(queue, t), seen[s], s)
  BY <1>1, <1>2, <1>3, Called, Zenon
<1> QED BY <1>1, <1>5, <1>6, <1>7, SubgroupPosts, Zenon

\* reset: its task holds the filter, which may have lost its guard.
LEMMA resetOK ==
    ASSUME IInv, NEW s \in Subgroups, reset(s)
    PROVE  IInv'
<1> DEFINE t == [Self("reset", s) EXCEPT !.fin = TRUE]
           c == [sub[s] EXCEPT !.over = TRUE, !.err = TRUE]
<1>1. /\ Proper(t) /\ t.op \notin {"begin", "delete"} /\ \A u \in Filters \ {s} : ~ Concerns(t, u)
      /\ Concerns(t, s) /\ s \in t.holds /\ s \notin t.this
  BY CrossExecAssumption, Zenon DEF Self, NewTask, Proper, Task, SubgroupOps, Filters, Concerns
<1>2. /\ SubgroupOK(sub[s], queue, seen[s], s) /\ Tasks(queue) /\ sub[s] \in SubgroupFilter
      /\ sub[s].made /\ ~ sub[s].freed /\ ~ sub[s].over
  BY InUse, Zenon DEF reset, Usable
<1>3. /\ c \in SubgroupFilter /\ c.made = sub[s].made /\ c.freed = sub[s].freed /\ c.over
      /\ c.down = sub[s].down /\ c.keep = sub[s].keep
  BY <1>2, Zenon DEF SubgroupFilter
<1>4. [sub EXCEPT ![s].over = TRUE, ![s].err = TRUE] = [sub EXCEPT ![s] = c]
  BY Zenon DEF IInv
<1>5. Track \in Filters \ {s} /\ \A u \in Subgroups \ {s} : u \in Filters \ {s}
  BY CrossExecAssumption, Zenon DEF Filters
<1>6. Become([sub EXCEPT ![s] = c], track, Append(queue, t), s) /\ UNCHANGED <<seen, owned>>
  BY <1>4, Zenon DEF reset
<1> HIDE DEF t, c
<1>7. SubgroupOK(c, Append(queue, t), seen[s], s)
  BY <1>1, <1>2, <1>3, Called, Zenon
<1> QED BY <1>1, <1>5, <1>6, <1>7, SubgroupPosts, Zenon

\* The source lets go of a subgroup filter.
LEMMA dropSubgroupOK ==
    ASSUME IInv, NEW s \in Subgroups, dropSubgroup(s)
    PROVE  IInv'
<1> DEFINE c == [sub[s] EXCEPT !.src = FALSE]
<1>1. /\ SubgroupOK(sub[s], queue, seen[s], s) /\ Tasks(queue) /\ sub[s] \in SubgroupFilter
      /\ (sub[s].down => sub[s].keep)
  BY InUse, Zenon
<1>2. /\ c \in SubgroupFilter /\ c.made = sub[s].made /\ c.freed = sub[s].freed /\ ~ c.src
      /\ c.over = sub[s].over /\ c.down = sub[s].down /\ c.keep = sub[s].keep /\ c.guard = sub[s].guard
  BY <1>1, ZenonT(60) DEF SubgroupFilter
<1>3. [sub EXCEPT ![s].src = FALSE] = [sub EXCEPT ![s] = c]
  BY Zenon DEF IInv
<1>4. Become([sub EXCEPT ![s] = c], track, queue, s) /\ UNCHANGED <<seen, owned>>
  BY <1>3, Zenon DEF dropSubgroup
<1> HIDE DEF c
<1>5. SubgroupOK(c, queue, seen[s], s)
  BY <1>1, <1>2, Changed, Zenon
<1> QED BY <1>1, <1>4, <1>5, SubgroupStep, ZenonT(60) DEF IInv
-----------------------------------------------------------------------------
(***************************************************************************)
(* The steps of the target executor.                                       *)
(***************************************************************************)
\* The task at the front.
LEMMA Front ==
    ASSUME IInv, queue # <<>>
    PROVE  /\ Proper(Head(queue)) /\ TrackOK(track, Tail(queue)) /\ Tasks(Tail(queue))
           /\ \A s \in Subgroups : SubgroupOK(sub[s], Tail(queue), seen[s], s)
           /\ \A s \in Subgroups : Concerns(Head(queue), s) => sub[s].made
<1>1. Tasks(queue) /\ TrackOK(track, queue) /\ \A s \in Subgroups : SubgroupOK(sub[s], queue, seen[s], s)
  BY Zenon DEF IInv, Tasks
<1>2. 1 \in DOMAIN queue /\ Head(queue) = queue[1]
  BY <1>1, Popped, SMTT(30)
<1>3. \A s \in Subgroups : Concerns(Head(queue), s) => sub[s].made
  BY <1>1, <1>2, Zenon DEF SubgroupOK, Lifetime
<1> QED BY <1>1, <1>3, Popped, PopAny, TrackPop, Zenon

\* The tasks of setTrackAlias, objectStream, datagram and publishDone.
LEMMA runTrackOK ==
    ASSUME IInv, queue # <<>>, NEW ok \in BOOLEAN, runTrack(Head(queue), ok)
    PROVE  IInv'
<1> DEFINE T == [track EXCEPT !.err = @ \/ (Head(queue).op = "alias" /\ ~ (ok /\ track.down))]
<1>1. /\ Become(sub, T, Tail(queue), Track) /\ UNCHANGED <<seen, owned>>
      /\ Head(queue).op \in {"alias", "datagram", "done"}
  BY Zenon DEF runTrack
<1>2. track \in TrackFilter
  BY Zenon DEF IInv, TrackOK
<1>3. T \in TrackFilter /\ T.src = track.src /\ T.freed = track.freed
  BY <1>2, ZenonT(60) DEF TrackFilter
<1> HIDE DEF T
<1>4. TrackOK(T, Tail(queue))
  BY <1>3, Front, TrackChanged, Zenon
<1>5. \A s \in Subgroups : s \notin Head(queue).holds
  BY <1>1, Front, CrossExecAssumption, Zenon DEF Proper
<1> QED BY <1>1, <1>4, <1>5, TrackRuns, Zenon

\* The task that deletes the track filter.
LEMMA runDeleteOK ==
    ASSUME IInv, queue # <<>>, runDelete(Head(queue))
    PROVE  IInv'
<1> DEFINE T == [track EXCEPT !.freed = TRUE, !.down = FALSE]
<1>1. Become(sub, T, Tail(queue), Track) /\ UNCHANGED <<seen, owned>> /\ Head(queue).op = "delete"
  BY Zenon DEF runDelete
<1>2. track \in TrackFilter /\ TrackOK(track, queue) /\ Tasks(queue)
  BY Zenon DEF IInv, TrackOK, Tasks
<1>3. T \in TrackFilter /\ T.src = track.src /\ T.freed
  BY <1>2, Zenon DEF TrackFilter
<1> HIDE DEF T
<1>4. ~ track.src /\ \A i \in DOMAIN Tail(queue) : ~ Concerns(Tail(queue)[i], Track) /\ Tail(queue)[i].op # "delete"
  BY <1>1, <1>2, TrackPop, ZenonT(60)
<1>5. TrackOK(T, Tail(queue))
  BY <1>3, <1>4, Zenon DEF TrackOK
<1>6. \A s \in Subgroups : s \notin Head(queue).holds
  BY <1>1, Front, Zenon DEF Proper
<1> QED BY <1>1, <1>5, <1>6, TrackRuns, Zenon

\* The task that the destructor of a subgroup filter posted.
LEMMA runReleaseOK ==
    ASSUME IInv, queue # <<>>, runRelease(Head(queue))
    PROVE  IInv'
<1>1. Become(sub, track, Tail(queue), Track) /\ UNCHANGED <<seen, owned>> /\ Head(queue).op = "release"
  BY Zenon DEF runRelease
<1>2. \A s \in Subgroups : s \notin Head(queue).holds
  BY <1>1, Front, Zenon DEF Proper
<1> QED BY <1>1, <1>2, Front, TrackRuns, Zenon

\* The task that enqueueDeactivate posted: the filter may go with it.
LEMMA runGuardOK ==
    ASSUME IInv, queue # <<>>, runGuard(Head(queue))
    PROVE  IInv'
<1>1. Head(queue).op = "guard" /\ UNCHANGED <<seen, owned>>
  BY Zenon DEF runGuard
<1>2. PICK s \in Subgroups : Head(queue).holds = {s}
  BY <1>1, Front, Zenon DEF Proper
<1>3. Become(sub, track, Tail(queue), s)
  BY <1>2, Zenon DEF runGuard
<1>4. sub = [sub EXCEPT ![s] = sub[s]]
  BY Zenon DEF IInv
<1>5. \A u \in Subgroups \ {s} : u \notin Head(queue).holds
  BY <1>2, Zenon
<1>6. SubgroupOK(sub[s], Tail(queue), seen'[s], s)
  BY <1>1, Front, Zenon
<1>7. seen' \in [Subgroups -> Seq({"ok", "error", "end"})] /\ seen' = seen /\ owned' = owned
  BY <1>1, Zenon DEF IInv
<1>8. Become([sub EXCEPT ![s] = sub[s]], track, Tail(queue), s)
  BY <1>3, <1>4, Zenon
<1> QED BY <1>5, <1>6, <1>7, <1>8, SubgroupRuns, Zenon

\* The task of beginSubgroup: it opens the downstream, or records the error.
LEMMA runBeginOK ==
    ASSUME IInv, queue # <<>>, NEW ok \in BOOLEAN, runBegin(Head(queue), ok)
    PROVE  IInv'
<1>1. Head(queue).op = "begin" /\ UNCHANGED <<seen, owned>>
  BY Zenon DEF runBegin
<1>2. PICK s \in Subgroups : Head(queue).holds = {s}
  BY <1>1, Front, Zenon DEF Proper
<1> DEFINE b == sub[s]
           c == IF ok THEN Opened(b) ELSE [b EXCEPT !.err = TRUE]
           q == Tail(queue)
<1>3. Become([sub EXCEPT ![s] = c], track, q, s)
  <2>1. [sub EXCEPT ![s] = IF ok THEN Opened(@) ELSE [@ EXCEPT !.err = TRUE]] = [sub EXCEPT ![s] = c]
    BY Zenon DEF IInv
  <2> QED BY <1>2, <2>1, ZenonT(60) DEF runBegin
<1>4. SubgroupOK(b, q, seen[s], s) /\ b \in SubgroupFilter /\ (b.down => b.keep) /\ Concerns(Head(queue), s)
  BY <1>2, InUse, Front, Zenon DEF Concerns
<1>5. b.made /\ ~ b.freed /\ seen[s] = <<>>
  <2>1. Tasks(queue) /\ SubgroupOK(b, queue, seen[s], s)
    BY InUse, Zenon
  <2>2. 1 \in DOMAIN queue /\ Head(queue) = queue[1]
    BY <2>1, Popped
  <2>3. Held(queue, s)
    BY <1>2, <2>2, Zenon DEF Held
  <2> QED BY <1>1, <1>2, <1>4, <2>1, <2>2, <2>3, Front, Zenon DEF SubgroupOK, Lifetime, FirstIsFirst
<1>6. \A i \in DOMAIN q : q[i].op = "begin" => s \notin q[i].holds
  BY <1>4, InUse, PopAny, Zenon
<1>7. SubgroupOK(c, q, seen[s], s)
  <2>1. CASE ok
    <3>1. /\ c \in SubgroupFilter /\ c.made = b.made /\ c.freed = b.freed /\ c.src = b.src /\ c.guard = b.guard
          /\ c.over = b.over /\ c.err = b.err /\ c.keep
      BY <1>4, <2>1, Zenon DEF SubgroupFilter, Opened
    <3> HIDE DEF b, c, q
    <3> QED BY <1>4, <1>5, <1>6, <3>1, OpenedOK, Zenon
  <2>2. CASE ~ ok
    <3>1. /\ c \in SubgroupFilter /\ c.made = b.made /\ c.freed = b.freed /\ c.src = b.src /\ c.guard = b.guard
          /\ c.over = b.over /\ c.err /\ c.keep = b.keep /\ c.down = b.down
      BY <1>4, <2>2, ZenonT(60) DEF SubgroupFilter
    <3> HIDE DEF b, c, q
    <3> QED BY <1>4, <3>1, Changed, Zenon
  <2> QED BY <2>1, <2>2, Zenon
<1>8. /\ seen' \in [Subgroups -> Seq({"ok", "error", "end"})] /\ seen' = seen /\ owned' = owned
      /\ \A u \in Subgroups \ {s} : u \notin Head(queue).holds
  BY <1>1, <1>2, Zenon DEF IInv
<1> HIDE DEF c
<1> QED BY <1>3, <1>7, <1>8, SubgroupRuns, Zenon

\* A task of a subgroup: the downstream may fail, and the last one drops the guard.
LEMMA runSubgroupOK ==
    ASSUME IInv, queue # <<>>, NEW ok \in BOOLEAN, runSubgroup(Head(queue), ok)
    PROVE  IInv'
<1> DEFINE t == Head(queue)
           q == Tail(queue)
<1>1. t.op \in SubgroupOps /\ owned' = owned
  BY Zenon DEF runSubgroup, SubgroupOps
<1>2. PICK s \in Subgroups : t.this \cup t.holds = {s}
  BY <1>1, Front, Zenon DEF Proper
<1> DEFINE b == sub[s]
           z == seen[s]
           fails == b.down /\ ~ ok
           x == IF fails THEN "error" ELSE IF t.fin THEN "end" ELSE "ok"
           closed == IF fails /\ t.op = "object" THEN closeWithError(b) ELSE b
           c == IF t.fin THEN [closed EXCEPT !.guard = FALSE] ELSE closed
<1>3. /\ ok \/ (b.down /\ t.op \in {"object", "end"})
      /\ Become([sub EXCEPT ![s] = c], track, q, s)
      /\ seen' = IF ~ b.down THEN seen ELSE [seen EXCEPT ![s] = Append(@, x)]
  BY <1>2, ZenonT(60) DEF runSubgroup
<1>4. /\ Concerns(t, s) /\ Tasks(queue) /\ SubgroupOK(b, queue, z, s) /\ b \in SubgroupFilter
      /\ SubgroupOK(b, q, z, s) /\ b.made /\ (b.down => b.keep) /\ Tasks(q)
      /\ t.op \in {"end", "reset"} => t.fin
  BY <1>2, InUse, Front, Zenon DEF Concerns, Proper
<1>5. /\ t.fin => b.over /\ \A i \in DOMAIN q : q[i].op \in SubgroupOps => ~ Concerns(q[i], s)
      /\ \A i \in DOMAIN q : q[i].op = "begin" => s \notin q[i].holds
  BY <1>4, PopAny, Zenon
<1>6. t.fin => \A i \in DOMAIN q : s \notin q[i].this
  <2>1. \A i \in DOMAIN q : s \in q[i].this => q[i].op \in SubgroupOps /\ Concerns(q[i], s)
    BY <1>4, CrossExecAssumption DEF Tasks, Proper, Task, SubgroupOps, Concerns
  <2> QED BY <1>5, <2>1, Zenon
<1>7. /\ c \in SubgroupFilter /\ c.made = b.made /\ c.freed = b.freed /\ c.src = b.src
      /\ c.over = b.over /\ c.keep = b.keep /\ (c.down => b.down) /\ (fails /\ t.op = "object" => ~ c.down)
      /\ (c.guard => b.guard) /\ (~ t.fin => c.guard = b.guard) /\ (~ c.err => ~ b.err)
  <2>1. /\ closed \in SubgroupFilter /\ closed.made = b.made /\ closed.freed = b.freed /\ closed.src = b.src
        /\ closed.over = b.over /\ closed.keep = b.keep /\ closed.guard = b.guard
        /\ (closed.down => b.down) /\ (fails /\ t.op = "object" => ~ closed.down) /\ (~ closed.err => ~ b.err)
    <3>1. CASE fails /\ t.op = "object"
      <4>1. closed = [b EXCEPT !.err = TRUE, !.down = FALSE]
        BY <3>1, Zenon DEF closeWithError
      <4> HIDE DEF b, closed, fails, t
      <4> QED BY <1>4, <4>1, Zenon DEF SubgroupFilter
    <3>2. CASE ~ (fails /\ t.op = "object")
      <4>1. closed = b
        BY <3>2, Zenon
      <4> HIDE DEF b, closed, fails, t
      <4> QED BY <1>4, <3>2, <4>1, Zenon
    <3> QED BY <3>1, <3>2, Zenon
  <2> HIDE DEF b, closed, fails, t
  <2>2. CASE t.fin
    BY <2>1, <2>2, Zenon DEF SubgroupFilter
  <2>3. CASE ~ t.fin
    BY <2>1, <2>3, Zenon
  <2> QED BY <2>2, <2>3, Zenon
<1>8. SubgroupOK(c, q, z, s)
  <2>1. b.src /\ ~ b.over /\ ~ b.err => b.guard
    BY <1>4, Zenon DEF SubgroupOK, Guarded
  <2> HIDE DEF b, c, t, q, z, fails
  <2> QED BY <1>4, <1>5, <1>6, <1>7, <2>1, Changed, ZenonT(60)
<1>9. b.down => ~ Ended(z)
  <2>1. 1 \in DOMAIN queue /\ t = queue[1]
    BY <1>4, Popped, SMTT(30)
  <2> QED BY <1>1, <1>4, <2>1, ZenonT(60) DEF SubgroupOK, Silent
<1>10. b.down => SubgroupOK(c, q, Append(z, x), s)
  <2>1. x \in {"ok", "error", "end"} /\ (x # "ok" => t.fin \/ ~ c.down)
    <3>1. fails => t.fin \/ ~ c.down
      BY <1>3, <1>4, <1>7, Zenon
    <3> HIDE DEF fails, c, t
    <3> QED BY <3>1, Zenon
  <2> HIDE DEF b, c, t, q, z, x
  <2> QED BY <1>4, <1>5, <1>7, <1>8, <1>9, <2>1, AnsweredOK, Zenon
<1>11. /\ seen' \in [Subgroups -> Seq({"ok", "error", "end"})]
       /\ seen'[s] = IF ~ b.down THEN z ELSE Append(z, x)
       /\ \A u \in Subgroups \ {s} : seen'[u] = seen[u] /\ u \notin Head(queue).holds
  <2>1. seen \in [Subgroups -> Seq({"ok", "error", "end"})] /\ x \in {"ok", "error", "end"}
    BY Zenon DEF IInv
  <2>2. \A u \in Subgroups \ {s} : u \notin Head(queue).holds
    BY <1>2, Zenon
  <2> HIDE DEF b, x
  <2>3. Append(z, x) \in Seq({"ok", "error", "end"})
    BY <2>1
  <2> QED BY <1>3, <2>1, <2>2, <2>3, Zenon
<1>12. SubgroupOK(c, q, seen'[s], s)
  <2> HIDE DEF b, c, q, x
  <2> QED BY <1>8, <1>10, <1>11, Zenon
<1> HIDE DEF c
<1> QED BY <1>1, <1>3, <1>11, <1>12, SubgroupRuns, Zenon
-----------------------------------------------------------------------------
(***************************************************************************)
(* The theorems.                                                           *)
(***************************************************************************)
\* The invariant holds when the source has its filter and has made no call.
LEMMA InitOK == Init => IInv
<1> SUFFICES ASSUME Init PROVE IInv
  BY Zenon
<1>1. queue = <<>> /\ DOMAIN queue = {} /\ queue \in Seq(Task) /\ owned \in BOOLEAN
  BY DEF Init
<1>2. track \in TrackFilter /\ track.src /\ ~ track.freed
  <2>1. 0 \in 0 .. MaxCalls
    BY CrossExecAssumption
  <2> QED BY <2>1, Zenon DEF Init, TrackFilter
<1>3. NewSubgroupFilter \in SubgroupFilter /\ ~ NewSubgroupFilter.made /\ ~ NewSubgroupFilter.src
      /\ ~ NewSubgroupFilter.guard /\ ~ NewSubgroupFilter.freed /\ ~ NewSubgroupFilter.down
  BY CrossExecAssumption DEF NewSubgroupFilter, SubgroupFilter
<1>4. \A s \in Subgroups : sub[s] = NewSubgroupFilter /\ seen[s] = <<>>
  BY Zenon DEF Init
<1>5. sub \in [Subgroups -> SubgroupFilter] /\ seen \in [Subgroups -> Seq({"ok", "error", "end"})]
  BY <1>3 DEF Init
<1>6. TrackOK(track, queue)
  BY <1>1, <1>2, Zenon DEF TrackOK
<1>7. ASSUME NEW s \in Subgroups
      PROVE  SubgroupOK(sub[s], queue, seen[s], s) /\ Owned(sub[s], queue, s)
  <2> DEFINE b == NewSubgroupFilter
             z == seen[s]
  <2>1. z = <<>> /\ DOMAIN z = {} /\ z \in Seq({"ok", "error", "end"})
    <3>1. z = <<>>
      BY <1>4, Zenon
    <3>2. DOMAIN z = {}
      BY <1>1, <3>1, Zenon
    <3> QED BY <1>5, <3>1, <3>2, Zenon
  <2> HIDE DEF b, z
  <2>2. Lifetime(b, queue, z, s) /\ Guarded(b, queue, s) /\ LastIsLast(b, queue, s) /\ Owned(b, queue, s)
    BY <1>1, <1>3, <2>1, Zenon DEF Lifetime, Guarded, LastIsLast, Owned, b
  <2>3. FirstIsFirst(b, queue, z, s) /\ Silent(b, queue, z, s)
    BY <1>1, <1>3, <2>1, Zenon DEF FirstIsFirst, Silent, Ended, b
  <2> QED BY <1>3, <1>4, <2>1, <2>2, <2>3, Zenon DEF SubgroupOK, b, z
<1> QED BY <1>1, <1>5, <1>6, <1>7, Zenon DEF IInv

\* Every step of the source and of the target keeps it.
LEMMA NextOK == IInv /\ [Next]_vars => IInv'
<1> SUFFICES ASSUME IInv, [Next]_vars PROVE IInv'
  BY Zenon
<1>1. CASE UNCHANGED vars
  BY <1>1, Zenon DEF IInv, vars
<1>2. CASE dropForwarder
  BY <1>2, Zenon DEF IInv, dropForwarder
<1>3. CASE runTask
  BY <1>3, runTrackOK, runBeginOK, runSubgroupOK, runDeleteOK, runGuardOK, runReleaseOK, Zenon DEF runTask
<1>4. CASE \/ \E op \in {"alias", "datagram"} : trackCall(op)
           \/ publishDone \/ dropTrack
  BY <1>4, trackCallOK, publishDoneOK, dropTrackOK, Zenon
<1>5. CASE \E s \in Subgroups : \/ beginSubgroup(s) \/ failedCall(s) \/ reset(s) \/ dropSubgroup(s)
                                \/ \E op \in {"object", "checkpoint"} : subgroupCall(s, op)
                                \/ \E op \in {"object", "end"} : endCall(s, op)
  BY <1>5, beginSubgroupOK, failedCallOK, resetOK, dropSubgroupOK, subgroupCallOK, endCallOK, Zenon
<1> QED BY <1>1, <1>2, <1>3, <1>4, <1>5, Zenon DEF Next

\* The filters, the queue and the answers fit together in every reachable state.
THEOREM Invariance == Spec => []IInv
<1> QED BY InitOK, NextOK, PTL DEF Spec

\* A task of the target executor that points to a filter of either kind never
\* finds it deleted: enqueueDeactivate, deactivate and the deleter of the track
\* filter release a filter only behind the tasks that point to it.
THEOREM TasksNeverDangle == Spec => []NoDanglingTask
<1>1. IInv => NoDanglingTask
  <2> SUFFICES ASSUME IInv, NEW i \in DOMAIN queue, NEW f \in queue[i].this
               PROVE  ~ Freed(f)
    BY Zenon DEF NoDanglingTask
  <2>1. Proper(queue[i])
    BY Zenon DEF IInv
  <2>2. f \in Filters
    BY <2>1, Zenon DEF Proper, Task
  <2>3. CASE f = Track
    BY <2>3, Zenon DEF IInv, TrackOK, Concerns, Freed
  <2>4. CASE f \in Subgroups
    <3>1. SubgroupOK(sub[f], queue, seen[f], f)
      BY <2>4, Zenon DEF IInv
    <3>2. ~ sub[f].freed
      BY <3>1, Zenon DEF SubgroupOK, Lifetime, Guarded, Held
    <3> QED BY <2>4, <3>2, CrossExecAssumption, Zenon DEF Freed
  <2> QED BY <2>2, <2>3, <2>4, Zenon DEF Filters
<1> QED BY <1>1, Invariance, PTL

\* While a subgroup has a consumer, someone holds the forwarder it points into:
\* downstream_ is only set together with keepAlive_, and goes no later.
THEOREM ForwarderIsKept == Spec => []ForwarderOutlives
<1>1. IInv => ForwarderOutlives
  BY InUse, Zenon DEF ForwarderOutlives
<1> QED BY <1>1, Invariance, PTL

\* A consumer that has answered with an error, or was ended, is not called again,
\* although calls that the source made before it learnt of it are in the queue.
THEOREM SilentAfterTheEnd == Spec => []NothingAfterTheEnd
<1>1. IInv => NothingAfterTheEnd
  BY Zenon DEF IInv, SubgroupOK, Silent, NothingAfterTheEnd
<1> QED BY <1>1, Invariance, PTL

\* No subgroup filter is leaked: one that has been made and not freed has an
\* owner, the source, its own guard or a task that is still to run.
THEOREM NothingLeaks == Spec => [](\A s \in Subgroups : ~ Unreferenced(sub, queue, s))
<1>1. IInv => \A s \in Subgroups : ~ Unreferenced(sub, queue, s)
  BY Zenon DEF IInv, Owned, Unreferenced
<1> QED BY <1>1, Invariance, PTL
-----------------------------------------------------------------------------
(***************************************************************************)
(* The answer to a FETCH.  What waits for the target is part of what the   *)
(* source counts as under way, since readiness, once heard, says that all  *)
(* that was queued when it was asked for has run: the source is blocked in *)
(* between, and no data is posted behind the task that asks.               *)
(***************************************************************************)
FetchTask == [op : {"data", "end", "reset", "wait", "guard", "release"}, bytes : Nat, self : BOOLEAN]

FetchFilter ==
    [freed : BOOLEAN, guard : BOOLEAN, err : BOOLEAN, down : BOOLEAN, queued : Nat, drained : Nat]
FetchSource == [holds : BOOLEAN, over : BOOLEAN, told : BOOLEAN, blocked : BOOLEAN]
Wait == [at : {"none", "posted", "asked", "set"}, mark : Nat]
FetchTyped(F, C, q, w) == q \in Seq(FetchTask) /\ F \in FetchFilter /\ C \in FetchSource /\ w \in Wait

Carries(q, op) == \E i \in DOMAIN q : q[i].op = op

\* Only one wait at a time, and no data behind it.
NothingBehindWait(q) == \A i, j \in DOMAIN q : i < j /\ q[i].op = "wait" => q[j].op \notin {"wait", "data"}

\* The wait, where it has got to: with source C and filter F.
WaitOK(F, C, q, w) ==
    /\ NothingBehindWait(q)
    /\ w.at # "none" => C.blocked /\ w.mark = F.queued
    /\ w.at \in {"asked", "set"} => ~ Carries(q, "data")
    /\ w.at # "posted" => ~ Carries(q, "wait")

\* No more waits than is counted as under way, which is less than the window
\* when the source may send.
CountOK(F, C, q) ==
    /\ IsFiniteSet(Fetch!BytesIn(q)) /\ Cardinality(Fetch!BytesIn(q)) + F.drained <= F.queued
    /\ \E b \in Sizes : F.queued < F.drained + Window + b
    /\ ~ C.blocked /\ ~ F.err /\ C.holds => F.queued < F.drained + Window
    /\ F.freed => ~ C.holds

FetchOK(F, C, q, w) == FetchTyped(F, C, q, w) /\ WaitOK(F, C, q, w) /\ CountOK(F, C, q)

FetchInv == FetchOK(filter, source, fetchQueue, wait)

\* The records, field by field.
LEMMA FilterFields ==
    ASSUME NEW F \in FetchFilter, NEW n \in Nat
    PROVE  /\ LET G == [F EXCEPT !.queued = @ + n]
              IN G \in FetchFilter /\ G.queued = F.queued + n /\ G.drained = F.drained
                 /\ G.err = F.err /\ G.freed = F.freed
           /\ LET G == [F EXCEPT !.drained = n]
              IN G \in FetchFilter /\ G.queued = F.queued /\ G.drained = n
                 /\ G.err = F.err /\ G.freed = F.freed
           /\ LET G == [F EXCEPT !.guard = FALSE]
              IN G \in FetchFilter /\ G.queued = F.queued /\ G.drained = F.drained
                 /\ G.err = F.err /\ G.freed = F.freed
           /\ LET G == [F EXCEPT !.err = TRUE]
              IN G \in FetchFilter /\ G.queued = F.queued /\ G.drained = F.drained
                 /\ G.err = TRUE /\ G.freed = F.freed
           /\ LET G == Fetch!closeWithError(F)
              IN G \in FetchFilter /\ G.queued = F.queued /\ G.drained = F.drained
                 /\ G.err = TRUE /\ G.freed = F.freed
           /\ LET G == [F EXCEPT !.freed = TRUE, !.down = FALSE]
              IN G \in FetchFilter /\ G.queued = F.queued /\ G.drained = F.drained
                 /\ G.err = F.err /\ G.freed = TRUE
<1> DEFINE B == BOOLEAN
           yes == TRUE
           no == FALSE
           R == [freed : B, guard : B, err : B, down : B, queued : Nat, drained : Nat]
<1>1. FetchFilter = R /\ yes \in B /\ no \in B
  BY Zenon DEF FetchFilter
<1>2. F \in R
  BY <1>1, Zenon
<1> HIDE DEF B, yes, no
<1>3. F.queued + n \in Nat
  BY <1>2
<1>4. LET G == [F EXCEPT !.queued = F.queued + n]
      IN G \in R /\ G.queued = F.queued + n /\ G.drained = F.drained /\ G.err = F.err /\ G.freed = F.freed
  BY <1>2, <1>3
<1>5. LET G == [F EXCEPT !.drained = n]
      IN G \in R /\ G.queued = F.queued /\ G.drained = n /\ G.err = F.err /\ G.freed = F.freed
  BY <1>2
<1>6. LET G == [F EXCEPT !.guard = no]
      IN G \in R /\ G.queued = F.queued /\ G.drained = F.drained /\ G.err = F.err /\ G.freed = F.freed
  BY <1>1, <1>2
<1>7. LET G == [F EXCEPT !.err = yes]
      IN G \in R /\ G.queued = F.queued /\ G.drained = F.drained /\ G.err = yes /\ G.freed = F.freed
  BY <1>1, <1>2
<1>8. LET G == [F EXCEPT !.err = yes, !.down = no]
      IN G \in R /\ G.queued = F.queued /\ G.drained = F.drained /\ G.err = yes /\ G.freed = F.freed
  <2> DEFINE E == [F EXCEPT !.err = yes]
  <2>1. E \in R /\ E.queued = F.queued /\ E.drained = F.drained /\ E.err = yes /\ E.freed = F.freed
    BY <1>7, Zenon
  <2> HIDE DEF E
  <2>2. LET G == [E EXCEPT !.down = no]
        IN G \in R /\ G.queued = E.queued /\ G.drained = E.drained /\ G.err = E.err /\ G.freed = E.freed
    BY <1>1, <2>1
  <2> QED BY <2>1, <2>2, Zenon DEF E
<1>9. LET G == [F EXCEPT !.freed = yes, !.down = no]
      IN G \in R /\ G.queued = F.queued /\ G.drained = F.drained /\ G.err = F.err /\ G.freed = yes
  <2> DEFINE E == [F EXCEPT !.freed = yes]
  <2>1. E \in R /\ E.queued = F.queued /\ E.drained = F.drained /\ E.err = F.err /\ E.freed = yes
    BY <1>1, <1>2
  <2> HIDE DEF E
  <2>2. LET G == [E EXCEPT !.down = no]
        IN G \in R /\ G.queued = E.queued /\ G.drained = E.drained /\ G.err = E.err /\ G.freed = E.freed
    BY <1>1, <2>1
  <2> QED BY <2>1, <2>2, Zenon DEF E
<1> HIDE DEF R
<1> QED BY <1>1, <1>4, <1>5, <1>6, <1>7, <1>8, <1>9, Zenon DEF Fetch!closeWithError, yes, no

LEMMA SourceFields ==
    ASSUME NEW C \in FetchSource, NEW x \in BOOLEAN
    PROVE  /\ LET D == [C EXCEPT !.blocked = x]
              IN D \in FetchSource /\ D.blocked = x /\ D.holds = C.holds
           /\ LET D == [C EXCEPT !.over = TRUE]
              IN D \in FetchSource /\ D.blocked = C.blocked /\ D.holds = C.holds
           /\ LET D == [C EXCEPT !.told = TRUE]
              IN D \in FetchSource /\ D.blocked = C.blocked /\ D.holds = C.holds
           /\ LET D == [C EXCEPT !.holds = FALSE]
              IN D \in FetchSource /\ D.blocked = C.blocked /\ D.holds = FALSE
<1> DEFINE B == BOOLEAN
           yes == TRUE
           no == FALSE
           R == [holds : B, over : B, told : B, blocked : B]
<1>1. FetchSource = R /\ yes \in B /\ no \in B /\ x \in B
  BY Zenon DEF FetchSource
<1>2. C \in R
  BY <1>1, Zenon
<1> HIDE DEF B, yes, no
<1>3. LET D == [C EXCEPT !.blocked = x]
      IN D \in R /\ D.blocked = x /\ D.holds = C.holds
  BY <1>1, <1>2
<1>4. LET D == [C EXCEPT !.over = yes]
      IN D \in R /\ D.blocked = C.blocked /\ D.holds = C.holds
  BY <1>1, <1>2
<1>5. LET D == [C EXCEPT !.told = yes]
      IN D \in R /\ D.blocked = C.blocked /\ D.holds = C.holds
  BY <1>1, <1>2
<1>6. LET D == [C EXCEPT !.holds = no]
      IN D \in R /\ D.blocked = C.blocked /\ D.holds = no
  BY <1>1, <1>2
<1> HIDE DEF R
<1> QED BY <1>1, <1>3, <1>4, <1>5, <1>6, Zenon DEF yes, no

LEMMA WaitFields ==
    ASSUME NEW w \in Wait, NEW x \in {"none", "posted", "asked", "set"}
    PROVE  LET v == [w EXCEPT !.at = x] IN v \in Wait /\ v.at = x /\ v.mark = w.mark
  BY DEF Wait

LEMMA TaskFields ==
    /\ \A op \in {"data", "end", "release"}, n \in Nat :
           Fetch!NewTask(op, n) \in FetchTask /\ Fetch!NewTask(op, n).op = op /\ Fetch!NewTask(op, n).bytes = n
    /\ \A op \in {"reset", "wait", "guard"} :
           Fetch!Holding(op) \in FetchTask /\ Fetch!Holding(op).op = op
  BY DEF FetchTask, Fetch!NewTask, Fetch!Holding

\* The queue.
LEMMA FetchPushed ==
    ASSUME NEW q \in Seq(FetchTask), NEW t \in FetchTask
    PROVE  /\ Append(q, t) \in Seq(FetchTask) /\ Len(q) \in Nat
           /\ DOMAIN q = 1 .. Len(q) /\ DOMAIN Append(q, t) = 1 .. Len(q) + 1
           /\ \A i \in 1 .. Len(q) : Append(q, t)[i] = q[i]
           /\ Append(q, t)[Len(q) + 1] = t
  OBVIOUS

LEMMA FetchPopped ==
    ASSUME NEW q \in Seq(FetchTask), q # <<>>
    PROVE  /\ Tail(q) \in Seq(FetchTask) /\ Head(q) = q[1] /\ Head(q) \in FetchTask
           /\ Len(q) \in Nat \ {0} /\ DOMAIN q = 1 .. Len(q) /\ DOMAIN Tail(q) = 1 .. Len(q) - 1
           /\ \A i \in 1 .. Len(q) - 1 : Tail(q)[i] = q[i + 1]
  OBVIOUS

\* A byte, by the place of its task and its own.
Pair(i, k) == <<i, k>>

LEMMA Pairs == \A i, k : Pair(i, k)[1] = i /\ Pair(i, k)[2] = k
  BY DEF Pair

LEMMA InBytes ==
    ASSUME NEW q
    PROVE  \A x : x \in Fetch!BytesIn(q) <=>
               \E i \in DOMAIN q : q[i].op = "data" /\ \E k \in 1 .. q[i].bytes : x = Pair(i, k)
<1> DEFINE I(i) == 1 .. q[i].bytes
           own(i) == {Pair(i, k) : k \in I(i)}
           D == {j \in DOMAIN q : q[j].op = "data"}
<1>1. Fetch!BytesIn(q) = UNION {own(i) : i \in D}
  BY Zenon DEF Fetch!BytesIn, Pair
<1>2. \A i : i \in D <=> i \in DOMAIN q /\ q[i].op = "data"
  BY Zenon
<1>3. \A i, x : x \in own(i) <=> \E k \in I(i) : x = Pair(i, k)
  BY Zenon
<1> HIDE DEF D, own
<1>4. \A x : x \in UNION {own(i) : i \in D} <=> \E i \in D : x \in own(i)
  BY Zenon
<1>5. ASSUME NEW x
      PROVE  (\E i \in D : x \in own(i)) <=>
                 \E i \in DOMAIN q : q[i].op = "data" /\ \E k \in I(i) : x = Pair(i, k)
  <2>1. \A i : x \in own(i) <=> \E k \in I(i) : x = Pair(i, k)
    BY <1>3, Zenon
  <2> DEFINE from(i) == \E k \in I(i) : x = Pair(i, k)
  <2> HIDE DEF from
  <2>2. \A i : x \in own(i) <=> from(i)
    BY <2>1, Zenon DEF from
  <2>3. (\E i \in D : x \in own(i)) <=> \E i \in DOMAIN q : q[i].op = "data" /\ from(i)
    BY <1>2, <2>2, Zenon
  <2> QED BY <2>3, Zenon DEF from
<1> QED BY <1>1, <1>4, <1>5, Zenon

\* A task at the end adds its bytes.
LEMMA BytesPushed ==
    ASSUME NEW q \in Seq(FetchTask), NEW t \in FetchTask, IsFiniteSet(Fetch!BytesIn(q))
    PROVE  LET r == Append(q, t)
           IN /\ IsFiniteSet(Fetch!BytesIn(r))
              /\ Cardinality(Fetch!BytesIn(r)) = Cardinality(Fetch!BytesIn(q)) + (IF t.op = "data" THEN t.bytes ELSE 0)
<1> DEFINE r == Append(q, t)
           n == Len(q) + 1
           B == Fetch!BytesIn(q)
           R == Fetch!BytesIn(r)
           own == {Pair(n, k) : k \in 1 .. t.bytes}
<1>1. /\ Len(q) \in Nat /\ DOMAIN q = 1 .. Len(q) /\ DOMAIN r = 1 .. n
      /\ \A i \in 1 .. Len(q) : r[i] = q[i]
      /\ r[n] = t /\ t.bytes \in Nat
  BY FetchPushed DEF FetchTask
<1>2. DOMAIN r = DOMAIN q \cup {n} /\ n \notin DOMAIN q
  BY <1>1
<1> HIDE DEF r, n
<1>3. \A x : x \in B <=> \E i \in DOMAIN q : q[i].op = "data" /\ \E k \in 1 .. q[i].bytes : x = Pair(i, k)
  BY InBytes, Zenon
<1>4. \A x : x \in R <=> \E i \in DOMAIN r : r[i].op = "data" /\ \E k \in 1 .. r[i].bytes : x = Pair(i, k)
  BY InBytes, Zenon
<1> HIDE DEF R, B
<1>5. R = IF t.op = "data" THEN B \cup own ELSE B
  <2>1. ASSUME NEW x PROVE x \in R <=> x \in B \/ (t.op = "data" /\ x \in own)
    <3> DEFINE in(s, i) == s[i].op = "data" /\ \E k \in 1 .. s[i].bytes : x = Pair(i, k)
    <3>1. \A i \in DOMAIN q : in(r, i) <=> in(q, i)
      BY <1>1, Zenon
    <3>2. in(r, n) <=> t.op = "data" /\ x \in own
      BY <1>1, Zenon
    <3>3. (x \in B <=> \E i \in DOMAIN q : in(q, i)) /\ (x \in R <=> \E i \in DOMAIN r : in(r, i))
      BY <1>3, <1>4, Zenon
    <3> HIDE DEF in, own
    <3> QED BY <1>2, <3>1, <3>2, <3>3, Zenon
  <2> HIDE DEF own
  <2> QED BY <2>1, Zenon
<1>6. IsFiniteSet(own) /\ Cardinality(own) = t.bytes
  <2> DEFINE I == 1 .. t.bytes
             size == Cardinality(I)
             f == [k \in I |-> Pair(n, k)]
  <2>1. IsFiniteSet(I) /\ size = t.bytes
    <3>1. IsFiniteSet(I) /\ size = IF 1 > t.bytes THEN 0 ELSE t.bytes - 1 + 1
      BY <1>1, FS_Interval, 1 \in Int, t.bytes \in Int, Zenon
    <3> HIDE DEF size, I
    <3> QED BY <1>1, <3>1
  <2> HIDE DEF I
  <2>2. f \in [I -> own] /\ DOMAIN f = I
    BY Zenon DEF I
  <2>3. f \in Injection(I, own)
    <3>1. \A k \in I : f[k][2] = k
      BY Pairs, Zenon
    <3>2. \A k, l \in I : f[k] = f[l] => k = l
      BY <3>1, Zenon
    <3> QED BY <2>2, <3>2, Zenon DEF Injection, IsInjective
  <2>4. f \in Surjection(I, own)
    <3>1. \A x \in own : \E k \in I : f[k] = x
      BY Zenon DEF I
    <3> QED BY <2>2, <3>1, Zenon DEF Surjection
  <2>5. ExistsBijection(I, own)
    BY <2>3, <2>4, Zenon DEF ExistsBijection, Bijection
  <2> QED BY <2>1, <2>5, FS_Bijection, Zenon
<1>7. B \cap own = {}
  <2> SUFFICES ASSUME NEW x \in B, x \in own PROVE FALSE
    BY Zenon
  <2>1. PICK i \in DOMAIN q : \E k \in 1 .. q[i].bytes : x = Pair(i, k)
    BY <1>3, Zenon
  <2>2. x[1] = i
    BY <2>1, Pairs, Zenon
  <2>3. x[1] = n
    BY Pairs, Zenon
  <2> QED BY <1>2, <2>2, <2>3, Zenon
<1> HIDE DEF own
<1>8. IsFiniteSet(B) /\ Cardinality(B) \in Nat
  BY FS_CardinalityType, Zenon DEF B
<1>9. IsFiniteSet(B \cup own) /\ Cardinality(B \cup own) = Cardinality(B) + t.bytes
  <2>1. /\ IsFiniteSet(B \cup own)
        /\ Cardinality(B \cup own) = Cardinality(B) + t.bytes - Cardinality(B \cap own)
    BY <1>6, <1>8, FS_Union, Zenon
  <2>2. Cardinality(B \cap own) = 0
    BY <1>7, FS_EmptySet, Zenon
  <2> QED BY <1>1, <1>8, <2>1, <2>2
<1>10. IsFiniteSet(R) /\ Cardinality(R) = Cardinality(B) + (IF t.op = "data" THEN t.bytes ELSE 0)
  <2>1. CASE t.op = "data"
    BY <1>5, <1>9, <2>1, Zenon
  <2>2. CASE t.op # "data"
    BY <1>5, <1>8, <2>2
  <2> QED BY <2>1, <2>2, Zenon
<1> QED BY <1>10, Zenon DEF r, R, B

\* A task less at the front adds none.
LEMMA BytesPopped ==
    ASSUME NEW q \in Seq(FetchTask), q # <<>>, IsFiniteSet(Fetch!BytesIn(q))
    PROVE  LET r == Tail(q)
           IN IsFiniteSet(Fetch!BytesIn(r)) /\ Cardinality(Fetch!BytesIn(r)) <= Cardinality(Fetch!BytesIn(q))
<1> DEFINE r == Tail(q)
           B == Fetch!BytesIn(q)
           R == Fetch!BytesIn(r)
           f == [x \in R |-> Pair(x[1] + 1, x[2])]
<1>1. /\ \A i \in DOMAIN r : i + 1 \in DOMAIN q /\ r[i] = q[i + 1]
      /\ \A i, j \in DOMAIN r : i + 1 = j + 1 => i = j
  <2>1. /\ Len(q) \in Nat \ {0} /\ DOMAIN q = 1 .. Len(q) /\ DOMAIN r = 1 .. Len(q) - 1
        /\ \A i \in 1 .. Len(q) - 1 : r[i] = q[i + 1]
    BY FetchPopped
  <2> HIDE DEF r
  <2> QED BY <2>1
<1> HIDE DEF r
<1>2. \A x : x \in B <=> \E i \in DOMAIN q : q[i].op = "data" /\ \E k \in 1 .. q[i].bytes : x = Pair(i, k)
  BY InBytes, Zenon
<1>3. \A x : x \in R <=> \E i \in DOMAIN r : r[i].op = "data" /\ \E k \in 1 .. r[i].bytes : x = Pair(i, k)
  BY InBytes, Zenon
<1> HIDE DEF R, B
<1>4. ASSUME NEW x \in R PROVE Pair(x[1] + 1, x[2]) \in B
  <2>1. PICK i \in DOMAIN r : r[i].op = "data" /\ \E k \in 1 .. r[i].bytes : x = Pair(i, k)
    BY <1>3, Zenon
  <2>2. PICK k \in 1 .. r[i].bytes : x = Pair(i, k)
    BY <2>1, Zenon
  <2>3. x[1] = i /\ x[2] = k
    BY <2>2, Pairs, Zenon
  <2>4. i + 1 \in DOMAIN q /\ q[i + 1].op = "data" /\ k \in 1 .. q[i + 1].bytes
    BY <1>1, <2>1, Zenon
  <2> QED BY <1>2, <2>3, <2>4, Zenon
<1>5. ASSUME NEW x \in R, NEW y \in R, Pair(x[1] + 1, x[2]) = Pair(y[1] + 1, y[2]) PROVE x = y
  <2>1. PICK i \in DOMAIN r : \E k \in 1 .. r[i].bytes : x = Pair(i, k)
    BY <1>3, Zenon
  <2>2. PICK k \in 1 .. r[i].bytes : x = Pair(i, k)
    BY <2>1, Zenon
  <2>3. PICK j \in DOMAIN r : \E l \in 1 .. r[j].bytes : y = Pair(j, l)
    BY <1>3, Zenon
  <2>4. PICK l \in 1 .. r[j].bytes : y = Pair(j, l)
    BY <2>3, Zenon
  <2>5. x[1] = i /\ x[2] = k /\ y[1] = j /\ y[2] = l
    BY <2>2, <2>4, Pairs, Zenon
  <2>6. i + 1 = j + 1 /\ k = l
    <3>1. Pair(i + 1, k) = Pair(j + 1, l)
      BY <1>5, <2>5, Zenon
    <3>2. Pair(i + 1, k)[1] = i + 1 /\ Pair(i + 1, k)[2] = k
      BY Pairs, Zenon
    <3>3. Pair(j + 1, l)[1] = j + 1 /\ Pair(j + 1, l)[2] = l
      BY Pairs, Zenon
    <3> QED BY <3>1, <3>2, <3>3, Zenon
  <2>7. i = j
    BY <1>1, <2>6, Zenon
  <2> QED BY <2>2, <2>4, <2>6, <2>7, Zenon
<1>6. f \in Injection(R, B)
  <2>1. f \in [R -> B] /\ DOMAIN f = R
    BY <1>4, Zenon
  <2>2. \A x, y \in R : f[x] = f[y] => x = y
    BY <1>5, Zenon
  <2> QED BY <2>1, <2>2, Zenon DEF Injection, IsInjective
<1> HIDE DEF f
<1>7. IsFiniteSet(R) /\ Cardinality(R) <= Cardinality(B)
  BY <1>6, FS_Injection, Zenon DEF B
<1> QED BY <1>7, Zenon DEF r, R, B

\* A task that neither asks nor carries data changes nothing of the queue, nor
\* does one that runs.
LEMMA WaitPushed ==
    ASSUME NEW q \in Seq(FetchTask), NEW t \in FetchTask, NothingBehindWait(q),
           t.op \in {"wait", "data"} => ~ Carries(q, "wait")
    PROVE  /\ NothingBehindWait(Append(q, t))
           /\ \A op : Carries(Append(q, t), op) <=> Carries(q, op) \/ t.op = op
<1> DEFINE r == Append(q, t)
           n == Len(q) + 1
<1>1. /\ Len(q) \in Nat /\ DOMAIN q = 1 .. Len(q) /\ DOMAIN r = 1 .. n
      /\ \A i \in 1 .. Len(q) : r[i] = q[i]
      /\ r[n] = t
  BY FetchPushed
<1>2. DOMAIN r = DOMAIN q \cup {n} /\ \A i \in DOMAIN q : ~ n < i
  BY <1>1
<1>3. ~ n < n
  BY <1>1
<1> HIDE DEF r, n
<1>4. \A op : Carries(r, op) <=> Carries(q, op) \/ t.op = op
  BY <1>1, <1>2, Zenon DEF Carries
<1>5. ASSUME NEW i \in DOMAIN r, NEW j \in DOMAIN r, i < j, r[i].op = "wait"
      PROVE  r[j].op \notin {"wait", "data"}
  <2>1. i \in DOMAIN q /\ q[i].op = "wait"
    BY <1>1, <1>2, <1>3, <1>5, Zenon
  <2>2. CASE j = n
    BY <1>1, <2>1, <2>2, Zenon DEF Carries
  <2>3. CASE j \in DOMAIN q
    BY <1>1, <1>5, <2>1, <2>3, Zenon DEF NothingBehindWait
  <2> QED BY <1>2, <2>2, <2>3, Zenon
<1> QED BY <1>4, <1>5, Zenon DEF r, NothingBehindWait

LEMMA WaitPopped ==
    ASSUME NEW q \in Seq(FetchTask), q # <<>>, NothingBehindWait(q)
    PROVE  /\ NothingBehindWait(Tail(q))
           /\ \A op : Carries(Tail(q), op) => Carries(q, op)
           /\ Head(q).op = "wait" => ~ Carries(Tail(q), "wait") /\ ~ Carries(Tail(q), "data")
<1> DEFINE r == Tail(q)
           h == Head(q)
<1>1. /\ h = q[1] /\ 1 \in DOMAIN q
      /\ \A i \in DOMAIN r : 1 < i + 1 /\ i + 1 \in DOMAIN q /\ r[i] = q[i + 1]
      /\ \A i, j \in DOMAIN r : i < j => i + 1 < j + 1
  <2>1. /\ Len(q) \in Nat \ {0} /\ DOMAIN q = 1 .. Len(q) /\ DOMAIN r = 1 .. Len(q) - 1
        /\ \A i \in 1 .. Len(q) - 1 : r[i] = q[i + 1]
        /\ h = q[1]
    BY FetchPopped
  <2> HIDE DEF r, h
  <2> QED BY <2>1
<1> HIDE DEF r, h
<1>2. \A op : Carries(r, op) => Carries(q, op)
  BY <1>1, Zenon DEF Carries
<1>3. NothingBehindWait(r)
  BY <1>1, Zenon DEF NothingBehindWait
<1>4. ASSUME h.op = "wait", NEW i \in DOMAIN r PROVE r[i].op # "wait" /\ r[i].op # "data"
  <2>1. q[i + 1].op \notin {"wait", "data"}
    BY <1>1, <1>4, Zenon DEF NothingBehindWait
  <2> QED BY <1>1, <2>1, Zenon
<1> QED BY <1>2, <1>3, <1>4, Zenon DEF r, h, Carries

\* A filter that says the same of what was counted, or an error more.
LEMMA SameCount ==
    ASSUME NEW F, NEW C, NEW q, NEW w, FetchOK(F, C, q, w), NEW G \in FetchFilter,
           G.queued = F.queued, G.drained = F.drained, G.freed = F.freed, F.err => G.err
    PROVE  FetchOK(G, C, q, w)
  BY Zenon DEF FetchOK, FetchTyped, WaitOK, CountOK

\* A task posted that carries no data and asks for nothing.
LEMMA PlainPushed ==
    ASSUME NEW F, NEW C, NEW q, NEW w, FetchOK(F, C, q, w), NEW t \in FetchTask, t.op \notin {"data", "wait"}
    PROVE  FetchOK(F, C, Append(q, t), w)
<1>1. q \in Seq(FetchTask) /\ NothingBehindWait(q) /\ IsFiniteSet(Fetch!BytesIn(q))
  BY Zenon DEF FetchOK, FetchTyped, WaitOK, CountOK
<1>2. Append(q, t) \in Seq(FetchTask)
  BY <1>1, FetchPushed, Zenon
<1>3. /\ NothingBehindWait(Append(q, t))
      /\ \A op \in {"data", "wait"} : Carries(Append(q, t), op) <=> Carries(q, op)
  BY <1>1, WaitPushed, Zenon
<1>4. IsFiniteSet(Fetch!BytesIn(Append(q, t))) /\ Cardinality(Fetch!BytesIn(Append(q, t))) = Cardinality(Fetch!BytesIn(q))
  <2>1. Cardinality(Fetch!BytesIn(q)) \in Nat /\ t.op # "data"
    BY <1>1, FS_CardinalityType, Zenon
  <2>2. /\ IsFiniteSet(Fetch!BytesIn(Append(q, t)))
        /\ Cardinality(Fetch!BytesIn(Append(q, t))) = Cardinality(Fetch!BytesIn(q)) + 0
    BY <1>1, <2>1, BytesPushed, Zenon
  <2> QED BY <2>1, <2>2
<1> QED BY <1>2, <1>3, <1>4, Zenon DEF FetchOK, FetchTyped, WaitOK, CountOK

\* A task that has run, other than the one that asks.
LEMMA TaskRun ==
    ASSUME NEW F, NEW C, NEW q, NEW w, FetchOK(F, C, q, w), q # <<>>
    PROVE  FetchOK(F, C, Tail(q), w)
<1>1. q \in Seq(FetchTask) /\ NothingBehindWait(q) /\ IsFiniteSet(Fetch!BytesIn(q)) /\ F \in FetchFilter
  BY Zenon DEF FetchOK, FetchTyped, WaitOK, CountOK
<1>2. Tail(q) \in Seq(FetchTask)
  BY <1>1, FetchPopped, Zenon
<1>3. NothingBehindWait(Tail(q)) /\ \A op : Carries(Tail(q), op) => Carries(q, op)
  BY <1>1, WaitPopped, Zenon
<1>4. IsFiniteSet(Fetch!BytesIn(Tail(q))) /\ Cardinality(Fetch!BytesIn(Tail(q))) <= Cardinality(Fetch!BytesIn(q))
  BY <1>1, BytesPopped, Zenon
<1>5. Cardinality(Fetch!BytesIn(Tail(q))) + F.drained <= F.queued
  <2> DEFINE x == Cardinality(Fetch!BytesIn(Tail(q)))
             y == Cardinality(Fetch!BytesIn(q))
  <2>1. x \in Nat /\ y \in Nat
    BY <1>1, <1>4, FS_CardinalityType, Zenon
  <2>2. y + F.drained <= F.queued /\ F.drained \in Nat /\ F.queued \in Nat
    BY <1>1 DEF FetchOK, CountOK, FetchFilter
  <2> HIDE DEF x, y
  <2>3. x <= y
    BY <1>4, Zenon DEF x, y
  <2>4. x + F.drained <= F.queued
    BY <2>1, <2>2, <2>3
  <2> QED BY <2>4, Zenon DEF x
<1> QED BY <1>2, <1>3, <1>4, <1>5, Zenon DEF FetchOK, FetchTyped, WaitOK, CountOK

\* The end of every step.
LEMMA FetchBecomes ==
    ASSUME NEW F, NEW C, NEW q, FetchOK(F, C, q, wait'), Fetch!Become(F, C, q)
    PROVE  FetchInv'
<1> DEFINE gone == ~ F.freed /\ ~ F.guard /\ ~ C.holds /\ \A i \in DOMAIN q : ~ q[i].self
           G == [F EXCEPT !.freed = TRUE, !.down = FALSE]
           t == Fetch!NewTask("release", 0)
<1>1. /\ filter' = IF gone THEN G ELSE F
      /\ fetchQueue' = IF gone /\ F.down THEN Append(q, t) ELSE q
      /\ source' = C
  BY Zenon DEF Fetch!Become
<1>2. F \in FetchFilter
  BY Zenon DEF FetchOK, FetchTyped
<1>3. ASSUME gone PROVE FetchOK(G, C, q, wait')
  <2>1. 0 \in Nat
    OBVIOUS
  <2>2. G \in FetchFilter /\ G.queued = F.queued /\ G.drained = F.drained /\ G.err = F.err
    BY <1>2, <2>1, FilterFields, Zenon
  <2> HIDE DEF G
  <2>3. ~ C.holds
    BY <1>3, Zenon
  <2> HIDE DEF gone
  <2> QED BY <2>2, <2>3, Zenon DEF FetchOK, FetchTyped, WaitOK, CountOK
<1>4. t \in FetchTask /\ t.op \notin {"data", "wait"}
  BY TaskFields
<1> HIDE DEF gone, G, t
<1>5. CASE gone /\ F.down
  <2>1. FetchOK(G, C, Append(q, t), wait')
    BY <1>3, <1>4, <1>5, PlainPushed, Zenon
  <2> QED BY <1>1, <1>5, <2>1, Zenon DEF FetchInv
<1>6. CASE gone /\ ~ F.down
  BY <1>1, <1>3, <1>6, Zenon DEF FetchInv
<1>7. CASE ~ gone
  BY <1>1, <1>7, Zenon DEF FetchInv
<1> QED BY <1>5, <1>6, <1>7, Zenon

LEMMA FetchParts ==
    ASSUME FetchInv
    PROVE  /\ fetchQueue \in Seq(FetchTask) /\ filter \in FetchFilter /\ source \in FetchSource /\ wait \in Wait
           /\ NothingBehindWait(fetchQueue) /\ IsFiniteSet(Fetch!BytesIn(fetchQueue))
  BY Zenon DEF FetchInv, FetchOK, FetchTyped, WaitOK, CountOK

\* Data adds as much to what waits as to what is counted, at a time when the
\* window had room and no wait was under way.
LEMMA DataKeeps ==
    ASSUME FetchInv, NEW b \in Sizes, Fetch!data(b)
    PROVE  FetchInv'
<1> DEFINE F == [filter EXCEPT !.queued = @ + b]
           full == Fetch!Full(F)
           C == [source EXCEPT !.blocked = full]
           t == Fetch!NewTask("data", b)
           q == Append(fetchQueue, t)
<1>1. /\ source.holds /\ ~ filter.err /\ ~ source.blocked /\ wait' = wait
      /\ Fetch!Become(F, C, q)
  BY Zenon DEF Fetch!data, Fetch!Calls
<1>2. b \in Nat /\ Window \in Nat \ {0}
  BY FetchAssumption
<1>3. /\ F \in FetchFilter /\ F.queued = filter.queued + b /\ F.drained = filter.drained
      /\ F.err = filter.err /\ F.freed = filter.freed
  BY <1>2, FetchParts, FilterFields, Zenon
<1> HIDE DEF F
<1>4. full \in BOOLEAN /\ (full <=> F.queued - F.drained >= Window)
  BY DEF Fetch!Full
<1>5. C \in FetchSource /\ C.blocked = full /\ C.holds = source.holds
  <2>1. \A x \in BOOLEAN : LET D == [source EXCEPT !.blocked = x]
                           IN D \in FetchSource /\ D.blocked = x /\ D.holds = source.holds
    <3>1. source \in FetchSource
      BY FetchParts, Zenon
    <3> QED BY <3>1 DEF FetchSource
  <2> HIDE DEF full
  <2> QED BY <1>4, <2>1
<1> HIDE DEF full
<1>6. t \in FetchTask /\ t.op = "data" /\ t.bytes = b
  BY <1>2, TaskFields, Zenon
<1> HIDE DEF C, t
<1>7. wait.at = "none" /\ ~ Carries(fetchQueue, "wait")
  BY <1>1, FetchParts DEF FetchInv, FetchOK, WaitOK, Wait
<1>8. q \in Seq(FetchTask) /\ NothingBehindWait(q) /\ ~ Carries(q, "wait")
  <2>1. q \in Seq(FetchTask)
    BY <1>6, FetchParts, FetchPushed, Zenon
  <2>2. NothingBehindWait(q) /\ (Carries(q, "wait") <=> Carries(fetchQueue, "wait") \/ t.op = "wait")
    BY <1>6, <1>7, FetchParts, WaitPushed, Zenon
  <2> QED BY <1>6, <1>7, <2>1, <2>2
<1> DEFINE x == Cardinality(Fetch!BytesIn(fetchQueue))
           y == Cardinality(Fetch!BytesIn(q))
<1>9. IsFiniteSet(Fetch!BytesIn(q)) /\ y = x + b /\ x \in Nat
  <2>1. x \in Nat
    BY FetchParts, FS_CardinalityType, Zenon
  <2>2. IsFiniteSet(Fetch!BytesIn(q)) /\ y = x + (IF t.op = "data" THEN t.bytes ELSE 0)
    BY <1>6, FetchParts, BytesPushed, Zenon
  <2> QED BY <1>6, <2>1, <2>2, Zenon
<1>10. /\ x + filter.drained <= filter.queued
       /\ filter.queued < filter.drained + Window
       /\ filter.freed => ~ source.holds
       /\ filter.queued \in Nat /\ filter.drained \in Nat
  <2>1. filter.queued \in Nat /\ filter.drained \in Nat
    BY FetchParts DEF FetchFilter
  <2> QED BY <1>1, <2>1, Zenon DEF FetchInv, FetchOK, CountOK
<1> HIDE DEF x, y, q
<1>11. y + F.drained <= F.queued /\ F.queued < F.drained + Window + b
  <2>1. \A i, j, k, w, c \in Nat : i + j <= k /\ k < j + w => (i + c) + j <= k + c /\ k + c < j + w + c
    OBVIOUS
  <2>2. Window \in Nat
    BY <1>2, Zenon
  <2>3. /\ (x + b) + filter.drained <= filter.queued + b
        /\ filter.queued + b < filter.drained + Window + b
    BY <1>2, <1>9, <1>10, <2>1, <2>2, Zenon
  <2> QED BY <1>3, <1>9, <2>3, Zenon
<1>12. ~ full => F.queued < F.drained + Window
  <2>1. F.queued \in Nat /\ F.drained \in Nat
    BY <1>2, <1>3, <1>10
  <2> QED BY <1>2, <1>4, <2>1
<1>13. CountOK(F, C, q)
  BY <1>1, <1>3, <1>5, <1>9, <1>10, <1>11, <1>12, Zenon DEF CountOK, y
<1>14. FetchOK(F, C, q, wait)
  <2>1. wait \in Wait
    BY FetchParts, Zenon
  <2> QED BY <1>3, <1>5, <1>7, <1>8, <1>13, <2>1, Zenon DEF FetchOK, FetchTyped, WaitOK
<1> QED BY <1>1, <1>14, FetchBecomes, Zenon

LEMMA LastKeeps ==
    ASSUME FetchInv, NEW b \in Sizes, Fetch!last(b)
    PROVE  FetchInv'
<1> DEFINE C == [source EXCEPT !.over = TRUE]
           t == Fetch!NewTask("end", b)
<1>1. wait' = wait /\ Fetch!Become(filter, C, Append(fetchQueue, t))
  BY Zenon DEF Fetch!last
<1>2. b \in Nat /\ TRUE \in BOOLEAN
  BY FetchAssumption
<1>3. C \in FetchSource /\ C.blocked = source.blocked /\ C.holds = source.holds
  BY <1>2, FetchParts, SourceFields, Zenon
<1>4. t \in FetchTask /\ t.op \notin {"data", "wait"}
  BY <1>2, TaskFields
<1> HIDE DEF C, t
<1>5. FetchOK(filter, C, fetchQueue, wait)
  BY <1>3, Zenon DEF FetchInv, FetchOK, FetchTyped, WaitOK, CountOK
<1>6. FetchOK(filter, C, Append(fetchQueue, t), wait)
  BY <1>4, <1>5, PlainPushed, Zenon
<1> QED BY <1>1, <1>6, FetchBecomes, Zenon

LEMMA FailedKeeps ==
    ASSUME FetchInv, Fetch!failedCall
    PROVE  FetchInv'
<1> DEFINE d == Fetch!enqueueDeactivate(filter)
           F == [filter EXCEPT !.guard = FALSE]
           C == [source EXCEPT !.told = TRUE]
           t == Fetch!Holding("guard")
           q == IF filter.guard THEN Append(fetchQueue, t) ELSE fetchQueue
<1>1. wait' = wait /\ Fetch!Become(d.F, C, d.q)
  BY Zenon DEF Fetch!failedCall
<1>2. d.F = F /\ d.q = q
  BY DEF Fetch!enqueueDeactivate
<1> HIDE DEF d
<1>3. 0 \in Nat /\ TRUE \in BOOLEAN
  OBVIOUS
<1>4. /\ F \in FetchFilter /\ F.queued = filter.queued /\ F.drained = filter.drained
      /\ F.err = filter.err /\ F.freed = filter.freed
  BY <1>3, FetchParts, FilterFields, Zenon
<1>5. C \in FetchSource /\ C.blocked = source.blocked /\ C.holds = source.holds
  BY <1>3, FetchParts, SourceFields, Zenon
<1>6. t \in FetchTask /\ t.op \notin {"data", "wait"}
  BY TaskFields
<1> HIDE DEF F, C, t
<1>7. FetchOK(F, C, fetchQueue, wait)
  BY <1>4, <1>5, Zenon DEF FetchInv, FetchOK, FetchTyped, WaitOK, CountOK
<1>8. FetchOK(F, C, Append(fetchQueue, t), wait)
  BY <1>6, <1>7, PlainPushed, Zenon
<1>9. FetchOK(F, C, q, wait)
  BY <1>7, <1>8, Zenon
<1> HIDE DEF q
<1> QED BY <1>1, <1>2, <1>9, FetchBecomes, Zenon

LEMMA ResetKeeps ==
    ASSUME FetchInv, Fetch!reset
    PROVE  FetchInv'
<1> DEFINE F == [filter EXCEPT !.err = TRUE]
           C == [source EXCEPT !.over = TRUE]
           t == Fetch!Holding("reset")
<1>1. wait' = wait /\ Fetch!Become(F, C, Append(fetchQueue, t))
  BY Zenon DEF Fetch!reset
<1>2. 0 \in Nat /\ TRUE \in BOOLEAN
  OBVIOUS
<1>3. /\ F \in FetchFilter /\ F.queued = filter.queued /\ F.drained = filter.drained
      /\ F.err = TRUE /\ F.freed = filter.freed
  BY <1>2, FetchParts, FilterFields, Zenon
<1>4. C \in FetchSource /\ C.blocked = source.blocked /\ C.holds = source.holds
  BY <1>2, FetchParts, SourceFields, Zenon
<1>5. t \in FetchTask /\ t.op \notin {"data", "wait"}
  BY TaskFields
<1> HIDE DEF F, C, t
<1>6. FetchOK(F, C, fetchQueue, wait)
  BY <1>3, <1>4, Zenon DEF FetchInv, FetchOK, FetchTyped, WaitOK, CountOK
<1>7. FetchOK(F, C, Append(fetchQueue, t), wait)
  BY <1>5, <1>6, PlainPushed, Zenon
<1> QED BY <1>1, <1>7, FetchBecomes, Zenon

\* A wait begins with all that is queued as its mark, or the window has room.
LEMMA AwaitKeeps ==
    ASSUME FetchInv, Fetch!awaitReadyToConsume
    PROVE  FetchInv'
<1>1. ~ filter.err /\ source.blocked /\ wait.at = "none"
  BY Zenon DEF Fetch!awaitReadyToConsume
<1>2. /\ filter.queued \in Nat /\ filter.drained \in Nat /\ Window \in Nat
      /\ Fetch!Full(filter) <=> filter.queued - filter.drained >= Window
  BY FetchParts, FetchAssumption DEF FetchFilter, Fetch!Full
<1>3. CASE Fetch!Full(filter)
  <2> DEFINE w == [at |-> "posted", mark |-> filter.queued]
             t == Fetch!Holding("wait")
             q == Append(fetchQueue, t)
  <2>1. wait' = w /\ Fetch!Become(filter, source, q)
    BY <1>3, Zenon DEF Fetch!awaitReadyToConsume
  <2>2. w \in Wait /\ w.at = "posted" /\ w.mark = filter.queued
    BY <1>2 DEF Wait
  <2>3. t \in FetchTask /\ t.op = "wait"
    BY TaskFields, Zenon
  <2> HIDE DEF w, t
  <2>4. ~ Carries(fetchQueue, "wait")
    BY <1>1 DEF FetchInv, FetchOK, WaitOK
  <2>5. q \in Seq(FetchTask) /\ NothingBehindWait(q)
    BY <2>3, <2>4, FetchParts, FetchPushed, WaitPushed, Zenon
  <2>6. IsFiniteSet(Fetch!BytesIn(q)) /\ Cardinality(Fetch!BytesIn(q)) = Cardinality(Fetch!BytesIn(fetchQueue))
    <3>1. Cardinality(Fetch!BytesIn(fetchQueue)) \in Nat /\ t.op # "data"
      BY <2>3, FetchParts, FS_CardinalityType
    <3>2. /\ IsFiniteSet(Fetch!BytesIn(q))
          /\ Cardinality(Fetch!BytesIn(q)) = Cardinality(Fetch!BytesIn(fetchQueue)) + 0
      BY <2>3, <3>1, FetchParts, BytesPushed, Zenon
    <3> QED BY <3>1, <3>2
  <2> HIDE DEF q
  <2>7. CountOK(filter, source, q)
    BY <2>6, Zenon DEF FetchInv, FetchOK, CountOK
  <2>8. WaitOK(filter, source, q, w)
    BY <1>1, <2>2, <2>5 DEF WaitOK
  <2>9. FetchOK(filter, source, q, w)
    BY <2>2, <2>5, <2>7, <2>8, FetchParts, Zenon DEF FetchOK, FetchTyped
  <2> QED BY <2>1, <2>9, FetchBecomes, Zenon
<1>4. CASE ~ Fetch!Full(filter)
  <2> DEFINE C == [source EXCEPT !.blocked = FALSE]
  <2>1. wait' = wait /\ Fetch!Become(filter, C, fetchQueue)
    BY <1>4, Zenon DEF Fetch!awaitReadyToConsume
  <2>2. FALSE \in BOOLEAN
    OBVIOUS
  <2>3. C \in FetchSource /\ C.blocked = FALSE /\ C.holds = source.holds
    BY <2>2, FetchParts, SourceFields, Zenon
  <2> HIDE DEF C
  <2>4. filter.queued < filter.drained + Window
    BY <1>2, <1>4
  <2>5. FetchOK(filter, C, fetchQueue, wait)
    BY <1>1, <2>3, <2>4, Zenon DEF FetchInv, FetchOK, FetchTyped, WaitOK, CountOK
  <2> QED BY <2>1, <2>5, FetchBecomes, Zenon
<1> QED BY <1>3, <1>4, Zenon

\* Once readiness is heard, all that was queued when it was asked for has run.
LEMMA HeardKeeps ==
    ASSUME FetchInv, Fetch!heard
    PROVE  FetchInv'
<1> DEFINE w == [wait EXCEPT !.at = "none"]
           C == [source EXCEPT !.blocked = FALSE]
           G == [filter EXCEPT !.drained = wait.mark]
           stays == filter.freed \/ filter.err
<1>1. wait.at = "set" /\ wait' = w /\ Fetch!Become(IF stays THEN filter ELSE G, C, fetchQueue)
  BY Zenon DEF Fetch!heard
<1>2. FALSE \in BOOLEAN /\ wait.mark \in Nat /\ Window \in Nat \ {0}
  BY FetchParts, FetchAssumption DEF Wait
<1>3. w \in Wait /\ w.at = "none"
  BY FetchParts, WaitFields, Zenon
<1>4. C \in FetchSource /\ C.blocked = FALSE /\ C.holds = source.holds
  BY <1>2, FetchParts, SourceFields, Zenon
<1>5. /\ G \in FetchFilter /\ G.queued = filter.queued /\ G.drained = wait.mark
      /\ G.err = filter.err /\ G.freed = filter.freed
  BY <1>2, FetchParts, FilterFields, Zenon
<1> HIDE DEF w, C, G
<1>6. wait.mark = filter.queued /\ ~ Carries(fetchQueue, "data") /\ ~ Carries(fetchQueue, "wait")
  BY <1>1 DEF FetchInv, FetchOK, WaitOK
<1>7. ASSUME NEW F
      PROVE  WaitOK(F, C, fetchQueue, w)
  BY <1>3, <1>6, FetchParts DEF WaitOK
<1>8. CASE stays
  <2>1. CountOK(filter, C, fetchQueue)
    BY <1>4, <1>8, Zenon DEF FetchInv, FetchOK, CountOK
  <2>2. FetchOK(filter, C, fetchQueue, w)
    BY <1>3, <1>4, <1>7, <2>1, FetchParts, Zenon DEF FetchOK, FetchTyped
  <2> QED BY <1>1, <1>8, <2>2, FetchBecomes, Zenon
<1>9. CASE ~ stays
  <2>1. Fetch!BytesIn(fetchQueue) = {}
    BY <1>6, InBytes, Zenon DEF Carries
  <2>2. Cardinality(Fetch!BytesIn(fetchQueue)) = 0
    BY <2>1, FS_EmptySet, Zenon
  <2>3. filter.queued \in Nat /\ \A b \in Sizes : b \in Nat
    BY FetchParts, FetchAssumption DEF FetchFilter
  <2>4. PICK b \in Sizes : TRUE
    BY FetchAssumption, Zenon
  <2>5. G.queued < G.drained + Window /\ G.queued < G.drained + Window + b
    BY <1>2, <1>5, <1>6, <2>3
  <2>6. Cardinality(Fetch!BytesIn(fetchQueue)) + G.drained <= G.queued
    BY <1>5, <1>6, <2>2, <2>3
  <2>7. G.freed => ~ C.holds
    BY <1>4, <1>5, Zenon DEF FetchInv, FetchOK, CountOK
  <2>8. CountOK(G, C, fetchQueue)
    BY <2>5, <2>6, <2>7, FetchParts, Zenon DEF CountOK
  <2>9. FetchOK(G, C, fetchQueue, w)
    BY <1>3, <1>4, <1>5, <1>7, <2>8, FetchParts, Zenon DEF FetchOK, FetchTyped
  <2> QED BY <1>1, <1>9, <2>9, FetchBecomes, Zenon
<1> QED BY <1>8, <1>9, Zenon

LEMMA DropKeeps ==
    ASSUME FetchInv, Fetch!drop
    PROVE  FetchInv'
<1> DEFINE C == [source EXCEPT !.holds = FALSE]
<1>1. wait' = wait /\ Fetch!Become(filter, C, fetchQueue)
  BY Zenon DEF Fetch!drop
<1>2. FALSE \in BOOLEAN
  OBVIOUS
<1>3. C \in FetchSource /\ C.blocked = source.blocked /\ C.holds = FALSE
  BY <1>2, FetchParts, SourceFields, Zenon
<1> HIDE DEF C
<1>4. FetchOK(filter, C, fetchQueue, wait)
  BY <1>3, Zenon DEF FetchInv, FetchOK, FetchTyped, WaitOK, CountOK
<1> QED BY <1>1, <1>4, FetchBecomes, Zenon

\* Whether or not the downstream took the call, the counts are the same.
LEMMA Outcome ==
    ASSUME FetchInv, NEW ok
    PROVE  LET F == IF ok THEN filter ELSE Fetch!closeWithError(filter)
           IN /\ F \in FetchFilter /\ F.queued = filter.queued /\ F.drained = filter.drained
              /\ F.freed = filter.freed /\ (filter.err => F.err)
<1>1. 0 \in Nat
  OBVIOUS
<1> QED BY <1>1, FetchParts, FilterFields, Zenon

LEMMA TaskKeeps ==
    ASSUME FetchInv, Fetch!runTask
    PROVE  FetchInv'
<1> DEFINE t == Head(fetchQueue)
           r == Tail(fetchQueue)
           After(ok) == IF ok THEN filter ELSE Fetch!closeWithError(filter)
<1>1. fetchQueue # <<>>
  BY Zenon DEF Fetch!runTask
<1>2. FetchOK(filter, source, r, wait)
  BY <1>1, TaskRun, Zenon DEF FetchInv
<1>3. ASSUME NEW ok
      PROVE  /\ After(ok) \in FetchFilter /\ After(ok).queued = filter.queued
             /\ After(ok).drained = filter.drained
             /\ After(ok).freed = filter.freed /\ (filter.err => After(ok).err)
  BY Outcome, Zenon
<1> HIDE DEF After
<1>4. ASSUME NEW ok
      PROVE  FetchOK(After(ok), source, r, wait)
  BY <1>2, <1>3, SameCount, Zenon
<1>5. CASE \E ok \in BOOLEAN : Fetch!runData(t, ok)
  <2>1. PICK ok \in BOOLEAN : Fetch!runData(t, ok)
    BY <1>5, Zenon
  <2>2. wait' = wait /\ Fetch!Become(After(ok), source, r)
    BY <2>1, Zenon DEF Fetch!runData, After
  <2> QED BY <1>4, <2>2, FetchBecomes, Zenon
<1>6. CASE \E ok \in BOOLEAN : Fetch!runEnd(t, ok)
  <2>1. PICK ok \in BOOLEAN : Fetch!runEnd(t, ok)
    BY <1>6, Zenon
  <2> DEFINE E == After(ok)
             G == [E EXCEPT !.guard = FALSE]
  <2>2. wait' = wait /\ Fetch!Become(G, source, r)
    BY <2>1, Zenon DEF Fetch!runEnd, After
  <2>3. 0 \in Nat
    OBVIOUS
  <2>4. E \in FetchFilter /\ FetchOK(E, source, r, wait)
    BY <1>3, <1>4, Zenon
  <2> HIDE DEF E
  <2>5. /\ G \in FetchFilter /\ G.queued = E.queued /\ G.drained = E.drained
        /\ G.err = E.err /\ G.freed = E.freed
    BY <2>3, <2>4, FilterFields, Zenon
  <2> HIDE DEF G
  <2>6. FetchOK(G, source, r, wait)
    BY <2>4, <2>5, SameCount, Zenon
  <2> QED BY <2>2, <2>6, FetchBecomes, Zenon
<1>7. CASE \E ok \in BOOLEAN : Fetch!runWait(t, ok)
  <2>1. PICK ok \in BOOLEAN : Fetch!runWait(t, ok)
    BY <1>7, Zenon
  <2> DEFINE x == IF filter.down /\ ok THEN "asked" ELSE "set"
             w == [wait EXCEPT !.at = x]
  <2>2. t.op = "wait" /\ wait' = w /\ Fetch!Become(After(ok), source, r)
    BY <2>1, Zenon DEF Fetch!runWait, After
  <2>3. x \in {"asked", "set"} /\ x \in {"none", "posted", "asked", "set"}
    OBVIOUS
  <2> HIDE DEF x
  <2>4. w \in Wait /\ w.at = x /\ w.mark = wait.mark
    BY <2>3, FetchParts, WaitFields, Zenon
  <2> HIDE DEF w
  <2>5. NothingBehindWait(r) /\ ~ Carries(r, "wait") /\ ~ Carries(r, "data")
    BY <1>1, <2>2, FetchParts, WaitPopped, Zenon
  <2>6. wait.at = "posted"
    <3>1. Carries(fetchQueue, "wait")
      BY <1>1, <2>2, FetchParts, FetchPopped DEF Carries
    <3> QED BY <3>1, Zenon DEF FetchInv, FetchOK, WaitOK
  <2>7. source.blocked /\ wait.mark = filter.queued
    BY <2>6 DEF FetchInv, FetchOK, WaitOK
  <2>8. After(ok).queued = filter.queued /\ FetchOK(After(ok), source, r, wait)
    BY <1>3, <1>4, Zenon
  <2>9. WaitOK(After(ok), source, r, w)
    BY <2>3, <2>4, <2>5, <2>7, <2>8 DEF WaitOK
  <2>10. FetchOK(After(ok), source, r, w)
    BY <2>4, <2>8, <2>9, Zenon DEF FetchOK, FetchTyped
  <2> QED BY <2>2, <2>10, FetchBecomes, Zenon
<1>8. CASE Fetch!runDrop(t)
  <2>1. wait' = wait /\ Fetch!Become(filter, source, r)
    BY <1>8, Zenon DEF Fetch!runDrop
  <2> QED BY <1>2, <2>1, FetchBecomes, Zenon
<1> QED BY <1>5, <1>6, <1>7, <1>8, Zenon DEF Fetch!runTask

LEMMA ReadyKeeps ==
    ASSUME FetchInv, NEW ok, Fetch!ready(ok)
    PROVE  FetchInv'
<1> DEFINE w == [wait EXCEPT !.at = "set"]
           fails == ~ ok /\ filter.down
           F == IF fails THEN Fetch!closeWithError(filter) ELSE filter
<1>1. wait.at = "asked" /\ wait' = w /\ Fetch!Become(F, source, fetchQueue)
  BY Zenon DEF Fetch!ready
<1>2. w \in Wait /\ w.at = "set" /\ w.mark = wait.mark
  BY FetchParts, WaitFields, Zenon
<1>3. 0 \in Nat
  OBVIOUS
<1>4. /\ F \in FetchFilter /\ F.queued = filter.queued /\ F.drained = filter.drained
      /\ F.freed = filter.freed /\ (filter.err => F.err)
  BY <1>3, FetchParts, FilterFields, Zenon
<1> HIDE DEF w, F
<1>5. FetchOK(F, source, fetchQueue, wait)
  BY <1>4, SameCount, Zenon DEF FetchInv
<1>6. WaitOK(F, source, fetchQueue, w)
  BY <1>1, <1>2, <1>5 DEF FetchOK, WaitOK
<1>7. FetchOK(F, source, fetchQueue, w)
  BY <1>2, <1>5, <1>6, Zenon DEF FetchOK, FetchTyped
<1> QED BY <1>1, <1>7, FetchBecomes, Zenon

LEMMA FetchInit ==
    ASSUME Fetch!Init
    PROVE  FetchInv
<1>1. FetchTyped(filter, source, fetchQueue, wait)
  BY DEF Fetch!Init, FetchTyped, FetchFilter, FetchSource, Wait
<1>2. fetchQueue = <<>> /\ DOMAIN fetchQueue = {}
  BY DEF Fetch!Init
<1>3. WaitOK(filter, source, fetchQueue, wait)
  BY <1>2 DEF Fetch!Init, WaitOK, NothingBehindWait, Carries
<1>4. Fetch!BytesIn(fetchQueue) = {}
  BY <1>2, InBytes, Zenon
<1>5. IsFiniteSet(Fetch!BytesIn(fetchQueue)) /\ Cardinality(Fetch!BytesIn(fetchQueue)) = 0
  BY <1>4, FS_EmptySet, Zenon
<1>6. PICK b \in Sizes : TRUE
  BY FetchAssumption, Zenon
<1>7. filter.queued = 0 /\ filter.drained = 0 /\ ~ filter.freed /\ Window \in Nat \ {0} /\ b \in Nat
  BY FetchAssumption DEF Fetch!Init
<1>8. /\ Cardinality(Fetch!BytesIn(fetchQueue)) + filter.drained <= filter.queued
      /\ filter.queued < filter.drained + Window + b
      /\ filter.queued < filter.drained + Window
  BY <1>5, <1>6, <1>7
<1>9. CountOK(filter, source, fetchQueue)
  BY <1>5, <1>7, <1>8, Zenon DEF CountOK
<1> QED BY <1>1, <1>3, <1>9, Zenon DEF FetchInv, FetchOK

LEMMA FetchStep ==
    ASSUME FetchInv, [MCNext]_allVars
    PROVE  FetchInv'
<1>1. CASE UNCHANGED fetchVars
  BY <1>1, Zenon DEF FetchInv, fetchVars
<1>2. CASE Fetch!Next
  BY <1>2, DataKeeps, LastKeeps, FailedKeeps, ResetKeeps, AwaitKeeps, HeardKeeps, DropKeeps, TaskKeeps,
     ReadyKeeps, Zenon DEF Fetch!Next
<1> QED BY <1>1, <1>2, Zenon DEF MCNext, allVars

\* However long an answer to a FETCH is, whatever its objects' sizes and however
\* the downstream delays or fails, what FetchCrossExecFilter has posted and the
\* target not yet run never exceeds kWindowBytes by more than one object.
THEOREM WindowIsKept == MCSpec => []WindowHolds
<1>1. ASSUME MCInit
      PROVE  FetchInv
  BY <1>1, FetchInit, Zenon DEF MCInit
<1>2. ASSUME FetchInv
      PROVE  WindowHolds
  <2> DEFINE x == Cardinality(Fetch!BytesIn(fetchQueue))
  <2>1. PICK b \in Sizes : x + filter.drained <= filter.queued /\ filter.queued < filter.drained + Window + b
    BY <1>2, Zenon DEF FetchInv, FetchOK, CountOK
  <2>2. x \in Nat
    BY <1>2, FetchParts, FS_CardinalityType, Zenon
  <2>3. filter.queued \in Nat /\ filter.drained \in Nat
    BY <1>2, FetchParts DEF FetchFilter
  <2>4. b \in Nat /\ Window \in Nat
    BY FetchAssumption
  <2> HIDE DEF x
  <2>5. x <= Window - 1 + b
    BY <2>1, <2>2, <2>3, <2>4
  <2>6. x = Fetch!Waiting
    BY Zenon DEF Fetch!Waiting, Fetch!Cardinality, Cardinality, x
  <2> QED BY <2>5, <2>6, Zenon DEF WindowHolds, Fetch!WindowHolds
<1> QED BY <1>1, <1>2, FetchStep, PTL DEF MCSpec
=============================================================================
