------------------------------ MODULE ConsoleProofs -----------------------------
(***************************************************************************)
(* What the browser applications of operators and developers keep, for any *)
(* number of keys, calls, objects and operations: a page of the            *)
(* administration console, the floor-plan builder, the operator's session  *)
(* and the workbench of the developer documentation.  Each part has its    *)
(* own inductive invariant: ConsoleInv, BuilderInv, SessionInv, DocsInv.   *)
(***************************************************************************)
EXTENDS AdminConsole, LayoutBuilder, AdminSession, DocsWorkbench, FiniteSetTheorems,
        SequenceTheorems, NaturalsInduction, WellFoundedInduction, TLAPS

-----------------------------------------------------------------------------
(* A page of the administration console.                                   *)

Phases == {"SENT", "ADRIFT", "DONE", "REFUSED", "CONFLICT", "REFETCHING"}

CallRow(c) ==
    c \in [do : {c.do}, on : {c.on}, form : {c.form}, key : 1 .. MaxKeys, via : {c.via},
           phase : Phases, waits : SUBSET Queries(page), reread : SUBSET Queries(page),
           watched : {c.watched}]

ScreenOK ==
    /\ Mounted(page, filter) \subseteq Queries(page)
    /\ cache = [q \in Queries(page) |-> cache[q]]
    /\ reading = [q \in Queries(page) |-> reading[q]]
    /\ \A q \in Queries(page) : cache[q].rev \in Int /\ reading[q].rev \in Int

\* Every intent a key has stood for: kept, in a call, or stored with its answer.
Meant ==
    kept \cup {<<CallIntent(c), c.key>> : c \in calls}
         \cup {<<IntentOf(stored[k].do, stored[k].on, stored[k].form), k>> :
                 k \in {j \in 1 .. MaxKeys : stored[j] # NoAnswer}}

\* A key stands for one intent, an intent keeps one key, and a key that is no longer
\* kept was told, forgotten, or refused.
KeysOK ==
    /\ drawn \in 0 .. MaxKeys
    /\ \A p \in Meant : p = <<p[1], p[2]>> /\ p[2] \in 1 .. drawn
    /\ \A p, r \in Meant : p[2] = r[2] => p[1] = r[1]
    /\ \A p, r \in kept : p[1] = r[1] => p[2] = r[2]
    /\ \A k \in 1 .. drawn :
         \/ k \in told \cup forgotten
         \/ \E p \in kept : p[2] = k
         \/ stored[k].state = "REFUSED"

\* An answer is what the server stored, no younger than its data; and a call that has
\* one has it from there.
AnswersOK ==
    /\ data.rev \in Nat
    /\ stored = [k \in 1 .. MaxKeys |-> stored[k]]
    /\ \A k \in 1 .. MaxKeys :
         \/ stored[k] = NoAnswer
         \/ stored[k].state \in {"DONE", "REFUSED"} /\ stored[k].rev \in 0 .. data.rev
    /\ \A c \in calls :
         /\ CallRow(c)
         /\ c.phase \in {"DONE", "REFETCHING"} =>
              Same(stored[c.key], c) /\ stored[c.key].state = "DONE"
         /\ c.phase = "REFUSED" => stored[c.key].state = "REFUSED"

\* A secret the page was told of comes up when its reads have ended.
ToldOK ==
    \A k \in told :
        /\ k \in 1 .. MaxKeys /\ stored[k] # NoAnswer
        /\ stored[k].do \in Secretive =>
             \/ k \in revealed \cup forgotten
             \/ \E c \in calls : c.key = k /\ c.phase = "REFETCHING"

\* A read that runs, or has ended, since a command was answered is no older than it.
ReadOK(c, q) ==
    /\ q \in c.waits => Running(q)
    /\ Running(q) => reading[q].rev >= stored[c.key].rev
    /\ q \notin c.waits => cache[q].rev >= stored[c.key].rev

ReadsOK == \A c \in calls : c.phase = "REFETCHING" => \A q \in c.reread : ReadOK(c, q)

ConsoleInv == ScreenOK /\ KeysOK /\ AnswersOK /\ ToldOK /\ ReadsOK

SameCall(n, c) == n.do = c.do /\ n.on = c.on /\ n.form = c.form /\ n.key = c.key

\* What becomes of a call but its execution.
Descends(n, c) ==
    /\ CallRow(n) /\ SameCall(n, c)
    /\ n.phase = c.phase \/ n.phase = "ADRIFT" \/ (n.phase = "REFETCHING" /\ c.phase = "DONE")

-----------------------------------------------------------------------------
\* Keys and answers where no call starts and none is executed: a key dropped is one the
\* page was told of, or forgot, or had refused.
LEMMA KeysStay ==
    ASSUME ConsoleInv, UNCHANGED <<page, drawn, stored>>, data'.rev \in Nat, data.rev <= data'.rev,
           \A n \in calls' : \E c \in calls : Descends(n, c),
           kept' \subseteq kept, told \subseteq told', forgotten \subseteq forgotten',
           \A p \in kept \ kept' :
              p[2] \in told' \cup forgotten' \/ stored[p[2]].state = "REFUSED"
    PROVE  KeysOK' /\ AnswersOK'
  <1>1. Meant' \subseteq Meant
    <2>1. ASSUME NEW n \in calls' PROVE <<CallIntent(n), n.key>> \in Meant
      <3>1. PICK c \in calls : Descends(n, c)
        OBVIOUS
      <3>2. CallIntent(n) = CallIntent(c) /\ n.key = c.key
        BY <3>1 DEF Descends, SameCall, CallIntent, IntentOf
      <3> QED BY <3>2 DEF Meant
    <2>2. Meant' = kept' \cup {<<CallIntent(c), c.key>> : c \in calls'}
                     \cup {<<IntentOf(stored[k].do, stored[k].on, stored[k].form), k>> :
                             k \in {j \in 1 .. MaxKeys : stored[j] # NoAnswer}}
      BY DEF Meant, CallIntent, IntentOf
    <2> QED BY <2>1, <2>2 DEF Meant
  <1>2. KeysOK'
    <2>1. \A k \in 1 .. drawn :
            \/ k \in told' \cup forgotten'
            \/ \E p \in kept' : p[2] = k
            \/ stored[k].state = "REFUSED"
      BY DEF ConsoleInv, KeysOK
    <2>2. /\ \A p \in Meant' : p = <<p[1], p[2]>> /\ p[2] \in 1 .. drawn
          /\ \A p, r \in Meant' : p[2] = r[2] => p[1] = r[1]
      BY <1>1 DEF ConsoleInv, KeysOK
    <2>3. drawn \in 0 .. MaxKeys /\ \A p, r \in kept' : p[1] = r[1] => p[2] = r[2]
      BY DEF ConsoleInv, KeysOK
    <2> QED BY <2>1, <2>2, <2>3 DEF KeysOK
  <1>3. AnswersOK'
    <2>1. ASSUME NEW n \in calls'
          PROVE  /\ CallRow(n)
                 /\ n.phase \in {"DONE", "REFETCHING"} =>
                      Same(stored[n.key], n) /\ stored[n.key].state = "DONE"
                 /\ n.phase = "REFUSED" => stored[n.key].state = "REFUSED"
      <3>1. PICK c \in calls : Descends(n, c)
        OBVIOUS
      <3> QED BY <3>1 DEF Descends, SameCall, Same, ConsoleInv, AnswersOK
    <2>2. \A n \in calls' : n \in [do : {n.do}, on : {n.on}, form : {n.form}, key : 1 .. MaxKeys,
             via : {n.via}, phase : Phases, waits : SUBSET Queries(page)',
             reread : SUBSET Queries(page)', watched : {n.watched}]
      BY <2>1 DEF CallRow, Queries
    <2> QED BY <2>1, <2>2 DEF ConsoleInv, AnswersOK, CallRow, Same, NoAnswer
  <1> QED BY <1>2, <1>3

\* Told secrets, where nothing comes of it but by the step itself.
LEMMA ToldStays ==
    ASSUME ConsoleInv, stored' = stored, forgotten \subseteq forgotten', revealed \subseteq revealed',
           told' = told,
           \A c \in calls : c.phase = "REFETCHING" =>
              \/ \E n \in calls' : n.key = c.key /\ n.phase = "REFETCHING"
              \/ c.key \in forgotten'
              \/ c.do \in Secretive => c.key \in revealed'
    PROVE  ToldOK'
  <1> SUFFICES ASSUME NEW k \in told, stored[k].do \in Secretive,
                      k \notin revealed' \cup forgotten'
               PROVE  \E n \in calls' : n.key = k /\ n.phase = "REFETCHING"
    BY DEF ConsoleInv, ToldOK, NoAnswer
  <1>1. PICK c \in calls : c.key = k /\ c.phase = "REFETCHING"
    BY DEF ConsoleInv, ToldOK
  <1>2. c.do = stored[k].do
    BY <1>1 DEF ConsoleInv, AnswersOK, Same
  <1> QED BY <1>1, <1>2

\* Nothing but the screen changes.
LEMMA ScreenChanges ==
    ASSUME ConsoleInv, UNCHANGED <<page, cache, reading, sending, server, known>>,
           Mounted(page, filter') \subseteq Queries(page)
    PROVE  ConsoleInv'
  <1>1. UNCHANGED <<page, cache, reading, calls, kept, drawn, data, stored, told, forgotten, revealed>>
    BY DEF sending, server, known
  <1>2. \A c \in calls : Descends(c, c)
    BY DEF ConsoleInv, AnswersOK, Descends, SameCall
  <1>3. data'.rev \in Nat /\ data.rev <= data'.rev
    BY <1>1 DEF ConsoleInv, AnswersOK
  <1>4. KeysOK' /\ AnswersOK'
    BY <1>1, <1>2, <1>3, KeysStay
  <1>5. ToldOK'
    BY <1>1, ToldStays
  <1>6. ScreenOK'
    BY <1>1 DEF ConsoleInv, ScreenOK, Mounted, Queries
  <1>7. ReadsOK'
    BY <1>1 DEF ConsoleInv, ReadsOK, ReadOK, Running
  <1> QED BY <1>4, <1>5, <1>6, <1>7 DEF ConsoleInv

\* A call when the read of a query has ended.
Reread(c, q, failed) == IF failed /\ q \in c.waits THEN c.reread \ {q} ELSE c.reread
ReleasedCall(c, q, failed) ==
    [c EXCEPT !.waits = c.waits \ {q}, !.reread = Reread(c, q, failed)]

\* It waits for that query no more, and has not seen it read again if it failed.
LEMMA ReleasedDescends ==
    ASSUME NEW c, CallRow(c), NEW q, NEW failed \in BOOLEAN
    PROVE  LET n == ReleasedCall(c, q, failed) IN
           /\ Descends(n, c) /\ n.phase = c.phase /\ n.waits = c.waits \ {q}
           /\ n.reread = Reread(c, q, failed)
  <1> DEFINE r == Reread(c, q, failed)
             w == c.waits \ {q}
             n == ReleasedCall(c, q, failed)
  <1>1. r \subseteq Queries(page) /\ w \subseteq Queries(page)
    BY DEF CallRow, Reread
  <1>2. n = [c EXCEPT !.waits = w, !.reread = r]
    BY DEF ReleasedCall
  <1> HIDE DEF r, w, n
  <1>3. CallRow(n) /\ SameCall(n, c) /\ n.phase = c.phase /\ n.waits = w /\ n.reread = r
    BY <1>1, <1>2 DEF CallRow, SameCall
  <1> QED BY <1>3 DEF Descends, r, w, n

\* A running read ends, well or badly.
LEMMA ReadEnds ==
    ASSUME ConsoleInv, NEW q \in DOMAIN cache, NEW failed \in BOOLEAN, Running(q),
           cache' = IF failed THEN cache ELSE [cache EXCEPT ![q] = reading[q]],
           reading' = [reading EXCEPT ![q] = NotLoaded],
           calls' = Released(q, failed),
           UNCHANGED <<page, filter, kept, drawn, data, stored, told, forgotten, revealed>>
    PROVE  ConsoleInv'
  <1>1. \A c \in calls : CallRow(c)
    BY DEF ConsoleInv, AnswersOK
  <1>2. ASSUME NEW n \in calls'
        PROVE  \E c \in calls : /\ Descends(n, c) /\ n.phase = c.phase /\ n.waits = c.waits \ {q}
                                /\ n.reread = Reread(c, q, failed)
    <2>1. PICK c \in calls : n = ReleasedCall(c, q, failed)
      BY DEF Released, ReleasedCall, Reread
    <2> QED BY <1>1, <2>1, ReleasedDescends
  <1>3. ASSUME NEW c \in calls
        PROVE  \E n \in calls' : n.key = c.key /\ n.phase = c.phase
    <2>1. ReleasedCall(c, q, failed) \in calls'
      BY DEF Released, ReleasedCall, Reread
    <2>2. Descends(ReleasedCall(c, q, failed), c) /\ ReleasedCall(c, q, failed).phase = c.phase
      BY <1>1, ReleasedDescends
    <2> QED BY <2>1, <2>2 DEF Descends, SameCall
  <1>4. data'.rev \in Nat /\ data.rev <= data'.rev
    BY DEF ConsoleInv, AnswersOK
  <1>5. KeysOK' /\ AnswersOK'
    BY <1>2, <1>4, KeysStay
  <1>6. ToldOK'
    BY <1>3, ToldStays
  <1>7. /\ q \in Queries(page)
        /\ \A x \in Queries(page) : /\ cache'[x] = IF ~failed /\ x = q THEN reading[q] ELSE cache[x]
                                    /\ reading'[x] = IF x = q THEN NotLoaded ELSE reading[x]
        /\ NotLoaded.rev \in Int
    BY DEF ConsoleInv, ScreenOK, NotLoaded
  <1>8. ScreenOK'
    <2>1. /\ cache' = [x \in Queries(page) |-> cache'[x]]
          /\ reading' = [x \in Queries(page) |-> reading'[x]]
      <3>1. reading' = [x \in DOMAIN reading |-> IF x = q THEN NotLoaded ELSE reading[x]]
        OBVIOUS
      <3>2. DOMAIN cache = Queries(page) /\ DOMAIN reading = Queries(page)
        BY DEF ConsoleInv, ScreenOK
      <3>3. CASE failed
        BY <3>1, <3>2, <3>3 DEF ConsoleInv, ScreenOK
      <3>4. CASE ~failed
        BY <3>1, <3>2, <3>4 DEF ConsoleInv, ScreenOK
      <3> QED BY <3>3, <3>4
    <2>2. \A x \in Queries(page) : cache'[x].rev \in Int /\ reading'[x].rev \in Int
      BY <1>7 DEF ConsoleInv, ScreenOK
    <2> QED BY <2>1, <2>2 DEF ConsoleInv, ScreenOK, Mounted, Queries
  <1>9. ReadsOK'
    <2>1. ASSUME NEW n \in calls', n.phase = "REFETCHING", NEW x \in n.reread
          PROVE  /\ x \in n.waits => reading'[x] # NotLoaded
                 /\ reading'[x] # NotLoaded => reading'[x].rev >= stored[n.key].rev
                 /\ x \notin n.waits => cache'[x].rev >= stored[n.key].rev
      <3>1. PICK c \in calls : /\ Descends(n, c) /\ n.phase = c.phase /\ n.waits = c.waits \ {q}
                               /\ n.reread = Reread(c, q, failed)
        BY <1>2
      <3>2. x \in c.reread /\ x \in Queries(page) /\ n.key = c.key
        BY <1>1, <3>1, <2>1 DEF Descends, CallRow, SameCall, Reread
      <3>3. ReadOK(c, x)
        BY <2>1, <3>1, <3>2 DEF ConsoleInv, ReadsOK
      <3>4. CASE x = q
        <4>1. failed => q \notin c.waits
          BY <2>1, <3>1, <3>4 DEF Reread
        <4> QED BY <1>7, <3>1, <3>2, <3>3, <3>4, <4>1 DEF ReadOK
      <3>5. CASE x # q
        BY <1>7, <3>1, <3>2, <3>3, <3>5 DEF ReadOK, Running
      <3> QED BY <3>4, <3>5
    <2> QED BY <2>1 DEF ReadsOK, ReadOK, Running
  <1> QED BY <1>5, <1>6, <1>8, <1>9 DEF ConsoleInv

\* Queries begin to be read; what a read will bring is the server's data.
LEMMA ReadsBegin ==
    ASSUME ConsoleInv, NEW qs,
           reading' = [q \in DOMAIN reading |-> IF q \in qs THEN data ELSE reading[q]]
    PROVE  /\ reading' = [q \in Queries(page) |-> reading'[q]]
           /\ \A q \in Queries(page) :
                /\ reading'[q].rev \in Int
                /\ q \in qs => reading'[q] = data /\ reading'[q] # NotLoaded
                /\ q \notin qs => reading'[q] = reading[q]
  <1>1. DOMAIN reading = Queries(page)
    BY DEF ConsoleInv, ScreenOK
  <1>2. data # NotLoaded
    BY DEF ConsoleInv, AnswersOK, NotLoaded
  <1> QED BY <1>1, <1>2 DEF ConsoleInv, ScreenOK, AnswersOK

\* What runs stays running, and what it brings grows no older.
LEMMA ReadStays ==
    ASSUME ConsoleInv, NEW c \in calls, c.phase = "REFETCHING", NEW q \in c.reread, NEW qs,
           reading' = [x \in DOMAIN reading |-> IF x \in qs THEN data ELSE reading[x]],
           UNCHANGED <<cache, stored>>
    PROVE  ReadOK(c, q)'
  <1>1. q \in Queries(page) /\ c.key \in 1 .. MaxKeys /\ stored[c.key].state = "DONE"
    BY DEF ConsoleInv, AnswersOK, CallRow
  <1>2. stored[c.key].rev \in 0 .. data.rev /\ data.rev \in Nat
    BY <1>1 DEF ConsoleInv, AnswersOK, NoAnswer
  <1>3. ReadOK(c, q)
    BY DEF ConsoleInv, ReadsOK
  <1>4. /\ q \in qs => reading'[q] = data /\ reading'[q] # NotLoaded
        /\ q \notin qs => reading'[q] = reading[q]
    BY <1>1, ReadsBegin
  <1> QED BY <1>2, <1>3, <1>4 DEF ReadOK, Running

LEMMA RefetchKeeps ==
    ASSUME ConsoleInv, Refetch
    PROVE  ConsoleInv'
  <1> DEFINE old == {q \in shown : ~Running(q) /\ cache[q] # data}
  <1>1. /\ reading' = [q \in DOMAIN reading |-> IF q \in old THEN data ELSE reading[q]]
        /\ UNCHANGED <<page, filter, cache, calls, kept, drawn, data, stored, told, forgotten, revealed>>
    BY DEF Refetch, sending, server, known
  <1> HIDE DEF old
  <1>2. \A c \in calls : Descends(c, c)
    BY DEF ConsoleInv, AnswersOK, Descends, SameCall
  <1>3. data'.rev \in Nat /\ data.rev <= data'.rev
    BY <1>1 DEF ConsoleInv, AnswersOK
  <1>4. KeysOK' /\ AnswersOK'
    BY <1>1, <1>2, <1>3, KeysStay
  <1>5. ToldOK'
    BY <1>1, ToldStays
  <1>6. ScreenOK'
    BY <1>1, ReadsBegin DEF ConsoleInv, ScreenOK, Mounted, Queries
  <1>7. ReadsOK'
    BY <1>1, ReadStays DEF ReadsOK
  <1> QED BY <1>4, <1>5, <1>6, <1>7 DEF ConsoleInv

-----------------------------------------------------------------------------
(* A call starts and is executed.                                          *)

\* The reads a command waits for, where no read begins or ends.
LEMMA ReadsStay ==
    ASSUME ConsoleInv, UNCHANGED <<page, filter, cache, reading, stored>>,
           \A n \in calls' : n.phase = "REFETCHING" =>
              \E c \in calls : /\ c.phase = "REFETCHING" /\ c.key = n.key
                               /\ c.waits = n.waits /\ c.reread = n.reread
    PROVE  ScreenOK' /\ ReadsOK'
  <1>1. ScreenOK'
    BY DEF ConsoleInv, ScreenOK, Mounted, Queries
  <1>2. ASSUME NEW n \in calls', n.phase = "REFETCHING", NEW q \in n.reread
        PROVE  ReadOK(n, q)'
    <2>1. PICK c \in calls : /\ c.phase = "REFETCHING" /\ c.key = n.key
                             /\ c.waits = n.waits /\ c.reread = n.reread
      BY <1>2
    <2>2. ReadOK(c, q)
      BY <1>2, <2>1 DEF ConsoleInv, ReadsOK
    <2> QED BY <2>1, <2>2 DEF ReadOK, Running
  <1> QED BY <1>1, <1>2 DEF ReadsOK

\* The key of an intent: the one it keeps, or one nobody has.
LEMMA KeyForType ==
    ASSUME ConsoleInv, NEW i
    PROVE  \/ KeyFor(i) \in 1 .. drawn /\ <<i, KeyFor(i)>> \in kept
           \/ KeyFor(i) = drawn + 1 /\ \A p \in kept : p[1] # i
  <1>1. CASE \E k \in 1 .. drawn : <<i, k>> \in kept
    <2> DEFINE key == CHOOSE k \in 1 .. drawn : <<i, k>> \in kept
    <2>1. key \in 1 .. drawn /\ <<i, key>> \in kept
      BY <1>1
    <2>2. KeyFor(i) = key
      BY <1>1 DEF KeyFor
    <2> HIDE DEF key
    <2> QED BY <2>1, <2>2
  <1>2. CASE ~ \E k \in 1 .. drawn : <<i, k>> \in kept
    <2>1. KeyFor(i) = drawn + 1
      BY <1>2 DEF KeyFor
    <2>2. \A p \in kept : p = <<p[1], p[2]>> /\ p[2] \in 1 .. drawn
      BY DEF ConsoleInv, KeysOK, Meant
    <2> QED BY <1>2, <2>1, <2>2
  <1> QED BY <1>1, <1>2

\* A call whose mutation another call now stands for.
Unwatched(c, do) == [c EXCEPT !.watched = c.watched /\ ~SameMutation(c.do, do)]

LEMMA UnwatchedDescends ==
    ASSUME NEW c, CallRow(c), NEW do
    PROVE  LET n == Unwatched(c, do) IN
           /\ Descends(n, c) /\ n.phase = c.phase /\ n.waits = c.waits /\ n.reread = c.reread
  <1> DEFINE w == c.watched /\ ~SameMutation(c.do, do)
             n == Unwatched(c, do)
  <1>1. n = [c EXCEPT !.watched = w]
    BY DEF Unwatched
  <1> HIDE DEF w, n
  <1>2. CallRow(n) /\ SameCall(n, c) /\ n.phase = c.phase /\ n.waits = c.waits /\ n.reread = c.reread
    BY <1>1 DEF CallRow, SameCall
  <1> QED BY <1>2 DEF Descends, n

LEMMA StartKeeps ==
    ASSUME ConsoleInv, NEW do, NEW on, NEW entry, NEW via, Start(do, on, entry, via),
           UNCHANGED <<screen, server, known>>
    PROVE  ConsoleInv'
  <1> DEFINE i == IntentOf(do, on, entry)
             key == KeyFor(i)
             n == [do |-> do, on |-> on, form |-> entry, key |-> key, via |-> via,
                   phase |-> "SENT", waits |-> {}, reread |-> {}, watched |-> TRUE]
  <1>1. /\ key <= MaxKeys
        /\ calls' = {Unwatched(c, do) : c \in calls} \cup {n}
        /\ kept' = kept \cup {<<i, key>>}
        /\ drawn' = IF key > drawn THEN key ELSE drawn
    BY DEF Start, Unwatched
  <1>2. /\ UNCHANGED <<page, filter, cache, reading, data, stored, told, forgotten, revealed>>
        /\ drawn \in Nat /\ MaxKeys \in Nat /\ drawn <= MaxKeys
    BY MaxKeysAssumption DEF screen, server, known, ConsoleInv, KeysOK
  <1>3. \/ key \in 1 .. drawn /\ <<i, key>> \in kept
        \/ key = drawn + 1 /\ \A p \in kept : p[1] # i
    BY KeyForType
  <1>4. /\ n.do = do /\ n.on = on /\ n.form = entry /\ n.key = key /\ n.phase = "SENT"
    OBVIOUS
  <1>5. key \in 1 .. MaxKeys
    BY <1>1, <1>2, <1>3
  <1>6. CallRow(n)
    BY <1>5 DEF CallRow, Phases
  <1> HIDE DEF key, n
  <1>7. CallIntent(n) = i
    BY <1>4 DEF CallIntent
  <1> HIDE DEF i
  <1>8. ASSUME NEW d \in calls', d # n
        PROVE  \E c \in calls : /\ Descends(d, c) /\ d.phase = c.phase
                                /\ d.waits = c.waits /\ d.reread = c.reread
    <2>1. PICK c \in calls : d = Unwatched(c, do)
      BY <1>1, <1>8
    <2>2. CallRow(c)
      BY DEF ConsoleInv, AnswersOK
    <2> QED BY <2>1, <2>2, UnwatchedDescends
  <1>9. ASSUME NEW c \in calls
        PROVE  \E d \in calls' : d.key = c.key /\ d.phase = c.phase
    <2>1. CallRow(c) /\ Unwatched(c, do) \in calls'
      BY <1>1 DEF ConsoleInv, AnswersOK
    <2> QED BY <2>1, UnwatchedDescends DEF Descends, SameCall
  <1>10. Meant' \subseteq Meant \cup {<<i, key>>}
    <2>1. ASSUME NEW d \in calls' PROVE <<CallIntent(d), d.key>> \in Meant \cup {<<i, key>>}
      <3>1. CASE d = n
        BY <1>4, <1>7, <3>1
      <3>2. CASE d # n
        <4>1. PICK c \in calls : Descends(d, c)
          BY <1>8, <3>2
        <4>2. CallIntent(d) = CallIntent(c) /\ d.key = c.key
          BY <4>1 DEF Descends, SameCall, CallIntent, IntentOf
        <4> QED BY <4>2 DEF Meant
      <3> QED BY <3>1, <3>2
    <2>2. Meant' = kept' \cup {<<CallIntent(c), c.key>> : c \in calls'}
                     \cup {<<IntentOf(stored[k].do, stored[k].on, stored[k].form), k>> :
                             k \in {j \in 1 .. MaxKeys : stored[j] # NoAnswer}}
      BY <1>2 DEF Meant, CallIntent, IntentOf
    <2> QED BY <1>1, <2>1, <2>2 DEF Meant
  <1>11. KeysOK'
    <2> DEFINE old == Meant
    <2>1. /\ \A p \in old : p = <<p[1], p[2]>> /\ p[2] \in 1 .. drawn
          /\ \A p, r \in old : p[2] = r[2] => p[1] = r[1]
          /\ \A p, r \in kept : p[1] = r[1] => p[2] = r[2]
          /\ kept \subseteq old
      BY DEF ConsoleInv, KeysOK, Meant
    <2> HIDE DEF old
    <2>2. Meant' \subseteq old \cup {<<i, key>>}
      BY <1>10 DEF old
    <2>3. drawn' \in 0 .. MaxKeys /\ 1 .. drawn \subseteq 1 .. drawn' /\ key \in 1 .. drawn'
          /\ \A k \in 1 .. drawn' : k \in 1 .. drawn \/ k = key
      BY <1>1, <1>2, <1>3
    <2>4. key \notin 1 .. drawn => <<i, key>> \notin kept /\ \A p \in kept : p[1] # i
      BY <1>3
    <2>5. \A p \in old : p[2] = key => p[1] = i
      <3>1. CASE key \in 1 .. drawn
        BY <1>2, <1>3, <2>1, <3>1
      <3>2. CASE key \notin 1 .. drawn
        BY <2>1, <3>2
      <3> QED BY <3>1, <3>2
    <2>6. \A p \in Meant' : p = <<p[1], p[2]>> /\ p[2] \in 1 .. drawn'
      BY <2>1, <2>2, <2>3
    <2>7. \A p, r \in Meant' : p[2] = r[2] => p[1] = r[1]
      BY <2>1, <2>2, <2>5
    <2>8. \A p \in kept : p[1] = i => p[2] = key
      <3>1. CASE key \in 1 .. drawn
        BY <1>2, <1>3, <2>1, <3>1
      <3>2. CASE key \notin 1 .. drawn
        BY <2>4, <3>2
      <3> QED BY <3>1, <3>2
    <2>9. \A p, r \in kept' : p[1] = r[1] => p[2] = r[2]
      BY <1>1, <2>1, <2>8
    <2>10. \A k \in 1 .. drawn :
             k \in told \cup forgotten \/ (\E p \in kept : p[2] = k) \/ stored[k].state = "REFUSED"
      BY DEF ConsoleInv, KeysOK
    <2>11. \A k \in 1 .. drawn' :
             k \in told \cup forgotten \/ (\E p \in kept' : p[2] = k) \/ stored[k].state = "REFUSED"
      <3>1. kept \subseteq kept' /\ <<i, key>> \in kept' /\ <<i, key>>[2] = key
        BY <1>1
      <3>2. \E p \in kept' : p[2] = key
        BY <3>1
      <3> QED BY <2>3, <2>10, <3>1, <3>2
    <2> QED BY <1>2, <2>3, <2>6, <2>7, <2>9, <2>11 DEF KeysOK
  <1>12. AnswersOK'
    <2>1. ASSUME NEW d \in calls'
          PROVE  /\ CallRow(d)
                 /\ d.phase \in {"DONE", "REFETCHING"} =>
                      Same(stored[d.key], d) /\ stored[d.key].state = "DONE"
                 /\ d.phase = "REFUSED" => stored[d.key].state = "REFUSED"
      <3>1. CASE d = n
        BY <1>4, <1>6, <3>1
      <3>2. CASE d # n
        <4>1. PICK c \in calls : Descends(d, c) /\ d.phase = c.phase
          BY <1>8, <3>2
        <4> QED BY <4>1 DEF Descends, SameCall, Same, ConsoleInv, AnswersOK
      <3> QED BY <3>1, <3>2
    <2>2. \A d \in calls' : d \in [do : {d.do}, on : {d.on}, form : {d.form}, key : 1 .. MaxKeys,
             via : {d.via}, phase : Phases, waits : SUBSET Queries(page)',
             reread : SUBSET Queries(page)', watched : {d.watched}]
      BY <1>2, <2>1 DEF CallRow, Queries
    <2> QED BY <1>2, <2>1, <2>2 DEF ConsoleInv, AnswersOK, CallRow, Same, NoAnswer
  <1>13. ToldOK'
    BY <1>2, <1>9, ToldStays
  <1>14. ScreenOK' /\ ReadsOK'
    <2>1. ASSUME NEW d \in calls', d.phase = "REFETCHING"
          PROVE  \E c \in calls : /\ c.phase = "REFETCHING" /\ c.key = d.key
                                  /\ c.waits = d.waits /\ c.reread = d.reread
      BY <1>4, <1>8, <2>1 DEF Descends, SameCall
    <2> QED BY <1>2, <2>1, ReadsStay
  <1> QED BY <1>11, <1>12, <1>13, <1>14 DEF ConsoleInv

\* A command executed, or answered from what is stored.
LEMMA ExecuteKeeps ==
    ASSUME ConsoleInv, NEW c \in calls, Execute(c)
    PROVE  ConsoleInv'
  <1> DEFINE results == Served(c.do, c.on, c.form, c.key, data.d)
             outcome == IF stored[c.key] # NoAnswer
                        THEN IF Same(stored[c.key], c) THEN stored[c.key].state ELSE "CONFLICT"
                        ELSE IF results = {} THEN "REFUSED" ELSE "DONE"
             n == [c EXCEPT !.phase = outcome]
             answer == [state |-> outcome, do |-> c.do, on |-> c.on, form |-> c.form,
                        rev |-> data'.rev]
  <1>1. /\ c.phase \in {"SENT", "ADRIFT"}
        /\ calls' \subseteq (calls \ {c}) \cup {n} /\ calls \ {c} \subseteq calls'
        /\ IF stored[c.key] # NoAnswer THEN UNCHANGED server
           ELSE /\ data' = IF results = {} THEN data
                           ELSE [d |-> CHOOSE d \in results : TRUE, rev |-> data.rev + 1]
                /\ stored' = [stored EXCEPT ![c.key] = answer]
        /\ UNCHANGED <<page, filter, cache, reading, kept, drawn, told, forgotten, revealed>>
    BY DEF Execute, screen, known
  <1>2. /\ CallRow(c) /\ c.key \in 1 .. MaxKeys /\ c.key \in 1 .. drawn
        /\ \A k \in 1 .. MaxKeys :
             \/ stored[k] = NoAnswer
             \/ stored[k].state \in {"DONE", "REFUSED"} /\ stored[k].rev \in 0 .. data.rev
        /\ data.rev \in Nat /\ DOMAIN stored = 1 .. MaxKeys
        /\ stored = [k \in 1 .. MaxKeys |-> stored[k]]
    <2>1. <<CallIntent(c), c.key>> \in Meant
      BY DEF Meant
    <2> QED BY <2>1 DEF ConsoleInv, AnswersOK, CallRow, KeysOK
  <1>3. outcome \in {"DONE", "REFUSED", "CONFLICT"}
    BY <1>2
  <1>4. data'.rev \in Nat /\ data.rev <= data'.rev
    BY <1>1, <1>2 DEF server
  <1>5. stored[c.key] = NoAnswer =>
          /\ stored'[c.key] = answer /\ outcome \in {"DONE", "REFUSED"}
          /\ \A k \in 1 .. MaxKeys : k # c.key => stored'[k] = stored[k]
          /\ stored' = [k \in 1 .. MaxKeys |-> stored'[k]]
    BY <1>1, <1>2
  <1>6. stored[c.key] # NoAnswer =>
          /\ stored' = stored
          /\ outcome = IF Same(stored[c.key], c) THEN stored[c.key].state ELSE "CONFLICT"
    BY <1>1 DEF server
  <1> HIDE DEF results, outcome
  <1>7. /\ n.phase = outcome /\ SameCall(n, c) /\ CallRow(n)
    BY <1>2, <1>3 DEF CallRow, SameCall, Phases
  <1>8. /\ answer.state = outcome /\ answer.do = c.do /\ answer.on = c.on /\ answer.form = c.form
        /\ answer.rev = data'.rev
    OBVIOUS
  <1> HIDE DEF n, answer
  <1>9. answer # NoAnswer
    BY <1>3, <1>8 DEF NoAnswer
  <1>10. \A k \in 1 .. MaxKeys : stored[k] # NoAnswer => stored'[k] = stored[k]
    BY <1>5, <1>6
  <1>11. Meant' \subseteq Meant
    <2>1. ASSUME NEW d \in calls' PROVE <<CallIntent(d), d.key>> \in Meant
      <3>1. CASE d = n
        <4>1. CallIntent(d) = CallIntent(c) /\ d.key = c.key
          BY <1>7, <3>1 DEF SameCall, CallIntent, IntentOf
        <4> QED BY <4>1 DEF Meant
      <3>2. CASE d # n
        BY <1>1, <3>2 DEF Meant
      <3> QED BY <3>1, <3>2
    <2>2. ASSUME NEW k \in 1 .. MaxKeys, stored'[k] # NoAnswer
          PROVE  <<IntentOf(stored'[k].do, stored'[k].on, stored'[k].form), k>> \in Meant
      <3>1. CASE stored[k] # NoAnswer
        BY <1>10, <3>1 DEF Meant
      <3>2. CASE stored[k] = NoAnswer
        <4>1. k = c.key /\ stored'[k] = answer
          BY <1>5, <1>6, <2>2, <3>2
        <4> QED BY <1>8, <4>1 DEF Meant, CallIntent
      <3> QED BY <3>1, <3>2
    <2>3. Meant' = kept \cup {<<CallIntent(d), d.key>> : d \in calls'}
                     \cup {<<IntentOf(stored'[k].do, stored'[k].on, stored'[k].form), k>> :
                             k \in {j \in 1 .. MaxKeys : stored'[j] # NoAnswer}}
      BY <1>1 DEF Meant, CallIntent, IntentOf, NoAnswer
    <2> QED BY <2>1, <2>2, <2>3 DEF Meant
  <1>12. KeysOK'
    <2> DEFINE old == Meant
    <2>1. /\ drawn \in 0 .. MaxKeys
          /\ \A p \in old : p = <<p[1], p[2]>> /\ p[2] \in 1 .. drawn
          /\ \A p, r \in old : p[2] = r[2] => p[1] = r[1]
          /\ \A p, r \in kept : p[1] = r[1] => p[2] = r[2]
      BY DEF ConsoleInv, KeysOK
    <2>2. ASSUME NEW k \in 1 .. drawn
          PROVE  \/ k \in told \cup forgotten
                 \/ \E p \in kept : p[2] = k
                 \/ stored'[k].state = "REFUSED"
      <3>1. k \in 1 .. MaxKeys
        BY <2>1, MaxKeysAssumption
      <3>2. stored[k].state = "REFUSED" => stored'[k].state = "REFUSED"
        BY <1>10, <3>1 DEF NoAnswer
      <3> QED BY <3>2 DEF ConsoleInv, KeysOK
    <2> HIDE DEF old
    <2>3. Meant' \subseteq old
      BY <1>11 DEF old
    <2> QED BY <1>1, <2>1, <2>2, <2>3 DEF KeysOK
  <1>13. AnswersOK'
    <2>1. ASSUME NEW k \in 1 .. MaxKeys
          PROVE  \/ stored'[k] = NoAnswer
                 \/ stored'[k].state \in {"DONE", "REFUSED"} /\ stored'[k].rev \in 0 .. data'.rev
      <3>1. CASE stored[k] # NoAnswer
        BY <1>2, <1>4, <1>10, <3>1
      <3>2. CASE stored[k] = NoAnswer
        <4>1. k # c.key => stored'[k] = stored[k]
          BY <1>5, <1>6
        <4>2. k = c.key => stored'[k] = answer /\ outcome \in {"DONE", "REFUSED"}
          BY <1>5, <3>2
        <4> QED BY <1>4, <1>8, <3>2, <4>1, <4>2
      <3> QED BY <3>1, <3>2
    <2>2. ASSUME NEW d \in calls'
          PROVE  /\ CallRow(d)
                 /\ d.phase \in {"DONE", "REFETCHING"} =>
                      Same(stored'[d.key], d) /\ stored'[d.key].state = "DONE"
                 /\ d.phase = "REFUSED" => stored'[d.key].state = "REFUSED"
      <3>1. CASE d = n
        <4>1. CASE stored[c.key] = NoAnswer
          BY <1>5, <1>7, <1>8, <3>1, <4>1 DEF SameCall, Same
        <4>2. CASE stored[c.key] # NoAnswer
          BY <1>2, <1>6, <1>7, <3>1, <4>2 DEF SameCall, Same
        <4> QED BY <4>1, <4>2
      <3>2. CASE d # n
        <4>1. d \in calls
          BY <1>1, <3>2
        <4>2. /\ CallRow(d)
              /\ d.phase \in {"DONE", "REFETCHING"} =>
                   Same(stored[d.key], d) /\ stored[d.key].state = "DONE"
              /\ d.phase = "REFUSED" => stored[d.key].state = "REFUSED"
          BY <4>1 DEF ConsoleInv, AnswersOK
        <4>3. d.key \in 1 .. MaxKeys
          BY <4>2 DEF CallRow
        <4>4. stored[d.key].state \in {"DONE", "REFUSED"} => stored'[d.key] = stored[d.key]
          BY <1>10, <4>3 DEF NoAnswer
        <4> QED BY <4>2, <4>4
      <3> QED BY <3>1, <3>2
    <2>3. \A d \in calls' : d \in [do : {d.do}, on : {d.on}, form : {d.form}, key : 1 .. MaxKeys,
             via : {d.via}, phase : Phases, waits : SUBSET Queries(page)',
             reread : SUBSET Queries(page)', watched : {d.watched}]
      BY <1>1, <2>2 DEF CallRow, Queries
    <2>4. stored' = [k \in 1 .. MaxKeys |-> stored'[k]]
      BY <1>2, <1>5, <1>6
    <2> QED BY <1>4, <2>1, <2>2, <2>3, <2>4 DEF AnswersOK, CallRow, Same, NoAnswer
  <1>14. ToldOK'
    <2>1. ASSUME NEW k \in told
          PROVE  /\ k \in 1 .. MaxKeys /\ stored'[k] # NoAnswer
                 /\ stored'[k].do \in Secretive =>
                      \/ k \in revealed \cup forgotten
                      \/ \E d \in calls' : d.key = k /\ d.phase = "REFETCHING"
      <3>1. k \in 1 .. MaxKeys /\ stored'[k] = stored[k] /\ stored[k] # NoAnswer
        BY <1>10 DEF ConsoleInv, ToldOK
      <3>2. \A d \in calls : d.phase = "REFETCHING" => d \in calls'
        BY <1>1
      <3> QED BY <3>1, <3>2 DEF ConsoleInv, ToldOK
    <2> QED BY <1>1, <2>1 DEF ToldOK, NoAnswer
  <1>15. ScreenOK'
    BY <1>1 DEF ConsoleInv, ScreenOK, Mounted, Queries
  <1>16. ReadsOK'
    <2>1. ASSUME NEW d \in calls', d.phase = "REFETCHING", NEW q \in d.reread
          PROVE  ReadOK(d, q)'
      <3>1. d \in calls
        BY <1>1, <1>3, <1>7, <2>1
      <3>2. d.key \in 1 .. MaxKeys /\ stored[d.key].state = "DONE"
        BY <2>1, <3>1 DEF ConsoleInv, AnswersOK, CallRow
      <3>3. stored'[d.key] = stored[d.key]
        BY <1>10, <3>2 DEF NoAnswer
      <3>4. ReadOK(d, q)
        BY <2>1, <3>1 DEF ConsoleInv, ReadsOK
      <3> QED BY <1>1, <3>3, <3>4 DEF ReadOK, Running
    <2> QED BY <2>1 DEF ReadsOK
  <1> QED BY <1>12, <1>13, <1>14, <1>15, <1>16 DEF ConsoleInv

\* Another operator's command: the data is younger.
LEMMA OthersChangeKeeps ==
    ASSUME ConsoleInv, OthersChange
    PROVE  ConsoleInv'
  <1>1. /\ data'.rev = data.rev + 1
        /\ UNCHANGED <<page, filter, cache, reading, calls, kept, drawn, stored, told, forgotten, revealed>>
    BY DEF OthersChange, screen, sending, known
  <1>2. data'.rev \in Nat /\ data.rev <= data'.rev
    BY <1>1 DEF ConsoleInv, AnswersOK
  <1>3. \A c \in calls : Descends(c, c)
    BY DEF ConsoleInv, AnswersOK, Descends, SameCall
  <1>4. KeysOK' /\ AnswersOK'
    BY <1>1, <1>2, <1>3, KeysStay
  <1>5. ToldOK' /\ ScreenOK' /\ ReadsOK'
    BY <1>1, ToldStays, ReadsStay
  <1> QED BY <1>4, <1>5 DEF ConsoleInv

-----------------------------------------------------------------------------
(* Answers.                                                                *)

\* The keys an answer drops are those of the call's intent.
LEMMA Dropped ==
    ASSUME ConsoleInv, NEW c, DropKey(c)
    PROVE  /\ kept' \subseteq kept
           /\ \A p \in kept \ kept' : p[2] \in KeysOf(CallIntent(c))
  <1>1. kept' \subseteq kept
    BY DEF DropKey
  <1>2. ASSUME NEW p \in kept, p \notin kept'
        PROVE  p[2] \in KeysOf(CallIntent(c))
    <2>1. p = <<p[1], p[2]>> /\ p[2] \in 1 .. drawn
      BY DEF ConsoleInv, KeysOK, Meant
    <2>2. p[1] = CallIntent(c)
      BY <1>2 DEF DropKey
    <2> QED BY <2>1, <2>2 DEF KeysOf
  <1> QED BY <1>1, <1>2

LEMMA AnswerOKKeeps ==
    ASSUME ConsoleInv, NEW c \in calls, AnswerOK(c)
    PROVE  ConsoleInv'
  <1> DEFINE qs == Invalidated(page, filter)
             again == qs \ Joined(qs)
             n == [c EXCEPT !.phase = "REFETCHING", !.waits = qs, !.reread = again]
  <1>1. /\ c.phase = "DONE" /\ DropKey(c)
        /\ told' = told \cup {c.key}
        /\ forgotten' = forgotten \cup (KeysOf(CallIntent(c)) \ told')
        /\ reading' = [q \in DOMAIN reading |-> IF q \in again THEN data ELSE reading[q]]
        /\ calls' = (calls \ {c}) \cup {n}
        /\ UNCHANGED <<page, filter, cache, drawn, data, stored, revealed>>
    BY DEF AnswerOK, InvalidateQueries, server
  <1>2. /\ CallRow(c) /\ c.key \in 1 .. MaxKeys /\ stored[c.key].state = "DONE"
        /\ stored[c.key] # NoAnswer
        /\ stored[c.key].rev \in 0 .. data.rev /\ data.rev \in Nat
    <2>1. CallRow(c) /\ stored[c.key].state = "DONE" /\ data.rev \in Nat
      BY <1>1 DEF ConsoleInv, AnswersOK
    <2>2. c.key \in 1 .. MaxKeys
      BY <2>1 DEF CallRow
    <2>3. stored[c.key] # NoAnswer
      BY <2>1 DEF NoAnswer
    <2> QED BY <2>1, <2>2, <2>3 DEF ConsoleInv, AnswersOK
  <1>3. qs \subseteq Queries(page) /\ again \subseteq qs
    BY DEF Invalidated, ConsoleInv, ScreenOK
  <1> HIDE DEF qs, again
  <1>4. /\ n.phase = "REFETCHING" /\ n.waits = qs /\ n.reread = again /\ SameCall(n, c) /\ CallRow(n)
    BY <1>2, <1>3 DEF CallRow, SameCall, Phases
  <1> HIDE DEF n
  <1>5. Descends(n, c)
    BY <1>1, <1>4 DEF Descends
  <1>6. \A d \in calls' : \E e \in calls : Descends(d, e)
    BY <1>1, <1>5 DEF ConsoleInv, AnswersOK, Descends, SameCall
  <1>7. data'.rev \in Nat /\ data.rev <= data'.rev
    BY <1>1, <1>2
  <1>8. kept' \subseteq kept /\ \A p \in kept \ kept' : p[2] \in told' \cup forgotten'
    BY <1>1, Dropped
  <1>9. KeysOK' /\ AnswersOK'
    BY <1>1, <1>6, <1>7, <1>8, KeysStay
  <1>10. ToldOK'
    <2>1. n \in calls' /\ n.key = c.key
      BY <1>1, <1>4 DEF SameCall
    <2>2. \A d \in calls : d.phase = "REFETCHING" => d \in calls'
      BY <1>1
    <2>3. ASSUME NEW k \in told'
          PROVE  /\ k \in 1 .. MaxKeys /\ stored[k] # NoAnswer
                 /\ stored[k].do \in Secretive =>
                      \/ k \in revealed \cup forgotten'
                      \/ \E d \in calls' : d.key = k /\ d.phase = "REFETCHING"
      <3>1. CASE k = c.key
        BY <1>2, <1>4, <2>1, <3>1
      <3>2. CASE k \in told
        BY <1>1, <2>2, <3>2 DEF ConsoleInv, ToldOK
      <3> QED BY <1>1, <3>1, <3>2
    <2> QED BY <1>1, <2>3 DEF ToldOK, NoAnswer
  <1>11. ScreenOK'
    BY <1>1, ReadsBegin DEF ConsoleInv, ScreenOK, Mounted, Queries
  <1>12. ReadsOK'
    <2>1. ASSUME NEW d \in calls', d.phase = "REFETCHING", NEW q \in d.reread
          PROVE  ReadOK(d, q)'
      <3>1. CASE d = n
        <4>1. q \in again /\ q \in Queries(page) /\ q \in d.waits /\ d.key = c.key
          BY <1>3, <1>4, <2>1, <3>1 DEF SameCall
        <4>2. reading'[q] = data /\ reading'[q] # NotLoaded
          BY <1>1, <4>1, ReadsBegin
        <4> QED BY <1>1, <1>2, <4>1, <4>2 DEF ReadOK, Running
      <3>2. CASE d # n
        BY <1>1, <2>1, <3>2, ReadStays
      <3> QED BY <3>1, <3>2
    <2> QED BY <2>1 DEF ReadsOK
  <1> QED BY <1>9, <1>10, <1>11, <1>12 DEF ConsoleInv

\* Calls that end, or drift, while the rest stay as they are.
LEMMA CallsLeave ==
    ASSUME ConsoleInv, UNCHANGED <<page, filter, cache, reading, drawn, data, stored, told>>,
           \A n \in calls' : n \in calls \/ \E c \in calls : Descends(n, c) /\ n.phase = "ADRIFT",
           kept' \subseteq kept, forgotten \subseteq forgotten', revealed \subseteq revealed',
           \A p \in kept \ kept' :
              p[2] \in told \cup forgotten' \/ stored[p[2]].state = "REFUSED",
           \A c \in calls \ calls' : c.phase = "REFETCHING" =>
              c.key \in forgotten' \/ (c.do \in Secretive => c.key \in revealed')
    PROVE  ConsoleInv'
  <1>1. \A n \in calls' : \E c \in calls : Descends(n, c)
    BY DEF ConsoleInv, AnswersOK, Descends, SameCall
  <1>2. data'.rev \in Nat /\ data.rev <= data'.rev
    BY DEF ConsoleInv, AnswersOK
  <1>3. KeysOK' /\ AnswersOK'
    BY <1>1, <1>2, KeysStay
  <1>4. ToldOK'
    BY ToldStays
  <1>5. ScreenOK' /\ ReadsOK'
    BY ReadsStay
  <1> QED BY <1>3, <1>4, <1>5 DEF ConsoleInv

LEMMA SettleKeeps ==
    ASSUME ConsoleInv, NEW c \in calls, Settle(c)
    PROVE  ConsoleInv'
  <1>1. /\ calls' = calls \ {c}
        /\ revealed' = IF c.do \in Secretive THEN revealed \cup {c.key} ELSE revealed
        /\ UNCHANGED <<page, filter, cache, reading, kept, drawn, data, stored, told, forgotten>>
    BY DEF Settle, server
  <1> QED BY <1>1, CallsLeave

LEMMA AnswerRefusedKeeps ==
    ASSUME ConsoleInv, NEW c \in calls, AnswerRefused(c)
    PROVE  ConsoleInv'
  <1>1. /\ c.phase \in {"REFUSED", "CONFLICT"} /\ DropKey(c)
        /\ forgotten' = forgotten \cup
              (KeysOf(CallIntent(c)) \ IF c.phase = "REFUSED" THEN told \cup {c.key} ELSE told)
        /\ calls' = calls \ {c}
        /\ UNCHANGED <<page, filter, cache, reading, drawn, data, stored, told, revealed>>
    BY DEF AnswerRefused, screen, server
  <1>2. c.phase = "REFUSED" => stored[c.key].state = "REFUSED"
    BY DEF ConsoleInv, AnswersOK
  <1>3. kept' \subseteq kept /\ \A p \in kept \ kept' : p[2] \in KeysOf(CallIntent(c))
    BY <1>1, Dropped
  <1>4. \A p \in kept \ kept' : p[2] \in told \cup forgotten' \/ stored[p[2]].state = "REFUSED"
    BY <1>1, <1>2, <1>3
  <1> QED BY <1>1, <1>3, <1>4, CallsLeave

\* A call nobody listens to any more.
Adrift(c) == [c EXCEPT !.phase = "ADRIFT", !.watched = FALSE]

LEMMA AdriftDescends ==
    ASSUME NEW c, CallRow(c)
    PROVE  Descends(Adrift(c), c) /\ Adrift(c).phase = "ADRIFT"
  BY DEF Adrift, Descends, CallRow, SameCall, Phases

LEMMA CutOffCalls ==
    ASSUME ConsoleInv, NEW c, Answerable(c), CutOff(c)
    PROVE  /\ \A n \in calls' : n \in calls \/ \E d \in calls : Descends(n, d) /\ n.phase = "ADRIFT"
           /\ \A d \in calls \ calls' : d.phase # "REFETCHING"
  <1>1. c \in calls /\ c.phase # "REFETCHING"
    BY DEF Answerable
  <1>2. CallRow(c)
    BY <1>1 DEF ConsoleInv, AnswersOK
  <1>3. calls' \subseteq (calls \ {c}) \cup {Adrift(c)} /\ calls \ {c} \subseteq calls'
    BY DEF CutOff, Adrift
  <1> QED BY <1>1, <1>2, <1>3, AdriftDescends

LEMMA GatewayErrorKeeps ==
    ASSUME ConsoleInv, NEW c \in calls, GatewayError(c)
    PROVE  ConsoleInv'
  <1>1. /\ Answerable(c) /\ CutOff(c) /\ DropKey(c)
        /\ forgotten' = forgotten \cup (KeysOf(CallIntent(c)) \ told)
        /\ UNCHANGED <<page, filter, cache, reading, drawn, data, stored, told, revealed>>
    BY DEF GatewayError, screen, server
  <1>2. kept' \subseteq kept /\ \A p \in kept \ kept' : p[2] \in told \cup forgotten'
    BY <1>1, Dropped
  <1>3. /\ \A n \in calls' : n \in calls \/ \E d \in calls : Descends(n, d) /\ n.phase = "ADRIFT"
        /\ \A d \in calls \ calls' : d.phase # "REFETCHING"
    BY <1>1, CutOffCalls
  <1> QED BY <1>1, <1>2, <1>3, CallsLeave

LEMMA LostKeeps ==
    ASSUME ConsoleInv, NEW c \in calls, Lost(c)
    PROVE  ConsoleInv'
  <1>1. /\ Answerable(c) /\ CutOff(c)
        /\ UNCHANGED <<page, filter, cache, reading, kept, drawn, data, stored, told, forgotten, revealed>>
    BY DEF Lost, screen, server, known
  <1>2. /\ \A n \in calls' : n \in calls \/ \E d \in calls : Descends(n, d) /\ n.phase = "ADRIFT"
        /\ \A d \in calls \ calls' : d.phase # "REFETCHING"
    BY <1>1, CutOffCalls
  <1> QED BY <1>1, <1>2, CallsLeave

LEMMA LeaveKeeps ==
    ASSUME ConsoleInv, Leave
    PROVE  ConsoleInv'
  <1>1. /\ kept' = {}
        /\ forgotten' = forgotten \cup {p[2] : p \in kept} \cup {c.key : c \in calls}
        /\ calls' = {Adrift(c) : c \in {x \in calls : x.phase \in {"SENT", "ADRIFT"}}}
        /\ UNCHANGED <<page, filter, cache, reading, drawn, data, stored, told, revealed>>
    BY DEF Leave, Adrift, server
  <1>2. \A n \in calls' : \E d \in calls : Descends(n, d) /\ n.phase = "ADRIFT"
    BY <1>1, AdriftDescends DEF ConsoleInv, AnswersOK
  <1> QED BY <1>1, <1>2, CallsLeave

-----------------------------------------------------------------------------
LEMMA ConsoleInitially == Init => ConsoleInv
  <1> SUFFICES ASSUME Init PROVE ConsoleInv
    OBVIOUS
  <1>1. page \in Pages
    BY ConsoleAssumption DEF Init
  <1>2. ScreenOK
    <2>1. Mounted(page, filter) \subseteq Queries(page)
      BY DEF Init, Mounted, Queries
    <2>2. \A q \in Queries(page) : cache[q] = NotLoaded /\ reading[q] = NotLoaded
      BY DEF Init
    <2>3. NotLoaded.rev \in Int
      BY DEF NotLoaded
    <2> QED BY <2>1, <2>2, <2>3 DEF Init, ScreenOK
  <1>3. KeysOK
    <2>1. Meant = {}
      BY DEF Init, Meant
    <2> QED BY <2>1, MaxKeysAssumption DEF Init, KeysOK
  <1>4. AnswersOK
    BY DEF Init, AnswersOK
  <1>5. ToldOK /\ ReadsOK
    BY DEF Init, ToldOK, ReadsOK
  <1> QED BY <1>2, <1>3, <1>4, <1>5 DEF ConsoleInv

LEMMA ConsoleStep == ConsoleInv /\ [Next]_vars => ConsoleInv'
  <1> SUFFICES ASSUME ConsoleInv, [Next]_vars PROVE ConsoleInv'
    OBVIOUS
  <1>0. Mounted(page, filter) \subseteq Queries(page)
    BY DEF ConsoleInv, ScreenOK
  <1>1. CASE UNCHANGED vars
    BY <1>0, <1>1, ScreenChanges DEF vars, screen
  <1>2. ASSUME NEW q \in DOMAIN cache, FetchArrives(q) PROVE ConsoleInv'
    BY <1>2, ReadEnds DEF FetchArrives, server, known
  <1>3. ASSUME NEW q \in DOMAIN cache, FetchFails(q) PROVE ConsoleInv'
    BY <1>3, ReadEnds DEF FetchFails, server, known
  <1>4. ASSUME NEW f \in Filters(page), SetFilter(f) PROVE ConsoleInv'
    <2>1. Mounted(page, f) \subseteq Queries(page)
      BY <1>4 DEF Filters, Mounted, Queries
    <2> QED BY <1>4, <2>1, ScreenChanges DEF SetFilter
  <1>5. ASSUME NEW b \in Offered, Ask(b) PROVE ConsoleInv'
    BY <1>0, <1>5, ScreenChanges DEF Ask
  <1>6. CASE Dismiss \/ CloseSecret
    BY <1>0, <1>6, ScreenChanges DEF Dismiss, CloseSecret
  <1>7. ASSUME NEW b \in Offered, NEW entry \in Forms(b.do), Click(b, entry) PROVE ConsoleInv'
    BY <1>7, StartKeeps DEF Click
  <1>8. ASSUME NEW entry \in {"FIRST", "SECOND"}, Confirm(entry) PROVE ConsoleInv'
    BY <1>8, StartKeeps DEF Confirm
  <1>9. ASSUME NEW c \in calls,
               \/ Execute(c) \/ AnswerOK(c) \/ AnswerRefused(c) \/ Settle(c)
               \/ GatewayError(c) \/ Lost(c)
        PROVE  ConsoleInv'
    BY <1>9, ExecuteKeeps, AnswerOKKeeps, AnswerRefusedKeeps, SettleKeeps, GatewayErrorKeeps,
       LostKeeps
  <1> QED BY <1>1, <1>2, <1>3, <1>4, <1>5, <1>6, <1>7, <1>8, <1>9, RefetchKeeps,
          OthersChangeKeeps, LeaveKeeps DEF Next

\* A lost answer, a second click or a row's own button never does the work twice,
\* whatever the page, its queries and its commands.
THEOREM IntentsTakeEffectOnce == Spec => []OneEffectPerIntent
  <1>1. ASSUME ConsoleInv PROVE OneEffectPerIntent
    <2> SUFFICES ASSUME NEW j \in Done, NEW k \in Done, j # k,
                        stored[j].do = stored[k].do /\ stored[j].on = stored[k].on
                          /\ stored[j].form = stored[k].form,
                        {j, k} \cap (told \cup forgotten) = {}
                 PROVE  FALSE
      BY DEF OneEffectPerIntent
    <2> DEFINE i == IntentOf(stored[k].do, stored[k].on, stored[k].form)
    <2>1. /\ j \in 1 .. MaxKeys /\ k \in 1 .. MaxKeys
          /\ stored[j].state = "DONE" /\ stored[k].state = "DONE"
          /\ stored[j] # NoAnswer /\ stored[k] # NoAnswer
      BY DEF Done, NoAnswer
    <2>2. <<i, j>> \in Meant /\ <<i, k>> \in Meant
      BY <2>1 DEF Meant, IntentOf
    <2>3. j \in 1 .. drawn /\ k \in 1 .. drawn
      BY <1>1, <2>2 DEF ConsoleInv, KeysOK
    <2>4. PICK p \in kept : p[2] = j
      BY <1>1, <2>1, <2>3 DEF ConsoleInv, KeysOK
    <2>5. PICK r \in kept : r[2] = k
      BY <1>1, <2>1, <2>3 DEF ConsoleInv, KeysOK
    <2> HIDE DEF i
    <2>6. p \in Meant /\ r \in Meant
      BY DEF Meant
    <2>7. p[1] = i /\ r[1] = i
      BY <1>1, <2>2, <2>4, <2>5, <2>6 DEF ConsoleInv, KeysOK
    <2> QED BY <1>1, <2>4, <2>5, <2>7 DEF ConsoleInv, KeysOK
  <1> QED BY <1>1, ConsoleInitially, ConsoleStep, PTL DEF Spec

\* A secret the server has made comes up, is on its way, or can be asked for again.
THEOREM SecretsComeUp == Spec => []SecretsAreAccounted
  <1>1. ASSUME ConsoleInv PROVE SecretsAreAccounted
    <2> SUFFICES ASSUME NEW k \in Done, stored[k].do \in Secretive
                 PROVE  \/ k \in revealed \cup forgotten
                        \/ \E c \in calls : c.key = k /\ c.phase # "ADRIFT"
                        \/ \E p \in kept : p[2] = k
      BY DEF SecretsAreAccounted
    <2>1. k \in 1 .. MaxKeys /\ stored[k].state = "DONE" /\ stored[k] # NoAnswer
      BY DEF Done, NoAnswer
    <2>2. <<IntentOf(stored[k].do, stored[k].on, stored[k].form), k>> \in Meant
      BY <2>1 DEF Meant
    <2>3. k \in 1 .. drawn
      BY <1>1, <2>2 DEF ConsoleInv, KeysOK
    <2>4. k \in told \cup forgotten \/ \E p \in kept : p[2] = k
      BY <1>1, <2>1, <2>3 DEF ConsoleInv, KeysOK
    <2>5. k \in told => k \in revealed \cup forgotten
                          \/ \E c \in calls : c.key = k /\ c.phase = "REFETCHING"
      BY <1>1 DEF ConsoleInv, ToldOK
    <2> QED BY <2>4, <2>5
  <1> QED BY <1>1, ConsoleInitially, ConsoleStep, PTL DEF Spec

\* When a command's result comes up, what it has made the page read again is shown as it
\* is since the command.
THEOREM ResultsAreRefetched == Spec => []RefetchedBeforeShown
  <1>1. ConsoleInv => RefetchedBeforeShown
    BY DEF ConsoleInv, ReadsOK, ReadOK, RefetchedBeforeShown
  <1> QED BY <1>1, ConsoleInitially, ConsoleStep, PTL DEF Spec

-----------------------------------------------------------------------------
(* The floor-plan builder.                                                 *)

BuilderSpec == BuilderInit /\ [][BuilderNext]_builderVars

AnyKey == {a.key : a \in UNION Drafts} \cup (Palette \X (1 .. MaxObjects + 1))
AnyName == {a.name : a \in UNION Drafts} \cup Names
AreaRow == [key : AnyKey, type : Kinds, name : AnyName, places : PlacesRow]
ObjectRow ==
    [key : AnyKey, type : Kinds, name : AnyName, amount : Nat, preserved : BOOLEAN,
     structural : PlacesRow]

\* An area of a plan, and a body that can be one.
AreaOK(a) == a \in AreaRow /\ HasItsPlaces(a)
PlanOK(areas) ==
    IsFiniteSet(areas) /\ (\A a \in areas : AreaOK(a))
        /\ \A a, b \in areas : a.key = b.key => a = b
BodyOK(body) ==
    /\ body \in Seq(AreaRow)
    /\ \A i \in 1 .. Len(body) : HasItsPlaces(body[i])
    /\ \A i, j \in 1 .. Len(body) : i # j => body[i].key # body[j].key

SaveRow ==
    [id : {1, 2}, does : {"SAVE", "PUBLISH"}, step : {"REPLACE", "PUBLISH"},
     body : Seq(AreaRow), key : 1 .. MaxSaves, answer : {"NONE", "DONE", "REFUSED"}]

ObjectOK(o) == o.structural = NoPlaces \/ o.structural.by # "NOBODY"
ObjectsOK(os) ==
    /\ os \in Seq(ObjectRow)
    /\ \A i \in 1 .. Len(os) : ObjectOK(os[i])
    /\ \A i, j \in 1 .. Len(os) : i # j => os[i].key # os[j].key

\* An object that still is the area it was loaded from.
Untouched(o, a) ==
    /\ o.type = a.type /\ o.structural = a.places
    /\ o.amount = IF a.places.uniform THEN a.places.amount ELSE 0

\* What was loaded and not changed since is there, and untouched.
KeptOK(os, from, changed) ==
    /\ \A i \in 1 .. Len(os) : \A a \in from :
         os[i].key = a.key /\ a.key \notin changed => Untouched(os[i], a)
    /\ \A a \in from : a.key \in changed \/ \E i \in 1 .. Len(os) : os[i].key = a.key

\* What is shown is what was sent, and what was answered is what the server has.
CleanOK ==
    opened /\ ~excused =>
        /\ ~dirty => ToSet(toLayout(objects)) = draft
        /\ \A c \in saves : c.step = "REPLACE" =>
             c.body = toLayout(objects) /\ (c.answer = "DONE" => draft = ToSet(c.body))

BuilderInv ==
    /\ opened \in BOOLEAN /\ dirty \in BOOLEAN /\ excused \in BOOLEAN
    /\ ObjectsOK(objects)
    /\ saves \subseteq SaveRow /\ \A c \in saves : BodyOK(c.body)
    /\ saveKeys \in Nat
    /\ outcomes \in [1 .. MaxSaves -> {"NONE", "DONE", "REFUSED"}]
    /\ PlanOK(draft) /\ PlanOK(loaded)
    /\ KeptOK(objects, loaded, reshaped)
    /\ CleanOK

-----------------------------------------------------------------------------
\* A finite set as a sequence: every element once.
LEMMA SetToSeqLists ==
    ASSUME NEW S, IsFiniteSet(S)
    PROVE  /\ SetToSeq(S) \in Seq(S)
           /\ \A i, j \in 1 .. Len(SetToSeq(S)) : i # j => SetToSeq(S)[i] # SetToSeq(S)[j]
           /\ \A x \in S : \E i \in 1 .. Len(SetToSeq(S)) : SetToSeq(S)[i] = x
  <1> DEFINE n == Cardinality(S)
  <1>1. n \in Nat /\ ExistsBijection(1 .. n, S)
    BY FS_CardinalityType
  <1>2. PICK f : f \in Bijection(1 .. n, S)
    BY <1>1 DEF ExistsBijection
  <1>3. f \in [1 .. n -> S] /\ IsInjective(f)
    BY <1>2 DEF Bijection, Injection, Surjection, IsInjective
  <1>4. SetToSeq(S) \in [1 .. n -> S] /\ IsInjective(SetToSeq(S))
    BY <1>3 DEF SetToSeq
  <1>5. SetToSeq(S) \in Injection(1 .. n, S)
    BY <1>4 DEF Injection, IsInjective
  <1>6. Cardinality(1 .. n) = n
    BY <1>1, FS_Interval
  <1>7. SetToSeq(S) \in Surjection(1 .. n, S)
    BY <1>5, <1>6, FS_Injection
  <1>8. \A x \in S : \E i \in 1 .. n : SetToSeq(S)[i] = x
    BY <1>7 DEF Surjection
  <1>9. SetToSeq(S) \in Seq(S) /\ Len(SetToSeq(S)) = n
    BY <1>1, <1>4
  <1> QED BY <1>4, <1>8, <1>9 DEF IsInjective

\* The first key of a name is free, as long as the floor plan has room.
LEMMA FreshKey ==
    ASSUME NEW os \in Seq(ObjectRow), Len(os) < MaxObjects, NEW base
    PROVE  stableKey(base, KeysIn(os)) \in {base} \X (1 .. MaxObjects + 1)
           /\ stableKey(base, KeysIn(os)) \notin KeysIn(os)
  <1> DEFINE taken == {n \in 1 .. MaxObjects + 1 : <<base, n>> \in KeysIn(os)}
  <1>0. MaxObjects \in Nat /\ Len(os) \in Nat /\ DOMAIN os = 1 .. Len(os)
    BY BuilderAssumption
  <1>1. \E n \in 1 .. MaxObjects + 1 : <<base, n>> \notin KeysIn(os)
    <2>1. SUFFICES ASSUME \A n \in 1 .. MaxObjects + 1 : <<base, n>> \in KeysIn(os)
                   PROVE  FALSE
      OBVIOUS
    <2>2. \A n \in 1 .. MaxObjects + 1 : \E i \in 1 .. Len(os) : os[i].key = <<base, n>>
      BY <1>0, <2>1 DEF KeysIn
    <2> DEFINE f == [n \in 1 .. MaxObjects + 1 |->
                        CHOOSE i \in 1 .. Len(os) : os[i].key = <<base, n>>]
    <2>3. \A n \in 1 .. MaxObjects + 1 : f[n] \in 1 .. Len(os) /\ os[f[n]].key = <<base, n>>
      BY <2>2
    <2>4. f \in [1 .. MaxObjects + 1 -> 1 .. Len(os)]
      BY <2>3
    <2>5. /\ IsFiniteSet(1 .. MaxObjects + 1) /\ Cardinality(1 .. MaxObjects + 1) = MaxObjects + 1
          /\ IsFiniteSet(1 .. Len(os)) /\ Cardinality(1 .. Len(os)) = Len(os)
      <3>1. 1 \in Int /\ MaxObjects + 1 \in Int /\ Len(os) \in Int /\ ~(1 > MaxObjects + 1)
        BY <1>0
      <3>2. Cardinality(1 .. Len(os)) = IF 1 > Len(os) THEN 0 ELSE Len(os) - 1 + 1
        BY <3>1, FS_Interval
      <3>3. Cardinality(1 .. MaxObjects + 1) =
              IF 1 > MaxObjects + 1 THEN 0 ELSE (MaxObjects + 1) - 1 + 1
        BY <3>1, FS_Interval
      <3>4. IsFiniteSet(1 .. MaxObjects + 1) /\ IsFiniteSet(1 .. Len(os))
        BY <3>1, FS_Interval
      <3> QED BY <1>0, <3>1, <3>2, <3>3, <3>4
    <2>7. Cardinality(1 .. Len(os)) < Cardinality(1 .. MaxObjects + 1)
      BY <1>0, <2>5
    <2> HIDE DEF f
    <2>6. \E x, y \in 1 .. MaxObjects + 1 : x # y /\ f[x] = f[y]
      BY <2>4, <2>5, <2>7, FS_PigeonHole
    <2> QED BY <2>3, <2>6
  <1> DEFINE free == {n \in 1 .. MaxObjects + 1 : <<base, n>> \notin KeysIn(os)}
  <1>2. \E n \in free : \A m \in free : n <= m
    <2>0. 1 .. MaxObjects + 1 \subseteq Nat
      BY <1>0
    <2>1. free \subseteq Nat /\ free # {}
      BY <2>0, <1>1, Zenon
    <2>2. IsWellFoundedOn(OpToRel(<, Nat), Nat)
      BY NatLessThanWellFounded
    <2>3. PICK n \in free : \A m \in free : ~ (<<m, n>> \in OpToRel(<, Nat))
      BY <2>1, <2>2, WFMin
    <2>4. \A m \in free : ~ (m < n)
      BY <2>1, <2>3 DEF OpToRel
    <2> QED BY <2>1, <2>4
  <1>3. PICK n \in free : \A m \in free : n <= m
    BY <1>2
  <1>4. <<base, n>> \notin KeysIn(os) /\ \A m \in 1 .. n - 1 : <<base, m>> \in KeysIn(os)
    BY <1>0, <1>3
  <1>5. n \in 1 .. MaxObjects + 1
    BY <1>3
  <1> DEFINE k == CHOOSE x \in 1 .. MaxObjects + 1 :
                    /\ <<base, x>> \notin KeysIn(os)
                    /\ \A m \in 1 .. x - 1 : <<base, m>> \in KeysIn(os)
  <1>6. k \in 1 .. MaxObjects + 1 /\ <<base, k>> \notin KeysIn(os)
    BY <1>4, <1>5
  <1>7. stableKey(base, KeysIn(os)) = <<base, k>>
    BY DEF stableKey
  <1> HIDE DEF k
  <1> QED BY <1>6, <1>7

\* The layouts a run starts from are plans.
LEMMA DraftsArePlans ==
    ASSUME NEW d \in Drafts
    PROVE  PlanOK(d)
  <1>1. FloorPlan(d)
    BY BuilderAssumption
  <1>2. ASSUME NEW a \in d PROVE AreaOK(a)
    <2>1. /\ a = [key |-> a.key, type |-> a.type, name |-> a.name, places |-> a.places]
          /\ a.type \in Kinds /\ a.places \in PlacesRow /\ HasItsPlaces(a)
      BY <1>1 DEF FloorPlan
    <2>2. a \in UNION Drafts
      OBVIOUS
    <2>3. a.key \in AnyKey /\ a.name \in AnyName
      BY <2>2 DEF AnyKey, AnyName
    <2> QED BY <2>1, <2>3 DEF AreaOK, AreaRow
  <1> QED BY <1>1, <1>2 DEF PlanOK, FloorPlan

\* A section goes to the server with places, a stage without.
LEMMA PlacesTyped ==
    ASSUME NEW o \in ObjectRow, ObjectOK(o)
    PROVE  /\ PlacesOf(o) \in PlacesRow
           /\ IF o.type = "STAGE" THEN PlacesOf(o) = NoPlaces ELSE PlacesOf(o).by # "NOBODY"
  <1>0. /\ o.amount \in Nat /\ o.structural \in PlacesRow /\ (o.type = "GA" \/ o.amount > 0) \in BOOLEAN
        /\ o.structural = NoPlaces \/ o.structural.by # "NOBODY"
    BY DEF ObjectRow, ObjectOK
  <1>1. CASE o.type = "STAGE"
    BY <1>1 DEF PlacesOf, NoPlaces, PlacesRow
  <1>2. CASE o.type # "STAGE" /\ o.structural = NoPlaces
    BY <1>0, <1>2 DEF PlacesOf, Generated, PlacesRow
  <1>3. CASE o.type = "GA" /\ o.structural # NoPlaces /\ o.structural.uniform
    <2>1. PlacesOf(o) = [o.structural EXCEPT !.amount = o.amount]
      BY <1>3 DEF PlacesOf
    <2> QED BY <1>0, <1>3, <2>1 DEF PlacesRow
  <1>4. CASE /\ o.type # "STAGE" /\ o.structural # NoPlaces
             /\ ~(o.type = "GA" /\ o.structural.uniform)
    BY <1>0, <1>4 DEF PlacesOf
  <1> QED BY <1>1, <1>2, <1>3, <1>4

\* What is sent for an object nobody touched is what was loaded.
LEMMA UntouchedReturns ==
    ASSUME NEW o \in ObjectRow, NEW a, AreaOK(a), Untouched(o, a)
    PROVE  PlacesOf(o) = a.places
  <1>0. /\ a.places \in PlacesRow /\ o.type = a.type /\ o.structural = a.places
        /\ o.amount = IF a.places.uniform THEN a.places.amount ELSE 0
        /\ IF a.type = "STAGE" THEN a.places = NoPlaces ELSE a.places.by # "NOBODY"
    BY DEF AreaOK, AreaRow, Untouched, HasItsPlaces
  <1>1. a.places = NoPlaces => a.places.by = "NOBODY"
    BY DEF NoPlaces
  <1>2. CASE o.type = "GA" /\ o.structural.uniform
    <2>1. [a.places EXCEPT !.amount = a.places.amount] = a.places
      BY <1>0 DEF PlacesRow
    <2>2. PlacesOf(o) = [a.places EXCEPT !.amount = a.places.amount]
      BY <1>0, <1>1, <1>2 DEF PlacesOf
    <2> QED BY <2>1, <2>2
  <1>3. CASE ~(o.type = "GA" /\ o.structural.uniform)
    BY <1>0, <1>1, <1>3 DEF PlacesOf
  <1> QED BY <1>2, <1>3

\* What the editor sends is a body that can be a plan.
LEMMA LayoutBody ==
    ASSUME NEW os, ObjectsOK(os)
    PROVE  /\ BodyOK(toLayout(os))
           /\ DOMAIN toLayout(os) = 1 .. Len(os)
           /\ \A i \in 1 .. Len(os) :
                /\ toLayout(os)[i].key = os[i].key /\ toLayout(os)[i].places = PlacesOf(os[i])
                /\ toLayout(os)[i] = [key |-> os[i].key, type |-> os[i].type,
                                      name |-> os[i].name, places |-> PlacesOf(os[i])]
  <1>0. Len(os) \in Nat /\ DOMAIN os = 1 .. Len(os) /\ \A i \in 1 .. Len(os) : os[i] \in ObjectRow
    BY DEF ObjectsOK
  <1>1. ASSUME NEW i \in 1 .. Len(os)
        PROVE  /\ toLayout(os)[i] = [key |-> os[i].key, type |-> os[i].type,
                                     name |-> os[i].name, places |-> PlacesOf(os[i])]
               /\ toLayout(os)[i] \in AreaRow /\ HasItsPlaces(toLayout(os)[i])
               /\ toLayout(os)[i].key = os[i].key /\ toLayout(os)[i].places = PlacesOf(os[i])
    <2>1. toLayout(os)[i] = [key |-> os[i].key, type |-> os[i].type,
                             name |-> os[i].name, places |-> PlacesOf(os[i])]
      BY <1>0 DEF toLayout
    <2>2. /\ PlacesOf(os[i]) \in PlacesRow
          /\ IF os[i].type = "STAGE" THEN PlacesOf(os[i]) = NoPlaces
                                     ELSE PlacesOf(os[i]).by # "NOBODY"
      BY <1>0, PlacesTyped DEF ObjectsOK
    <2>3. os[i].key \in AnyKey /\ os[i].type \in Kinds /\ os[i].name \in AnyName
      BY <1>0 DEF ObjectRow
    <2> QED BY <2>1, <2>2, <2>3 DEF AreaRow, HasItsPlaces
  <1>2. toLayout(os) \in [1 .. Len(os) -> AreaRow]
    <2>1. DOMAIN toLayout(os) = 1 .. Len(os)
      BY <1>0 DEF toLayout
    <2>2. toLayout(os) = [i \in 1 .. Len(os) |-> toLayout(os)[i]]
      BY <1>0 DEF toLayout
    <2> QED BY <1>1, <2>2
  <1>3. toLayout(os) \in Seq(AreaRow) /\ Len(toLayout(os)) = Len(os)
    BY <1>0, <1>2
  <1>4. \A i, j \in 1 .. Len(os) : i # j => os[i].key # os[j].key
    BY DEF ObjectsOK
  <1> QED BY <1>1, <1>2, <1>3, <1>4 DEF BodyOK

\* A body becomes a plan.
LEMMA BodyBecomesPlan ==
    ASSUME NEW body, BodyOK(body)
    PROVE  PlanOK(ToSet(body))
  <1>0. /\ Len(body) \in Nat /\ DOMAIN body = 1 .. Len(body)
        /\ body \in [1 .. Len(body) -> AreaRow]
    BY DEF BodyOK
  <1>1. ToSet(body) = {body[i] : i \in 1 .. Len(body)}
    BY <1>0 DEF ToSet
  <1>2. body \in Surjection(1 .. Len(body), ToSet(body))
    BY <1>0, <1>1 DEF Surjection
  <1>3. IsFiniteSet(1 .. Len(body))
    BY <1>0, FS_Interval
  <1>4. IsFiniteSet(ToSet(body))
    BY <1>2, <1>3, FS_Surjection
  <1>5. \A a \in ToSet(body) : AreaOK(a)
    BY <1>0, <1>1 DEF BodyOK, AreaOK
  <1>6. \A a, b \in ToSet(body) : a.key = b.key => a = b
    BY <1>1 DEF BodyOK
  <1> QED BY <1>4, <1>5, <1>6 DEF PlanOK

\* Loading a plan shows every area of it once, untouched, and would send it back as it is.
LEMMA PlanReturns ==
    ASSUME NEW areas, PlanOK(areas)
    PROVE  /\ ObjectsOK(fromLayout(areas))
           /\ KeptOK(fromLayout(areas), areas, {})
           /\ ToSet(toLayout(fromLayout(areas))) = areas
  <1> DEFINE s == SetToSeq(areas)
             os == fromLayout(areas)
  <1>1. /\ s \in Seq(areas)
        /\ \A i, j \in 1 .. Len(s) : i # j => s[i] # s[j]
        /\ \A x \in areas : \E i \in 1 .. Len(s) : s[i] = x
    BY SetToSeqLists DEF PlanOK
  <1>2. Len(s) \in Nat /\ DOMAIN s = 1 .. Len(s) /\ \A i \in 1 .. Len(s) : s[i] \in areas
    BY <1>1
  <1>3. os = [i \in 1 .. Len(s) |-> FromArea(s[i])]
    BY <1>2 DEF fromLayout
  <1> HIDE DEF s, os
  <1>4. ASSUME NEW a \in areas
        PROVE  /\ FromArea(a) \in ObjectRow /\ ObjectOK(FromArea(a))
               /\ Untouched(FromArea(a), a) /\ FromArea(a).key = a.key
               /\ FromArea(a).name = a.name /\ FromArea(a).type = a.type
    <2>1. AreaOK(a)
      BY DEF PlanOK
    <2>2. /\ a.key \in AnyKey /\ a.type \in Kinds /\ a.name \in AnyName
          /\ a.places \in PlacesRow /\ a.places.uniform \in BOOLEAN /\ a.places.amount \in Nat
          /\ a.places = NoPlaces \/ a.places.by # "NOBODY"
      BY <2>1 DEF AreaOK, AreaRow, PlacesRow, HasItsPlaces
    <2> DEFINE n == IF a.places.uniform THEN a.places.amount ELSE 0
               p == a.type = "RESERVED" /\ ~a.places.uniform
    <2>3. FromArea(a) = [key |-> a.key, type |-> a.type, name |-> a.name, amount |-> n,
                         preserved |-> p, structural |-> a.places]
      BY DEF FromArea
    <2>4. n \in Nat /\ p \in BOOLEAN
      BY <2>2
    <2>5. n = IF a.places.uniform THEN a.places.amount ELSE 0
      OBVIOUS
    <2> HIDE DEF n, p
    <2> QED BY <2>2, <2>3, <2>4, <2>5 DEF ObjectRow, ObjectOK, Untouched
  <1>5. os \in Seq(ObjectRow) /\ Len(os) = Len(s)
    BY <1>2, <1>3, <1>4
  <1>6. \A i \in 1 .. Len(os) : os[i] = FromArea(s[i]) /\ s[i] \in areas
    BY <1>2, <1>3, <1>5
  <1>7. \A a, b \in areas : a.key = b.key => a = b
    BY DEF PlanOK
  <1>8. ObjectsOK(os)
    BY <1>1, <1>4, <1>5, <1>6, <1>7 DEF ObjectsOK
  <1>9. KeptOK(os, areas, {})
    BY <1>1, <1>4, <1>5, <1>6, <1>7 DEF KeptOK
  <1>10. ASSUME NEW i \in 1 .. Len(os) PROVE toLayout(os)[i] = s[i]
    <2>1. AreaOK(s[i]) /\ os[i] \in ObjectRow /\ Untouched(os[i], s[i])
      BY <1>4, <1>6 DEF PlanOK
    <2>2. PlacesOf(os[i]) = s[i].places
      BY <2>1, UntouchedReturns
    <2>3. toLayout(os)[i] = [key |-> s[i].key, type |-> s[i].type, name |-> s[i].name,
                             places |-> s[i].places]
      BY <1>4, <1>6, <1>8, <2>2, LayoutBody
    <2> QED BY <2>1, <2>3 DEF AreaOK, AreaRow
  <1>11. ToSet(toLayout(os)) = {toLayout(os)[i] : i \in 1 .. Len(os)}
    BY <1>8, LayoutBody DEF ToSet
  <1>12. ToSet(toLayout(os)) = areas
    BY <1>1, <1>5, <1>6, <1>10, <1>11
  <1> QED BY <1>8, <1>9, <1>12 DEF os

-----------------------------------------------------------------------------
(* Edits.                                                                  *)

\* One object is replaced by another of the same key.
LEMMA ReplaceOne ==
    ASSUME NEW os, ObjectsOK(os), NEW i \in 1 .. Len(os),
           NEW o \in ObjectRow, ObjectOK(o), o.key = os[i].key,
           NEW from, NEW before, NEW after, KeptOK(os, from, before), before \subseteq after,
           \A a \in from : a.key = o.key /\ a.key \notin after /\ Untouched(os[i], a)
                              => Untouched(o, a)
    PROVE  ObjectsOK([os EXCEPT ![i] = o]) /\ KeptOK([os EXCEPT ![i] = o], from, after)
  <1> DEFINE n == [os EXCEPT ![i] = o]
  <1>1. /\ n \in Seq(ObjectRow) /\ Len(n) = Len(os)
        /\ \A j \in 1 .. Len(os) : n[j] = IF j = i THEN o ELSE os[j]
    BY ExceptSeq DEF ObjectsOK
  <1> HIDE DEF n
  <1>2. \A j \in 1 .. Len(os) : n[j].key = os[j].key
    BY <1>1
  <1>3. ObjectsOK(n)
    BY <1>1, <1>2 DEF ObjectsOK
  <1>4. KeptOK(n, from, after)
    BY <1>1, <1>2 DEF KeptOK
  <1> QED BY <1>3, <1>4 DEF n

\* An object is deleted, and counts as changed.
LEMMA RemoveOne ==
    ASSUME NEW os, ObjectsOK(os), NEW i \in 1 .. Len(os),
           NEW from, NEW before, KeptOK(os, from, before)
    PROVE  /\ ObjectsOK(RemoveAt(os, i))
           /\ KeptOK(RemoveAt(os, i), from, before \cup ({os[i].key} \cap Keys(from)))
  <1> DEFINE n == RemoveAt(os, i)
             l == SubSeq(os, 1, i - 1)
             r == SubSeq(os, i + 1, Len(os))
  <1>1. /\ Len(os) \in Nat /\ i \in Nat /\ 1 <= i /\ i <= Len(os)
        /\ \A j \in 1 .. Len(os) : os[j] \in ObjectRow
    BY DEF ObjectsOK
  <1>2. /\ l \in Seq(ObjectRow) /\ Len(l) = i - 1
        /\ \A j \in 1 .. i - 1 : l[j] = os[j]
    <2>1. \A j \in 1 .. i - 1 : os[j] \in ObjectRow
      BY <1>1
    <2>2. /\ l \in Seq(ObjectRow)
          /\ Len(l) = IF 1 <= i - 1 THEN (i - 1) - 1 + 1 ELSE 0
          /\ \A j \in 1 .. (i - 1) - 1 + 1 : l[j] = os[1 + j - 1]
      BY <1>1, <2>1, SubSeqProperties
    <2> QED BY <1>1, <2>2
  <1>3. /\ r \in Seq(ObjectRow) /\ Len(r) = Len(os) - i
        /\ \A j \in 1 .. Len(os) - i : r[j] = os[j + i]
    <2>1. \A j \in i + 1 .. Len(os) : os[j] \in ObjectRow
      BY <1>1
    <2>2. /\ r \in Seq(ObjectRow)
          /\ Len(r) = IF i + 1 <= Len(os) THEN Len(os) - (i + 1) + 1 ELSE 0
          /\ \A j \in 1 .. Len(os) - (i + 1) + 1 : r[j] = os[(i + 1) + j - 1]
      BY <1>1, <2>1, SubSeqProperties
    <2> QED BY <1>1, <2>2
  <1> HIDE DEF l, r
  <1>4. n = l \o r
    BY DEF RemoveAt, l, r
  <1> HIDE DEF n
  <1>5. /\ n \in Seq(ObjectRow) /\ Len(n) = Len(os) - 1
        /\ \A j \in 1 .. Len(os) - 1 : n[j] = IF j < i THEN os[j] ELSE os[j + 1]
    <2>1. /\ n \in Seq(ObjectRow) /\ Len(n) = Len(l) + Len(r)
          /\ \A j \in 1 .. Len(l) + Len(r) : n[j] = IF j <= Len(l) THEN l[j] ELSE r[j - Len(l)]
      BY <1>2, <1>3, <1>4, ConcatProperties
    <2>2. Len(l) + Len(r) = Len(os) - 1
      BY <1>1, <1>2, <1>3
    <2>3. ASSUME NEW j \in 1 .. Len(os) - 1 PROVE n[j] = IF j < i THEN os[j] ELSE os[j + 1]
      <3>1. CASE j < i
        BY <1>1, <1>2, <2>1, <2>2, <3>1
      <3>2. CASE ~(j < i)
        <4>1. j - Len(l) \in 1 .. Len(os) - i /\ ~(j <= Len(l)) /\ (j - Len(l)) + i = j + 1
          BY <1>1, <1>2, <3>2
        <4> QED BY <1>3, <2>1, <2>2, <3>2, <4>1
      <3> QED BY <3>1, <3>2
    <2> QED BY <2>1, <2>2, <2>3
  <1>6. ObjectsOK(n)
    <2>1. \A j \in 1 .. Len(n) : ObjectOK(n[j])
      BY <1>1, <1>5 DEF ObjectsOK
    <2>2. \A j, k \in 1 .. Len(n) : j # k => n[j].key # n[k].key
      BY <1>1, <1>5 DEF ObjectsOK
    <2> QED BY <1>5, <2>1, <2>2 DEF ObjectsOK
  <1> DEFINE after == before \cup ({os[i].key} \cap Keys(from))
  <1>7. KeptOK(n, from, after)
    <2>1. ASSUME NEW j \in 1 .. Len(n), NEW a \in from, n[j].key = a.key, a.key \notin after
          PROVE  Untouched(n[j], a)
      <3>1. PICK k \in 1 .. Len(os) : n[j] = os[k] /\ k # i
        BY <1>1, <1>5
      <3>2. a.key \notin before
        BY <2>1
      <3> HIDE DEF after
      <3> QED BY <2>1, <3>1, <3>2 DEF KeptOK
    <2>2. ASSUME NEW a \in from, a.key \notin after
          PROVE  \E j \in 1 .. Len(n) : n[j].key = a.key
      <3>1. a.key # os[i].key /\ a.key \notin before
        BY <2>2 DEF Keys
      <3>2. PICK k \in 1 .. Len(os) : os[k].key = a.key
        BY <3>1 DEF KeptOK
      <3>3. k # i
        BY <3>1, <3>2
      <3>4. CASE k < i
        BY <1>1, <1>5, <3>2, <3>4
      <3>5. CASE k > i
        <4>1. k - 1 \in 1 .. Len(os) - 1 /\ ~(k - 1 < i) /\ (k - 1) + 1 = k
          BY <1>1, <3>5
        <4> QED BY <1>5, <3>2, <4>1
      <3> QED BY <1>1, <3>3, <3>4, <3>5
    <2> HIDE DEF after
    <2> QED BY <2>1, <2>2 DEF KeptOK
  <1> QED BY <1>6, <1>7 DEF n

\* An object is added under a key no object has.
LEMMA AddOne ==
    ASSUME NEW os, ObjectsOK(os), NEW o \in ObjectRow, ObjectOK(o), o.key \notin KeysIn(os),
           NEW from, NEW changed, KeptOK(os, from, changed)
    PROVE  ObjectsOK(Append(os, o)) /\ KeptOK(Append(os, o), from, changed)
  <1> DEFINE n == Append(os, o)
  <1>1. /\ Len(os) \in Nat /\ n \in Seq(ObjectRow) /\ Len(n) = Len(os) + 1
        /\ \A j \in 1 .. Len(os) : n[j] = os[j]
        /\ n[Len(os) + 1] = o
    BY DEF ObjectsOK
  <1> HIDE DEF n
  <1>2. \A j \in 1 .. Len(os) : os[j].key # o.key
    BY DEF KeysIn, ObjectsOK
  <1>3. \A j \in 1 .. Len(n) : j \in 1 .. Len(os) \/ j = Len(os) + 1
    BY <1>1
  <1>4. ObjectsOK(n)
    BY <1>1, <1>2, <1>3 DEF ObjectsOK
  <1>5. \A a \in from : a.key \in changed \/ \E j \in 1 .. Len(os) : os[j].key = a.key
    BY DEF KeptOK
  <1>6. \A a \in from : a.key = o.key => a.key \in changed
    BY <1>2, <1>5
  <1>7. 1 .. Len(os) \subseteq 1 .. Len(n)
    BY <1>1
  <1>8. KeptOK(n, from, changed)
    BY <1>1, <1>3, <1>5, <1>6, <1>7 DEF KeptOK
  <1> QED BY <1>4, <1>8 DEF n

\* An edit makes the editor dirty, and excused if a call is under way.
LEMMA EditedKeeps ==
    ASSUME BuilderInv, NEW os, Edited(os), ObjectsOK(os), KeptOK(os, loaded, reshaped')
    PROVE  BuilderInv'
  <1>1. /\ objects' = os /\ dirty' = TRUE /\ excused' = (excused \/ saves # {})
        /\ UNCHANGED <<opened, saves, saveKeys, outcomes, draft, loaded>>
    BY DEF Edited, saving, layout
  <1>2. CleanOK'
    BY <1>1 DEF CleanOK, BuilderInv
  <1>3. ObjectsOK(objects)' /\ KeptOK(objects, loaded, reshaped)'
    BY <1>1
  <1>4. PlanOK(draft)' /\ PlanOK(loaded)'
    BY <1>1 DEF BuilderInv
  <1> QED BY <1>1, <1>2, <1>3, <1>4 DEF BuilderInv

LEMMA addKeeps ==
    ASSUME BuilderInv, NEW type \in Palette, add(type)
    PROVE  BuilderInv'
  <1> DEFINE o == [key |-> stableKey(type, KeysIn(objects)), type |-> type, name |-> "GIVEN",
                   amount |-> 2, preserved |-> FALSE, structural |-> NoPlaces]
  <1>1. Len(objects) < MaxObjects /\ Edited(Append(objects, o)) /\ reshaped' = reshaped
    BY DEF add
  <1>2. objects \in Seq(ObjectRow) /\ ObjectsOK(objects) /\ KeptOK(objects, loaded, reshaped)
    BY DEF BuilderInv, ObjectsOK
  <1>3. /\ stableKey(type, KeysIn(objects)) \in {type} \X (1 .. MaxObjects + 1)
        /\ stableKey(type, KeysIn(objects)) \notin KeysIn(objects)
    BY <1>1, <1>2, FreshKey
  <1>4. stableKey(type, KeysIn(objects)) \in AnyKey /\ type \in Kinds /\ "GIVEN" \in AnyName
    BY <1>3, BuilderAssumption DEF AnyKey, AnyName, Names
  <1>5. NoPlaces \in PlacesRow
    BY DEF NoPlaces, PlacesRow
  <1>6. o \in ObjectRow /\ ObjectOK(o) /\ o.key \notin KeysIn(objects)
    BY <1>3, <1>4, <1>5 DEF ObjectRow, ObjectOK
  <1> HIDE DEF o
  <1>7. ObjectsOK(Append(objects, o)) /\ KeptOK(Append(objects, o), loaded, reshaped)
    BY <1>2, <1>6, AddOne
  <1> QED BY <1>1, <1>7, EditedKeeps

\* What the edits of an object put in its place.
LEMMA EditOne ==
    ASSUME BuilderInv, NEW i \in DOMAIN objects, NEW o \in ObjectRow, ObjectOK(o),
           o.key = objects[i].key, Edited([objects EXCEPT ![i] = o]), reshaped \subseteq reshaped',
           \/ /\ o.type = objects[i].type /\ o.amount = objects[i].amount
              /\ o.structural = objects[i].structural
           \/ reshaped' = reshaped \cup ({o.key} \cap Keys(loaded))
    PROVE  BuilderInv'
  <1>1. i \in 1 .. Len(objects) /\ ObjectsOK(objects) /\ KeptOK(objects, loaded, reshaped)
    BY DEF BuilderInv, ObjectsOK
  <1>2. ASSUME NEW a \in loaded, a.key = o.key, a.key \notin reshaped', Untouched(objects[i], a)
        PROVE  Untouched(o, a)
    <2>1. a.key \in Keys(loaded)
      BY DEF Keys
    <2>2. /\ o.type = objects[i].type /\ o.amount = objects[i].amount
          /\ o.structural = objects[i].structural
      BY <1>2, <2>1
    <2> QED BY <1>2, <2>2 DEF Untouched
  <1>3. /\ ObjectsOK([objects EXCEPT ![i] = o])
        /\ KeptOK([objects EXCEPT ![i] = o], loaded, reshaped')
    BY <1>1, <1>2, ReplaceOne
  <1> QED BY <1>3, EditedKeeps

LEMMA renameKeeps ==
    ASSUME BuilderInv, NEW i \in DOMAIN objects, NEW name \in Names, rename(i, name)
    PROVE  BuilderInv'
  <1> DEFINE o == [objects[i] EXCEPT !.name = name]
  <1>1. objects[i] \in ObjectRow /\ ObjectOK(objects[i]) /\ name \in AnyName
    BY DEF BuilderInv, ObjectsOK, AnyName
  <1>2. /\ o \in ObjectRow /\ ObjectOK(o) /\ o.key = objects[i].key
        /\ o.type = objects[i].type /\ o.amount = objects[i].amount
        /\ o.structural = objects[i].structural
    BY <1>1 DEF ObjectRow, ObjectOK
  <1>3. Edited([objects EXCEPT ![i] = o]) /\ reshaped' = reshaped
    BY DEF rename
  <1> HIDE DEF o
  <1> QED BY <1>2, <1>3, EditOne

LEMMA reshapeKeeps ==
    ASSUME BuilderInv, NEW i \in DOMAIN objects, NEW amount \in Amounts, reshape(i, amount)
    PROVE  BuilderInv'
  <1> DEFINE o == [objects[i] EXCEPT !.amount = amount, !.preserved = FALSE,
                                     !.structural = NoPlaces]
  <1>1. objects[i] \in ObjectRow /\ amount \in Nat /\ NoPlaces \in PlacesRow
    BY DEF BuilderInv, ObjectsOK, Amounts, NoPlaces, PlacesRow
  <1>2. o \in ObjectRow /\ o.structural = NoPlaces /\ o.key = objects[i].key
    BY <1>1 DEF ObjectRow
  <1>3. /\ Edited([objects EXCEPT ![i] = o])
        /\ reshaped' = reshaped \cup ({objects[i].key} \cap Keys(loaded))
    BY DEF reshape
  <1> HIDE DEF o
  <1> QED BY <1>2, <1>3, EditOne DEF ObjectOK

LEMMA setCapacityKeeps ==
    ASSUME BuilderInv, NEW i \in DOMAIN objects, NEW amount \in Amounts, setCapacity(i, amount)
    PROVE  BuilderInv'
  <1> DEFINE o == [objects[i] EXCEPT !.amount = amount]
  <1>1. objects[i] \in ObjectRow /\ ObjectOK(objects[i]) /\ amount \in Nat
    BY DEF BuilderInv, ObjectsOK, Amounts
  <1>2. o \in ObjectRow /\ ObjectOK(o) /\ o.key = objects[i].key
    BY <1>1 DEF ObjectRow, ObjectOK
  <1>3. /\ Edited([objects EXCEPT ![i] = o])
        /\ reshaped' = reshaped \cup ({objects[i].key} \cap Keys(loaded))
    BY DEF setCapacity
  <1> HIDE DEF o
  <1> QED BY <1>2, <1>3, EditOne

LEMMA removeKeeps ==
    ASSUME BuilderInv, NEW i \in DOMAIN objects, remove(i)
    PROVE  BuilderInv'
  <1>1. i \in 1 .. Len(objects) /\ ObjectsOK(objects) /\ KeptOK(objects, loaded, reshaped)
    BY DEF BuilderInv, ObjectsOK
  <1>2. /\ Edited(RemoveAt(objects, i))
        /\ reshaped' = reshaped \cup ({objects[i].key} \cap Keys(loaded))
    BY DEF remove
  <1>3. ObjectsOK(RemoveAt(objects, i)) /\ KeptOK(RemoveAt(objects, i), loaded, reshaped')
    BY <1>1, <1>2, RemoveOne
  <1> QED BY <1>2, <1>3, EditedKeeps

-----------------------------------------------------------------------------
(* Opening and closing.                                                    *)

LEMMA OpenEditorKeeps ==
    ASSUME BuilderInv, OpenEditor
    PROVE  BuilderInv'
  <1>1. /\ opened' = TRUE /\ objects' = fromLayout(draft) /\ dirty' = FALSE
        /\ loaded' = draft /\ reshaped' = {} /\ excused' = (saves # {})
        /\ UNCHANGED <<saves, saveKeys, outcomes, draft>>
    BY DEF OpenEditor, saving, layout
  <1>2. PlanOK(draft)
    BY DEF BuilderInv
  <1>3. /\ ObjectsOK(fromLayout(draft)) /\ KeptOK(fromLayout(draft), draft, {})
        /\ ToSet(toLayout(fromLayout(draft))) = draft
    BY <1>2, PlanReturns
  <1>4. ObjectsOK(objects)' /\ KeptOK(objects, loaded, reshaped)' /\ ToSet(toLayout(objects))' = draft
    BY <1>1, <1>3
  <1>5. CleanOK'
    BY <1>1, <1>4 DEF CleanOK
  <1> QED BY <1>1, <1>2, <1>4, <1>5 DEF BuilderInv

LEMMA CloseEditorKeeps ==
    ASSUME BuilderInv, CloseEditor, UNCHANGED <<saveKeys, outcomes, draft>>, saves' \subseteq saves
    PROVE  BuilderInv'
  <1>1. /\ opened' = FALSE /\ objects' = <<>> /\ dirty' = FALSE /\ loaded' = {}
        /\ reshaped' = {} /\ excused' = FALSE
    BY DEF CloseEditor
  <1>2. ObjectsOK(<<>>) /\ KeptOK(<<>>, {}, {})
    BY DEF ObjectsOK, KeptOK
  <1>3. PlanOK({})
    BY FS_EmptySet DEF PlanOK
  <1>4. CleanOK'
    BY <1>1 DEF CleanOK
  <1> QED BY <1>1, <1>2, <1>3, <1>4 DEF BuilderInv

-----------------------------------------------------------------------------
(* Calls.                                                                  *)

\* A step that leaves what is edited alone.
LEMMA EditorStays ==
    ASSUME BuilderInv, UNCHANGED <<opened, objects, loaded, reshaped>>,
           dirty' \in BOOLEAN, excused' \in BOOLEAN, saveKeys' \in Nat,
           outcomes' \in [1 .. MaxSaves -> {"NONE", "DONE", "REFUSED"}],
           PlanOK(draft'), saves' \subseteq SaveRow, \A c \in saves' : BodyOK(c.body),
           opened /\ ~excused' =>
             /\ ~dirty' => ToSet(toLayout(objects)) = draft'
             /\ \A c \in saves' : c.step = "REPLACE" =>
                  c.body = toLayout(objects) /\ (c.answer = "DONE" => draft' = ToSet(c.body))
    PROVE  BuilderInv'
  <1>1. toLayout(objects)' = toLayout(objects)
    BY DEF toLayout, PlacesOf, Generated
  <1>2. CleanOK'
    BY <1>1 DEF CleanOK
  <1>3. ObjectsOK(objects)' /\ KeptOK(objects, loaded, reshaped)'
    BY DEF BuilderInv
  <1>4. PlanOK(draft)' /\ PlanOK(loaded)'
    BY DEF BuilderInv
  <1> QED BY <1>2, <1>3, <1>4 DEF BuilderInv

LEMMA SaveKeyType ==
    ASSUME saveKeys \in Nat, NEW intent
    PROVE  SaveKey(intent) \in 1 .. saveKeys + 1
  <1>1. CASE \E k \in 1 .. saveKeys : <<intent, k>> \in intents
    <2> DEFINE k == CHOOSE k \in 1 .. saveKeys : <<intent, k>> \in intents
    <2>1. k \in 1 .. saveKeys
      BY <1>1
    <2>2. SaveKey(intent) = k
      BY <1>1 DEF SaveKey
    <2> HIDE DEF k
    <2> QED BY <2>1, <2>2
  <1>2. CASE ~ \E k \in 1 .. saveKeys : <<intent, k>> \in intents
    BY <1>2 DEF SaveKey
  <1> QED BY <1>1, <1>2

\* A save sends what is shown.
LEMMA ReplaceSends ==
    ASSUME BuilderInv, NEW does \in {"SAVE", "PUBLISH"}, Replace(does)
    PROVE  /\ saveKeys' \in Nat
           /\ \E c \in SaveRow :
                /\ saves' = saves \cup {c}
                /\ BodyOK(c.body) /\ c.body = toLayout(objects) /\ c.answer = "NONE"
  <1> DEFINE key == SaveKey(<<"replace", toLayout(objects)>>)
             id == IF \E c \in saves : c.id = 1 THEN 2 ELSE 1
             unkeyed == [id |-> id, does |-> does, step |-> "REPLACE",
                         body |-> toLayout(objects), key |-> 0, answer |-> "NONE"]
             c == [unkeyed EXCEPT !.key = key]
  <1>1. /\ key <= MaxSaves /\ saveKeys' = IF key > saveKeys THEN key ELSE saveKeys
        /\ saves' = saves \cup {c}
    BY DEF Replace, CallWith
  <1>2. saveKeys \in Nat /\ key \in 1 .. saveKeys + 1
    BY SaveKeyType DEF BuilderInv
  <1>3. key \in 1 .. MaxSaves /\ id \in {1, 2}
    BY <1>1, <1>2, BuilderAssumption
  <1>4. BodyOK(toLayout(objects))
    BY LayoutBody DEF BuilderInv
  <1> HIDE DEF key, id
  <1>5. /\ c \in SaveRow
        /\ c.body = toLayout(objects) /\ c.answer = "NONE"
    BY <1>3, <1>4 DEF SaveRow, BodyOK
  <1> HIDE DEF c
  <1>6. saveKeys' \in Nat
    BY <1>1, <1>2
  <1> QED BY <1>1, <1>4, <1>5, <1>6

LEMMA saveKeeps ==
    ASSUME BuilderInv, save
    PROVE  BuilderInv'
  <1>1. /\ opened /\ dirty /\ Replace("SAVE") /\ excused' = (saves # {})
        /\ UNCHANGED <<opened, objects, dirty, loaded, reshaped, draft, outcomes>>
    BY DEF save, editor, layout
  <1>2. saveKeys' \in Nat
    BY <1>1, ReplaceSends
  <1>3. PICK c \in SaveRow : /\ saves' = saves \cup {c}
                             /\ BodyOK(c.body) /\ c.body = toLayout(objects) /\ c.answer = "NONE"
    BY <1>1, ReplaceSends
  <1> QED BY <1>1, <1>2, <1>3, EditorStays DEF BuilderInv

LEMMA confirmPublishKeeps ==
    ASSUME BuilderInv, confirmPublish
    PROVE  BuilderInv'
  <1>1. /\ Replace("PUBLISH")
        /\ UNCHANGED <<opened, objects, dirty, loaded, reshaped, excused, draft, outcomes>>
    BY DEF confirmPublish, editor, layout, history
  <1>2. saveKeys' \in Nat
    BY <1>1, ReplaceSends
  <1>3. PICK c \in SaveRow : /\ saves' = saves \cup {c}
                             /\ BodyOK(c.body) /\ c.body = toLayout(objects) /\ c.answer = "NONE"
    BY <1>1, ReplaceSends
  <1> QED BY <1>1, <1>2, <1>3, EditorStays DEF BuilderInv, CleanOK

\* The server takes what a save carries, and answers; a draft it changed otherwise, or an
\* answer it had stored, excuses the editor.
LEMMA ServeSaveKeeps ==
    ASSUME BuilderInv, NEW c \in saves, ServeSave(c)
    PROVE  BuilderInv'
  <1> DEFINE fresh == outcomes[c.key] = "NONE"
             ok == IF c.step = "REPLACE" THEN Acceptable(c.body) ELSE Publishable
             answer == IF ~fresh THEN outcomes[c.key] ELSE IF ok THEN "DONE" ELSE "REFUSED"
             n == [c EXCEPT !.answer = answer]
  <1>1. /\ saves' = (saves \ {c}) \cup {n}
        /\ outcomes' = [outcomes EXCEPT ![c.key] = answer]
        /\ draft' = IF fresh /\ ok /\ c.step = "REPLACE" THEN ToSet(c.body) ELSE draft
        /\ excused' = (excused \/ (c.step = "REPLACE" /\ answer = "DONE" /\ draft' # ToSet(c.body)))
        /\ UNCHANGED <<opened, objects, dirty, saveKeys, loaded, reshaped>>
    BY DEF ServeSave, editor
  <1>2. /\ c \in SaveRow /\ BodyOK(c.body) /\ c.key \in 1 .. MaxSaves
        /\ outcomes \in [1 .. MaxSaves -> {"NONE", "DONE", "REFUSED"}]
    BY DEF BuilderInv, SaveRow
  <1>3. answer \in {"NONE", "DONE", "REFUSED"}
    BY <1>2
  <1>4. draft' = draft \/ (c.step = "REPLACE" /\ draft' = ToSet(c.body))
    BY <1>1
  <1> HIDE DEF fresh, ok, answer
  <1>5. n \in SaveRow /\ n.step = c.step /\ n.body = c.body /\ n.answer = answer
    BY <1>2, <1>3 DEF SaveRow
  <1> HIDE DEF n
  <1>6. PlanOK(draft')
    BY <1>2, <1>4, BodyBecomesPlan DEF BuilderInv
  <1>7. outcomes' \in [1 .. MaxSaves -> {"NONE", "DONE", "REFUSED"}]
    BY <1>1, <1>2, <1>3
  <1>8. saves' \subseteq SaveRow /\ \A d \in saves' : BodyOK(d.body)
    BY <1>1, <1>2, <1>5 DEF BuilderInv
  <1>9. ASSUME opened, ~excused'
        PROVE  /\ ~dirty' => ToSet(toLayout(objects)) = draft'
               /\ \A d \in saves' : d.step = "REPLACE" =>
                    d.body = toLayout(objects) /\ (d.answer = "DONE" => draft' = ToSet(d.body))
    <2>1. /\ ~excused
          /\ c.step = "REPLACE" /\ answer = "DONE" => draft' = ToSet(c.body)
      BY <1>1, <1>9
    <2>2. /\ ~dirty => ToSet(toLayout(objects)) = draft
          /\ \A d \in saves : d.step = "REPLACE" =>
               d.body = toLayout(objects) /\ (d.answer = "DONE" => draft = ToSet(d.body))
      BY <1>9, <2>1 DEF BuilderInv, CleanOK
    <2>3. c.step = "REPLACE" => c.body = toLayout(objects)
      BY <2>2
    <2>4. ~dirty => ToSet(toLayout(objects)) = draft'
      BY <1>4, <2>2, <2>3
    <2>5. ASSUME NEW d \in saves, d.step = "REPLACE", d.answer = "DONE"
          PROVE  draft' = ToSet(d.body)
      BY <1>4, <2>2, <2>3, <2>5
    <2> QED BY <1>1, <1>5, <2>1, <2>2, <2>3, <2>4, <2>5
  <1>10. dirty' \in BOOLEAN /\ excused' \in BOOLEAN /\ saveKeys' \in Nat
    BY <1>1 DEF BuilderInv
  <1> QED BY <1>1, <1>6, <1>7, <1>8, <1>9, <1>10, EditorStays

\* Another operator's save; whoever has the draft open is excused.
LEMMA OtherOperatorKeeps ==
    ASSUME BuilderInv, OtherOperator
    PROVE  BuilderInv'
  <1>1. /\ draft' = draft \/ draft' \in Drafts
        /\ excused' = opened
        /\ UNCHANGED <<opened, objects, dirty, saves, saveKeys, outcomes, loaded, reshaped>>
    BY DEF OtherOperator, editor, saving
  <1>2. PlanOK(draft')
    BY <1>1, DraftsArePlans DEF BuilderInv
  <1> QED BY <1>1, <1>2, EditorStays DEF BuilderInv

LEMMA SaveEndsKeeps ==
    ASSUME BuilderInv, NEW c \in saves, SaveEnds(c)
    PROVE  BuilderInv'
  <1>1. /\ c.step = "REPLACE" /\ dirty' = (dirty /\ c.answer # "DONE") /\ saves' = saves \ {c}
        /\ UNCHANGED <<opened, objects, saveKeys, draft, outcomes, loaded, reshaped, excused>>
    BY DEF SaveEnds, StillDirty, layout, history
  <1>2. dirty' \in BOOLEAN
    BY <1>1 DEF BuilderInv
  <1> QED BY <1>1, <1>2, EditorStays DEF BuilderInv, CleanOK

LEMMA ReplacedKeeps ==
    ASSUME BuilderInv, NEW c \in saves, ReplacedForPublication(c)
    PROVE  BuilderInv'
  <1>1. UNCHANGED <<opened, objects, dirty, draft, outcomes, loaded, reshaped, excused>>
    BY DEF ReplacedForPublication, editor, layout, history
  <1>2. CASE c.answer = "DONE"
    <2> DEFINE key == SaveKey(<<"publish", <<>>>>)
               n == [c EXCEPT !.step = "PUBLISH", !.key = key, !.answer = "NONE"]
    <2>1. /\ key <= MaxSaves /\ saves' = (saves \ {c}) \cup {n}
          /\ saveKeys' = IF key > saveKeys THEN key ELSE saveKeys
      BY <1>2 DEF ReplacedForPublication
    <2>2. saveKeys \in Nat /\ key \in 1 .. saveKeys + 1
      BY SaveKeyType DEF BuilderInv
    <2>3. key \in 1 .. MaxSaves /\ saveKeys' \in Nat
      BY <2>1, <2>2, BuilderAssumption
    <2>4. c \in SaveRow /\ BodyOK(c.body)
      BY DEF BuilderInv
    <2> HIDE DEF key
    <2>5. n \in SaveRow /\ n.step = "PUBLISH" /\ n.body = c.body
      BY <2>3, <2>4 DEF SaveRow
    <2> HIDE DEF n
    <2> QED BY <1>1, <2>1, <2>3, <2>4, <2>5, EditorStays DEF BuilderInv, CleanOK
  <1>3. CASE c.answer # "DONE"
    <2>1. saves' = saves \ {c} /\ saveKeys' = saveKeys
      BY <1>3 DEF ReplacedForPublication
    <2> QED BY <1>1, <2>1, EditorStays DEF BuilderInv, CleanOK
  <1> QED BY <1>2, <1>3

\* Calls that leave, and questions: nothing of the plan changes.
LEMMA QuietKeeps ==
    ASSUME BuilderInv, saves' \subseteq saves,
           UNCHANGED <<opened, objects, dirty, saveKeys, draft, outcomes, loaded, reshaped, excused>>
    PROVE  BuilderInv'
  BY EditorStays DEF BuilderInv, CleanOK

LEMMA BuilderInitially == BuilderInit => BuilderInv
  <1> SUFFICES ASSUME BuilderInit PROVE BuilderInv
    OBVIOUS
  <1>1. PlanOK(draft)
    BY DraftsArePlans DEF BuilderInit
  <1>2. PlanOK({})
    BY FS_EmptySet DEF PlanOK
  <1>3. ObjectsOK(<<>>) /\ KeptOK(<<>>, {}, {})
    BY DEF ObjectsOK, KeptOK
  <1> QED BY <1>1, <1>2, <1>3 DEF BuilderInit, BuilderInv, CleanOK

LEMMA BuilderStep == BuilderInv /\ [BuilderNext]_builderVars => BuilderInv'
  <1> SUFFICES ASSUME BuilderInv, [BuilderNext]_builderVars PROVE BuilderInv'
    OBVIOUS
  <1>1. CASE UNCHANGED builderVars
    BY <1>1, QuietKeeps DEF builderVars, editor, saving, layout, history
  <1>2. CASE askPublish \/ continueEditing
    BY <1>2, QuietKeeps DEF askPublish, continueEditing, saving, layout, history
  <1>3. CASE close
    <2>1. CASE dirty
      BY <1>3, <2>1, QuietKeeps DEF close, saving, layout
    <2>2. CASE ~dirty
      BY <1>3, <2>2, CloseEditorKeeps DEF close, saving, layout
    <2> QED BY <2>1, <2>2
  <1>4. CASE discard
    BY <1>4, CloseEditorKeeps DEF discard, saving, layout
  <1>5. ASSUME NEW c \in saves, PublishEnds(c) PROVE BuilderInv'
    <2>1. CASE c.answer = "DONE"
      BY <1>5, <2>1, CloseEditorKeeps DEF PublishEnds, layout
    <2>2. CASE c.answer # "DONE"
      BY <1>5, <2>2, QuietKeeps DEF PublishEnds, editor, layout
    <2> QED BY <2>1, <2>2
  <1>6. ASSUME NEW c \in saves, SaveLost(c) PROVE BuilderInv'
    BY <1>6, QuietKeeps DEF SaveLost, editor, layout
  <1>7. CASE \E i \in DOMAIN objects :
               \/ remove(i)
               \/ \E name \in Names : rename(i, name)
               \/ \E amount \in Amounts : reshape(i, amount) \/ setCapacity(i, amount)
    BY <1>7, removeKeeps, renameKeeps, reshapeKeeps, setCapacityKeeps
  <1> QED BY <1>1, <1>2, <1>3, <1>4, <1>5, <1>6, <1>7, OpenEditorKeeps, saveKeeps,
          confirmPublishKeeps, OtherOperatorKeeps, addKeeps, ServeSaveKeeps, SaveEndsKeeps,
          ReplacedKeeps DEF BuilderNext

\* However many objects are added, deleted and edited in whatever order: keys stay
\* distinct, and what nobody touched goes back as it came.
THEOREM FloorPlansAreKept == BuilderSpec => []FloorPlanIsKept
  <1>1. ASSUME BuilderInv PROVE FloorPlanIsKept
    <2>1. /\ ObjectsOK(objects) /\ KeptOK(objects, loaded, reshaped) /\ PlanOK(loaded)
          /\ DOMAIN objects = 1 .. Len(objects)
      BY <1>1 DEF BuilderInv, ObjectsOK
    <2>2. ASSUME NEW i \in DOMAIN objects, NEW a \in loaded,
                 objects[i].key = a.key, a.key \notin reshaped
          PROVE  toLayout(objects)[i].places = a.places
      <3>1. objects[i] \in ObjectRow /\ Untouched(objects[i], a) /\ AreaOK(a)
        BY <2>1, <2>2 DEF ObjectsOK, KeptOK, PlanOK
      <3>2. PlacesOf(objects[i]) = a.places
        BY <3>1, UntouchedReturns
      <3>3. toLayout(objects)[i].places = PlacesOf(objects[i])
        BY <2>1, LayoutBody
      <3> QED BY <3>2, <3>3
    <2> QED BY <2>1, <2>2 DEF FloorPlanIsKept, ObjectsOK
  <1> QED BY <1>1, BuilderInitially, BuilderStep, PTL DEF BuilderSpec

\* An editor that says nothing is unsaved shows what the server has.
THEOREM CleanEditorsAreSaved == BuilderSpec => []CleanIsSaved
  <1>1. BuilderInv => CleanIsSaved
    BY DEF BuilderInv, CleanOK, CleanIsSaved
  <1> QED BY <1>1, BuilderInitially, BuilderStep, PTL DEF BuilderSpec

-----------------------------------------------------------------------------
(* The workbench of the developer documentation.                           *)

DocsSpec == DocsInit /\ [][DocsNext]_docsVars

RequestRow == [text : Texts, key : Nat, edited : BOOLEAN, changed : BOOLEAN]

BenchRow ==
    [mode : {"try", "code"}, request : RequestRow, busy : BOOLEAN,
     result : Operations \cup {"guide", NoOperation},
     confirming : Operations \cup {"guide", NoOperation},
     call : Operations \cup {"guide", NoOperation}]

DocsTypeOK ==
    /\ route \in Operations \cup {"guide"}
    /\ bench \in BenchRow
    /\ uuids \in Nat
    /\ open \subseteq {"nav", "search", "credential"}

\* Keys are drawn in order; the key of the request on the bench, unless it was
\* typed, was sent only with this operation and text; and an open question is
\* about the operation of the page.
DocsInv ==
    /\ DocsTypeOK
    /\ bench.request.key <= uuids
    /\ \A s \in sent : s.key \in Nat /\ s.key <= uuids
    /\ route \in Operations /\ ~bench.request.edited =>
         \A s \in sent : s.key = bench.request.key /\ ~s.typed =>
            s.op = route /\ s.text = bench.request.text
    /\ bench.confirming \in {NoOperation, route}
    /\ SentAsMeant

\* A fresh key was never sent.
LEMMA FreshRequest ==
    ASSUME DocsInv, NEW b \in BenchRow, bench' = b, uuids' = Fresh, b.request.key = Fresh,
           sent' = sent, route' \in Operations \cup {"guide"},
           open' \subseteq {"nav", "search", "credential"},
           b.confirming \in {NoOperation, route'}
    PROVE  DocsInv'
  <1>1. uuids \in Nat /\ uuids' = uuids + 1 /\ bench'.request.key = uuids'
    BY DEF DocsInv, DocsTypeOK, Fresh
  <1>2. \A s \in sent : s.key \in Nat /\ s.key <= uuids
    BY DEF DocsInv
  <1>3. SentAsMeant'
    BY DEF DocsInv, SentAsMeant, KeyNamesOneRequest, AskedAboutItself
  <1> QED BY <1>1, <1>2, <1>3 DEF DocsInv, DocsTypeOK

\* A step that neither sends nor turns to another request.
LEMMA SameRequest ==
    ASSUME DocsInv, NEW b \in BenchRow, bench' = b, b.request = bench.request,
           b.confirming \in {NoOperation, bench.confirming},
           UNCHANGED <<route, uuids, sent>>, open' \subseteq {"nav", "search", "credential"}
    PROVE  DocsInv'
  <1>1. SentAsMeant'
    BY DEF DocsInv, SentAsMeant, KeyNamesOneRequest, AskedAboutItself
  <1> QED BY <1>1 DEF DocsInv, DocsTypeOK

\* Going to a page.
LEMMA NavigateKeeps ==
    ASSUME DocsInv, NEW r \in Operations \cup {"guide"}, Navigate(r),
           open' \subseteq {"nav", "search", "credential"}
    PROVE  DocsInv'
  <1>1. CASE r \notin Operations
    <2>1. bench' = NoWorkbench /\ uuids' = uuids /\ route' = r /\ sent' = sent
      BY <1>1 DEF Navigate
    <2>2. /\ NoWorkbench \in BenchRow /\ NoWorkbench.request.key = 0
          /\ NoWorkbench.confirming = NoOperation
      BY DEF NoWorkbench, BenchRow, NoRequest, RequestRow, Texts, Typed
    <2>3. SentAsMeant'
      BY <2>1 DEF DocsInv, SentAsMeant, KeyNamesOneRequest, AskedAboutItself
    <2> QED BY <1>1, <2>1, <2>2, <2>3 DEF DocsInv, DocsTypeOK
  <1>2. CASE r \in Operations /\ r = route
    <2>1. bench' = bench /\ UNCHANGED <<route, uuids, sent>>
      BY <1>2 DEF Navigate
    <2> QED BY <2>1, SameRequest DEF DocsInv, DocsTypeOK
  <1>3. CASE r \in Operations /\ r # route
    <2>1. bench' = Turned(bench) /\ uuids' = Fresh /\ route' = r /\ sent' = sent
      BY <1>3 DEF Navigate
    <2>2. bench \in BenchRow /\ Fresh \in Nat
      BY DEF DocsInv, DocsTypeOK, Fresh
    <2>3. NoRequest \in RequestRow
      BY DEF NoRequest, RequestRow, Texts, Typed
    <2>4. InitialRequest \in RequestRow /\ InitialRequest.key = Fresh
      BY <2>2, <2>3 DEF InitialRequest, RequestRow
    <2>5. /\ Turned(bench) \in BenchRow /\ Turned(bench).request = InitialRequest
          /\ Turned(bench).confirming = NoOperation
      BY <2>2, <2>4 DEF Turned, BenchRow
    <2>6. Turned(bench).request.key = Fresh
      BY <2>5, <2>4
    <2> QED BY <2>1, <2>5, <2>6, FreshRequest
  <1> QED BY <1>1, <1>2, <1>3

\* What an edit makes of a request.
LEMMA MaterialEditRow ==
    ASSUME NEW q \in RequestRow, NEW text \in Texts, Fresh \in Nat
    PROVE  /\ MaterialEdit(q, text) \in RequestRow
           /\ MaterialEdit(q, text).key = IF q.edited THEN q.key ELSE Fresh
           /\ MaterialEdit(q, text).edited = q.edited
  <1>1. CASE q.edited
    BY <1>1 DEF MaterialEdit, RequestRow
  <1>2. CASE ~q.edited
    BY <1>2 DEF MaterialEdit, RequestRow
  <1> QED BY <1>1, <1>2

\* A new request on the bench, its key another one or typed.
LEMMA SetRequestKeeps ==
    ASSUME DocsInv, NEW r \in RequestRow, SetRequest(r),
           r.key = Fresh \/ (r.key <= uuids /\ r.edited)
    PROVE  DocsInv'
  <1> DEFINE b == [mode |-> bench.mode, request |-> r, busy |-> bench.busy,
                   result |-> bench.result, confirming |-> bench.confirming,
                   call |-> bench.call]
  <1>1. bench' = b /\ b \in BenchRow
    BY DEF SetRequest, DocsInv, DocsTypeOK, BenchRow
  <1>2. b.request = r /\ b.confirming = bench.confirming
    OBVIOUS
  <1>3. UNCHANGED <<route, open, sent>> /\ uuids' = IF r.key = Fresh THEN Fresh ELSE uuids
    BY DEF SetRequest
  <1> HIDE DEF b
  <1>4. CASE r.key = Fresh
    BY <1>1, <1>2, <1>3, <1>4, FreshRequest DEF DocsInv, DocsTypeOK
  <1>5. CASE r.key # Fresh
    <2>1. uuids' = uuids /\ r.edited /\ r.key <= uuids
      BY <1>3, <1>5
    <2>2. SentAsMeant'
      BY <1>3 DEF DocsInv, SentAsMeant, KeyNamesOneRequest, AskedAboutItself
    <2> QED BY <1>1, <1>2, <1>3, <2>1, <2>2 DEF DocsInv, DocsTypeOK
  <1> QED BY <1>4, <1>5

LEMMA EditKeeps ==
    ASSUME DocsInv, NEW text \in Texts, Edit(text)
    PROVE  DocsInv'
  <1> DEFINE q == bench.request
  <1>1. q \in RequestRow /\ Fresh \in Nat /\ q.key <= uuids
    BY DEF DocsInv, DocsTypeOK, BenchRow, Fresh
  <1> HIDE DEF q
  <1>2. /\ MaterialEdit(q, text) \in RequestRow
        /\ MaterialEdit(q, text).key = IF q.edited THEN q.key ELSE Fresh
        /\ MaterialEdit(q, text).edited = q.edited
    BY <1>1, MaterialEditRow
  <1>3. \/ MaterialEdit(q, text).key = Fresh
        \/ MaterialEdit(q, text).key <= uuids /\ MaterialEdit(q, text).edited
    BY <1>1, <1>2
  <1> QED BY <1>2, <1>3, SetRequestKeeps DEF Edit, q

LEMMA KeyKeeps ==
    ASSUME DocsInv, GenerateKey \/ \E key \in Typed .. uuids : TypeKey(key)
    PROVE  DocsInv'
  <1>1. bench.request \in RequestRow /\ Fresh \in Nat /\ uuids \in Nat
    BY DEF DocsInv, DocsTypeOK, BenchRow, Fresh
  <1>2. CASE GenerateKey
    <2> DEFINE r == [bench.request EXCEPT !.key = Fresh, !.edited = FALSE, !.changed = FALSE]
    <2>1. r \in RequestRow /\ r.key = Fresh
      BY <1>1 DEF RequestRow
    <2>2. SetRequest(r)
      BY <1>2 DEF GenerateKey
    <2> HIDE DEF r
    <2> QED BY <2>1, <2>2, SetRequestKeeps
  <1>3. CASE \E key \in Typed .. uuids : TypeKey(key)
    <2>1. PICK key \in Typed .. uuids : TypeKey(key)
      BY <1>3
    <2> DEFINE r == [bench.request EXCEPT !.key = key, !.edited = TRUE, !.changed = FALSE]
    <2>2. key \in Nat /\ key <= uuids
      BY <1>1 DEF Typed
    <2>3. r \in RequestRow /\ r.key <= uuids /\ r.edited
      BY <1>1, <2>2 DEF RequestRow
    <2>4. SetRequest(r)
      BY <2>1 DEF TypeKey
    <2> HIDE DEF r
    <2> QED BY <2>3, <2>4, SetRequestKeeps
  <1> QED BY <1>2, <1>3

\* What is sent carries the key, the text and the answered question of this page.
LEMMA executeKeeps ==
    ASSUME DocsInv, AtBench, execute, UNCHANGED <<route, credential, environment, uuids>>
    PROVE  DocsInv'
  <1>1. CASE open' = open \cup {"credential"} /\ UNCHANGED <<bench, sent>>
    BY <1>1, SameRequest DEF DocsInv, DocsTypeOK
  <1>2. CASE bench' = [bench EXCEPT !.confirming = route] /\ UNCHANGED <<open, sent>>
    <2>1. SentAsMeant'
      BY <1>2 DEF DocsInv, SentAsMeant, KeyNamesOneRequest, AskedAboutItself
    <2>2. bench' \in BenchRow /\ bench'.request = bench.request /\ bench'.confirming = route
      BY <1>2 DEF DocsInv, DocsTypeOK, BenchRow
    <2> QED BY <1>2, <2>1, <2>2 DEF DocsInv, DocsTypeOK
  <1>3. CASE /\ route \in Destructive => bench.confirming # NoOperation
             /\ sent' = sent \cup {BuildRequest(route, bench)}
             /\ bench' = [bench EXCEPT !.busy = TRUE, !.confirming = NoOperation, !.call = route]
             /\ UNCHANGED open
    <2> DEFINE n == BuildRequest(route, bench)
    <2>1. /\ bench' \in BenchRow /\ bench'.request = bench.request
          /\ bench'.confirming = NoOperation
      BY <1>3 DEF DocsInv, DocsTypeOK, BenchRow
    <2>2. /\ n.op = route /\ n.text = bench.request.text /\ n.key = bench.request.key
          /\ n.typed = bench.request.edited /\ n.asked = bench.confirming
      BY DEF BuildRequest
    <2>3. n.key \in Nat /\ n.key <= uuids /\ route \in Operations
      BY <2>2 DEF DocsInv, DocsTypeOK, BenchRow, RequestRow, AtBench
    <2>4. sent' = sent \cup {n}
      BY <1>3
    <2> HIDE DEF n
    <2>5. KeyNamesOneRequest'
      <3>1. SUFFICES ASSUME NEW s \in sent', NEW t \in sent',
                            s.op \in Keyed /\ t.op \in Keyed /\ s.key = t.key,
                            ~s.typed /\ ~t.typed
                     PROVE  s.op = t.op /\ s.text = t.text
        BY DEF KeyNamesOneRequest
      <3> QED BY <2>2, <2>3, <2>4, <3>1 DEF DocsInv, SentAsMeant, KeyNamesOneRequest
    <2>6. AskedAboutItself'
      BY <1>3, <2>2, <2>4 DEF DocsInv, SentAsMeant, AskedAboutItself
    <2>7. \A s \in sent' : s.key \in Nat /\ s.key <= uuids
      BY <2>3, <2>4 DEF DocsInv
    <2>8. ~bench.request.edited =>
            \A s \in sent' : s.key = bench.request.key /\ ~s.typed =>
               s.op = route /\ s.text = bench.request.text
      BY <2>2, <2>3, <2>4 DEF DocsInv
    <2> QED BY <1>3, <2>1, <2>5, <2>6, <2>7, <2>8 DEF DocsInv, DocsTypeOK, SentAsMeant
  <1> QED BY <1>1, <1>2, <1>3 DEF execute

\* Everything else leaves the request on the bench as it is.
LEMMA BenchKeeps ==
    ASSUME DocsInv,
           \/ \E layer \in {"nav", "search", "credential"} : Open(layer)
           \/ \E given \in BOOLEAN : SetCredential(given)
           \/ \E e \in {"local", "sandbox"} : SetEnvironment(e)
           \/ \E m \in {"try", "code"} : SetMode(m)
           \/ Close \/ CancelQuestion \/ AnswerShown
    PROVE  DocsInv'
  <1>0. /\ bench \in BenchRow /\ bench.confirming \in {NoOperation, bench.confirming}
        /\ open \subseteq {"nav", "search", "credential"}
    BY DEF DocsInv, DocsTypeOK
  <1>1. CASE \E layer \in {"nav", "search", "credential"} : Open(layer)
    BY <1>0, <1>1, SameRequest DEF Open
  <1>2. CASE \E given \in BOOLEAN : SetCredential(given)
    BY <1>0, <1>2, SameRequest DEF SetCredential
  <1>3. CASE \E e \in {"local", "sandbox"} : SetEnvironment(e)
    BY <1>0, <1>3, SameRequest DEF SetEnvironment
  <1>4. CASE \E m \in {"try", "code"} : SetMode(m)
    <2>1. PICK m \in {"try", "code"} : SetMode(m)
      BY <1>4
    <2> DEFINE b == [bench EXCEPT !.mode = m]
    <2>2. b \in BenchRow /\ b.request = bench.request /\ b.confirming = bench.confirming
      BY <1>0 DEF BenchRow
    <2>3. bench' = b /\ UNCHANGED <<route, open, uuids, sent>>
      BY <2>1 DEF SetMode
    <2> HIDE DEF b
    <2> QED BY <1>0, <2>2, <2>3, SameRequest
  <1>5. CASE Close
    BY <1>0, <1>5, SameRequest DEF Close
  <1>6. CASE CancelQuestion
    <2> DEFINE b == [bench EXCEPT !.confirming = NoOperation]
    <2>1. b \in BenchRow /\ b.request = bench.request /\ b.confirming = NoOperation
      BY <1>0 DEF BenchRow
    <2>2. bench' = b /\ UNCHANGED <<route, open, uuids, sent>>
      BY <1>6 DEF CancelQuestion
    <2> HIDE DEF b
    <2> QED BY <1>0, <2>1, <2>2, SameRequest
  <1>7. CASE AnswerShown
    <2> DEFINE b == [bench EXCEPT !.busy = FALSE, !.call = NoOperation, !.result = bench.call]
    <2>1. b \in BenchRow /\ b.request = bench.request /\ b.confirming = bench.confirming
      BY <1>0 DEF BenchRow
    <2>2. bench' = b /\ UNCHANGED <<route, open, uuids, sent>>
      BY <1>7 DEF AnswerShown
    <2> HIDE DEF b
    <2> QED BY <1>0, <2>1, <2>2, SameRequest
  <1> QED BY <1>1, <1>2, <1>3, <1>4, <1>5, <1>6, <1>7

LEMMA DocsInitially == DocsInit => DocsInv
  <1>1. NoWorkbench \in BenchRow /\ NoWorkbench.confirming = NoOperation
    BY DEF NoWorkbench, BenchRow, NoRequest, RequestRow, Texts, Typed
  <1>2. NoWorkbench.request.key = 0
    BY DEF NoWorkbench, NoRequest, Typed
  <1> QED BY <1>1, <1>2 DEF DocsInit, DocsInv, DocsTypeOK, SentAsMeant, KeyNamesOneRequest,
                            AskedAboutItself

LEMMA DocsStep == DocsInv /\ [DocsNext]_docsVars => DocsInv'
  <1> SUFFICES ASSUME DocsInv, [DocsNext]_docsVars PROVE DocsInv'
    OBVIOUS
  <1>1. CASE UNCHANGED docsVars
    BY <1>1, SameRequest DEF docsVars, DocsInv, DocsTypeOK
  <1>2. ASSUME NEW r \in Operations \cup {"guide"},
               NavigationLink(r) \/ SearchResult(r) \/ PageLink(r)
        PROVE  DocsInv'
    <2>1. Navigate(r) /\ open' \subseteq {"nav", "search", "credential"}
      BY <1>2 DEF NavigationLink, SearchResult, PageLink, DocsInv, DocsTypeOK
    <2> QED BY <2>1, NavigateKeeps
  <1>3. ASSUME Send \/ Understood PROVE DocsInv'
    BY <1>3, executeKeeps DEF Send, Understood, Trying
  <1> QED BY <1>1, <1>2, <1>3, BenchKeeps, EditKeeps, KeyKeeps DEF DocsNext

\* Wherever the page has gone since, whatever was edited, and whatever operations there
\* are: two requests go out under one drawn key only when they are the same, and what
\* cannot be undone goes out after its own question.
THEOREM RequestsAreSentAsMeant == DocsSpec => []SentAsMeant
  <1>1. DocsInv => SentAsMeant
    BY DEF DocsInv
  <1> QED BY <1>1, DocsInitially, DocsStep, PTL DEF DocsSpec

-----------------------------------------------------------------------------
(* The operator's session.                                                 *)

SessionSpec == SessionInit /\ [][SessionNext]_sessionVars

SessionTypeOK ==
    /\ where \in Routes
    /\ session \in {"NONE", "SETUP", "FULL"}
    /\ loading \in BOOLEAN
    /\ asked \subseteq Calls
    /\ browser \in {"NONE", "SETUP", "FULL"}
    /\ account \in {"INVITED", "READY"}

\* The tab has followed its redirects; and a session that asks for no password, or a
\* sign-in under way, is one of an account that has its password.
SessionInv ==
    /\ SessionTypeOK
    /\ Redirect(where, session, loading) = where
    /\ session = "FULL" \/ browser = "FULL" \/ "signInWithPassword" \in asked =>
         account = "READY"

\* Following the redirects ends, at a route that belongs to what the tab knows.
LEMMA RedirectsEnd ==
    ASSUME NEW r \in Routes, NEW s \in {"NONE", "SETUP", "FULL"}, NEW l \in BOOLEAN
    PROVE  LET to == Redirect(Redirect(r, s, l), s, l)
           IN  to \in Routes /\ Redirect(to, s, l) = to
  BY DEF Redirect, Routes, Inside, FromSignIn, ProtectedAdmin

LEMMA GoesSomewhere ==
    ASSUME NEW r \in Routes, session' \in {"NONE", "SETUP", "FULL"}, loading' \in BOOLEAN, Goes(r)
    PROVE  where' \in Routes /\ Redirect(where, session, loading)' = where'
  <1> DEFINE s == session' l == loading'
  <1>1. where' = Redirect(Redirect(r, s, l), s, l)
    BY DEF Goes
  <1>2. where' \in Routes /\ Redirect(where', s, l) = where'
    BY <1>1, RedirectsEnd
  <1> QED BY <1>2 DEF Redirect, FromSignIn, ProtectedAdmin

LEMMA SessionInitially == SessionInit => SessionInv
  BY DEF SessionInit, SessionInv, SessionTypeOK, Redirect, Routes, Inside, FromSignIn,
         ProtectedAdmin, Described, Calls

\* A tab that begins again.
LEMMA RestartKeeps ==
    ASSUME SessionInv, NEW r \in Routes, Restart(r), browser' \in {browser, Described}
    PROVE  SessionInv'
  BY DEF SessionInv, SessionTypeOK, Restart, Described, Redirect, Inside, Routes, FromSignIn,
         ProtectedAdmin, Calls

\* A call submitted: a wait begins, and a tab that waits stays.
LEMMA SubmitKeeps ==
    ASSUME SessionInv, NEW call \in Calls, Submit(call)
    PROVE  SessionInv'
  <1>1. /\ UNCHANGED <<where, session, browser, account>>
        /\ asked' = asked \cup {call} /\ loading' \in {TRUE, loading}
        /\ call = "signInWithPassword" => account = "READY"
    BY DEF SessionInv, SessionTypeOK, Submit, FormShown, SignInForm
  <1>2. Redirect(where, session, TRUE) = where
    BY DEF Redirect, FromSignIn, ProtectedAdmin
  <1>3. Redirect(where, session, loading)' = Redirect(where, session, loading')
    BY <1>1 DEF Redirect, FromSignIn, ProtectedAdmin
  <1>4. Redirect(where, session, loading)' = where'
    BY <1>1, <1>2, <1>3 DEF SessionInv
  <1> QED BY <1>1, <1>4 DEF SessionInv, SessionTypeOK

\* A step that follows the redirects with what it has learnt of the session.
LEMMA GoesKeeps ==
    ASSUME SessionInv, NEW r \in Routes, Goes(r),
           loading' \in BOOLEAN, asked' \subseteq asked,
           account' \in {account, "READY"},
           session' \in {session, browser, "NONE"} \/ (session' = "FULL" /\ account' = "READY"),
           browser' \in {browser, "NONE"} \/ (browser' = "FULL" /\ account' = "READY")
    PROVE  SessionInv'
  <1>1. session' \in {"NONE", "SETUP", "FULL"} /\ browser' \in {"NONE", "SETUP", "FULL"}
    BY DEF SessionInv, SessionTypeOK
  <1>2. where' \in Routes /\ Redirect(where, session, loading)' = where'
    BY <1>1, GoesSomewhere
  <1> QED BY <1>1, <1>2 DEF SessionInv, SessionTypeOK

LEMMA SessionStep == SessionInv /\ [SessionNext]_sessionVars => SessionInv'
  <1> SUFFICES ASSUME SessionInv, [SessionNext]_sessionVars PROVE SessionInv'
    OBVIOUS
  <1>0. where \in Routes /\ loading \in BOOLEAN /\ {"sign-in", "console", "set-password"} \subseteq Routes
    BY DEF SessionInv, SessionTypeOK, Routes, Inside
  <1>1. CASE UNCHANGED sessionVars
    BY <1>1 DEF SessionInv, SessionTypeOK, sessionVars, Redirect, FromSignIn, ProtectedAdmin
  <1>2. CASE AuthStateChange
    BY <1>0, <1>2, GoesKeeps DEF AuthStateChange, Stays
  <1>3. CASE OpenLink
    BY <1>0, <1>3, RestartKeeps DEF OpenLink
  <1>4. CASE OthersSession
    BY <1>4 DEF OthersSession, SessionInv, SessionTypeOK, Described, Redirect, FromSignIn,
                ProtectedAdmin
  <1>5. ASSUME NEW r \in Routes, FollowLink(r) PROVE SessionInv'
    BY <1>0, <1>5, GoesKeeps DEF FollowLink
  <1>6. ASSUME NEW r \in Routes, Reload(r) PROVE SessionInv'
    BY <1>6, RestartKeeps DEF Reload
  <1>7. ASSUME NEW call \in Calls, CallFails(call) PROVE SessionInv'
    BY <1>0, <1>7, GoesKeeps DEF CallFails, Stays
  <1>8. CASE signIn
    <2>1. account = "READY"
      BY <1>8 DEF signIn, SessionInv
    <2> QED BY <1>0, <1>8, <2>1, GoesKeeps DEF signIn
  <1>9. CASE sendPasswordReset
    BY <1>0, <1>9, GoesKeeps DEF sendPasswordReset, Stays
  <1>10. CASE updatePassword
    BY <1>0, <1>10, GoesKeeps DEF updatePassword, Stays
  <1>11. CASE signOut
    BY <1>0, <1>11, GoesKeeps DEF signOut
  <1> QED BY <1>1, <1>2, <1>3, <1>4, <1>5, <1>6, <1>7, <1>8, <1>9, <1>10, <1>11, SubmitKeeps
          DEF SessionNext

\* Whichever way into the console, the link, a reload, another tab, an old session or a
\* sign-in, an invited administrator chooses a password first.
THEOREM PasswordBeforeConsole == SessionSpec => []SetupBeforeConsole
  <1>1. SessionInv => SetupBeforeConsole
    BY DEF SessionInv, SessionTypeOK, SetupBeforeConsole, ConsoleShown, Redirect, ProtectedAdmin,
           Inside, FromSignIn
  <1> QED BY <1>1, SessionInitially, SessionStep, PTL DEF SessionSpec
=============================================================================
