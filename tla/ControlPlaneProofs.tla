-------------------------- MODULE ControlPlaneProofs --------------------------
(* Theorems about what the agents' scripts keep: ControlPlane, for any         *)
(* sessions and any number of handoffs, and CiIncident, for any runs, commits  *)
(* and failures.                                                               *)
EXTENDS ControlPlane, CiIncident, Integers, WellFoundedInduction, TLAPS

Full(n) == [d \in ControlFiles |-> n]
Below(u, v) == \A d \in ControlFiles : u[d] <= v[d]

\* The documents are those of the handoff in hand and of the one before it.
NearlyFull(v, n) == \A d \in ControlFiles : v[d] \in {n - 1, n}

\* What a session has passed through: the documents as they are now, only ever
\* newer, never of more than two handoffs, and whole between two handoffs.
PassedThrough(M) ==
  /\ docs \in M
  /\ \A v \in M : Below(v, docs) /\ \E n \in Handoffs : NearlyFull(v, n)
  /\ \A u, v \in M : Below(u, v) \/ Below(v, u)
  /\ \A u, v \in M, n \in Handoffs : Below(u, Full(n)) /\ Below(Full(n), v) => Full(n) \in M

ReadsAreMoments ==
  \A s \in Sessions : Reading(s) =>
    /\ PassedThrough(moments[s])
    /\ \A d \in ControlFiles \ cli[s].unread : \E v \in moments[s] : v[d] = cli[s].seen[d]

SnapshotsInspect ==
  \A s \in Sessions : cli[s].step \in {"write", "rename"} => Inspects(cli[s].seen)

ControlInv ==
  /\ ControlTypeOK /\ NearlyFull(docs, latest) /\ ReadsAreMoments
  /\ SnapshotsInspect /\ RuntimeFileIsWhole

-----------------------------------------------------------------------------
\* The values of a phase order rise with the handoff, and by no more than it does.
LEMMA Monotone ==
  ASSUME NEW f \in PhaseOrders, NEW m \in Handoffs, NEW n \in Handoffs, m <= n
  PROVE  f[m] <= f[n] /\ f[m] \in Int /\ f[n] \in Int
<1>1. f[n] - f[m] \in 0 .. (n - m)
  BY DEF PhaseOrders
<1>2. f[n] \in Handoffs /\ f[m] \in Handoffs
  BY DEF PhaseOrders
<1> QED BY <1>1, <1>2, HandoffAssumption DEF Handoffs

\* Handoffs of one position lie side by side.
AtPosition(v, p) == \A d \in ControlFiles : position[v[d]] = p

\* A moment that a document of position p was read at, and that was not all at
\* p: either x is the first handoff at p and no document is past it,
Starts(v, x, p) ==
  /\ x \in Handoffs /\ x - 1 \in Handoffs /\ position[x] = p /\ position[x - 1] # p
  /\ Below(v, Full(x))

\* or it is the last one, and no document is before it.
Ends(v, x, p) ==
  /\ x \in Handoffs /\ x + 1 \in Handoffs /\ position[x] = p /\ position[x + 1] # p
  /\ Below(Full(x), v)

\* Where one document is at a position and another is not, the position begins or ends.
LEMMA StartsOrEnds ==
  ASSUME ControlTypeOK, NEW v \in Versions, NEW n \in Handoffs, NearlyFull(v, n),
         NEW d \in ControlFiles, NEW p, position[v[d]] = p, ~AtPosition(v, p)
  PROVE  Starts(v, v[d], p) \/ Ends(v, v[d], p)
<1>1. PICK e \in ControlFiles : position[v[e]] # p
  BY DEF AtPosition
<1>2. /\ v[d] \in Handoffs /\ v[e] \in Handoffs /\ v[d] # v[e]
      /\ v[d] \in {n - 1, n} /\ v[e] \in {n - 1, n} /\ n \in Int
      /\ \A c \in ControlFiles : v[c] \in {n - 1, n} /\ v[c] \in Int
  BY <1>1, HandoffAssumption DEF Versions, NearlyFull, Handoffs
<1>3. CASE v[d] = n /\ v[e] = n - 1
  BY <1>1, <1>2, <1>3 DEF Starts, Below, Full
<1>4. CASE v[d] = n - 1 /\ v[e] = n
  <2>1. v[d] + 1 = v[e]
    BY <1>2, <1>4
  <2> QED BY <1>1, <1>2, <1>4, <2>1 DEF Ends, Below, Full
<1> QED BY <1>2, <1>3, <1>4

\* Nothing at a position is older than the handoff that begins it.
LEMMA FirstBeforeLast ==
  ASSUME ControlTypeOK, NEW u, NEW v, NEW x, NEW y, NEW p, Starts(u, x, p),
         position[y] = p, y \in Handoffs
  PROVE  x <= y
<1>1. x \in Int /\ y \in Int /\ x - 1 \in Handoffs /\ x \in Handoffs
  BY HandoffAssumption DEF Starts, Handoffs
<1>2. CASE y <= x - 1
  <2>1. position[y] <= position[x - 1] /\ position[x - 1] <= position[x]
        /\ position[y] \in Int /\ position[x - 1] \in Int
    BY <1>1, <1>2, Monotone DEF ControlTypeOK
  <2> QED BY <2>1 DEF Starts
<1> QED BY <1>1, <1>2

\* Nothing at a position is younger than the handoff that ends it.
LEMMA LastAfterFirst ==
  ASSUME ControlTypeOK, NEW v, NEW x, NEW y, NEW p, Ends(v, y, p),
         position[x] = p, x \in Handoffs
  PROVE  x <= y
<1>1. x \in Int /\ y \in Int /\ y + 1 \in Handoffs /\ y \in Handoffs
  BY HandoffAssumption DEF Ends, Handoffs
<1>2. CASE y + 1 <= x
  <2>1. position[y] <= position[y + 1] /\ position[y + 1] <= position[x]
        /\ position[y] \in Int /\ position[y + 1] \in Int
    BY <1>1, <1>2, Monotone DEF ControlTypeOK
  <2> QED BY <2>1 DEF Ends
<1> QED BY <1>1, <1>2

-----------------------------------------------------------------------------
(* A session that saw one position in all documents passed through a moment at *)
(* which they were at it together.                                            *)

\* Documents read one after another that agree on a position were at it together once.
LEMMA OneMoment ==
  ASSUME ControlTypeOK, NEW M \in SUBSET Versions, PassedThrough(M), NEW seen \in Versions, NEW p,
         \A d \in ControlFiles : \E v \in M : v[d] = seen[d],
         AtPosition(seen, p)
  PROVE  \E v \in M : AtPosition(v, p)
<1> SUFFICES ASSUME \A v \in M : ~AtPosition(v, p) PROVE FALSE
  OBVIOUS
<1> USE DEF ControlFiles
<1>1. PICK a \in M, b \in M, c \in M :
        a["manifest"] = seen["manifest"] /\ b["state"] = seen["state"] /\ c["cursor"] = seen["cursor"]
  OBVIOUS
<1> DEFINE x == seen["manifest"]
           y == seen["state"]
           z == seen["cursor"]
<1>2. /\ x \in Handoffs /\ y \in Handoffs /\ z \in Handoffs
      /\ position[x] = p /\ position[y] = p /\ position[z] = p
  BY DEF Versions, AtPosition
<1>3. \A v \in M : v \in Versions /\ \E n \in Handoffs : NearlyFull(v, n)
  BY DEF PassedThrough
<1>4. /\ Starts(a, x, p) \/ Ends(a, x, p)
      /\ Starts(b, y, p) \/ Ends(b, y, p)
      /\ Starts(c, z, p) \/ Ends(c, z, p)
  BY <1>1, <1>2, <1>3, StartsOrEnds
<1>5. \A n \in Handoffs : position[n] = p => Full(n) \notin M
  BY DEF AtPosition, Full
<1>6. ASSUME NEW u \in M, NEW v \in M, NEW i \in Handoffs, NEW j \in Handoffs,
             position[i] = p, position[j] = p, Starts(u, i, p), Ends(v, j, p)
      PROVE  FALSE
  <2>1. i <= j
    BY <1>6, FirstBeforeLast
  <2>2. Below(u, Full(i)) /\ Below(Full(i), v)
    <3>1. v \in Versions /\ i \in Int /\ j \in Int
      BY HandoffAssumption DEF Handoffs
    <3> QED BY <1>6, <2>1, <3>1, HandoffAssumption DEF Starts, Ends, Below, Full, Versions, Handoffs
  <2> QED BY <1>5, <1>6, <2>2 DEF PassedThrough
<1>7. \A v \in M, d \in ControlFiles : v[d] \in Int
  BY HandoffAssumption DEF Versions, Handoffs
<1>8. x \in Int /\ y \in Int /\ z \in Int
  BY <1>2, HandoffAssumption DEF Handoffs
<1>9. ASSUME NEW u \in M, x = y, y = z, \A d \in ControlFiles : u[d] = x PROVE FALSE
  BY <1>2, <1>9 DEF AtPosition
<1>10. \E u \in M : Below(a, u) /\ Below(b, u) /\ Below(c, u) /\ u \in {a, b, c}
  BY <1>1, <1>7 DEF PassedThrough, Below
<1>11. \E u \in M : Below(u, a) /\ Below(u, b) /\ Below(u, c) /\ u \in {a, b, c}
  BY <1>1, <1>7 DEF PassedThrough, Below
<1>12. CASE Starts(a, x, p) /\ Starts(b, y, p) /\ Starts(c, z, p)
  <2>1. x = y /\ y = z
    <3>1. x <= y /\ y <= z /\ z <= x
      BY <1>2, <1>12, FirstBeforeLast
    <3> QED BY <1>8, <3>1
  <2>2. PICK u \in M : Below(a, u) /\ Below(b, u) /\ Below(c, u) /\ u \in {a, b, c}
    BY <1>10
  <2>3. \A d \in ControlFiles : u[d] <= x
    BY <1>12, <2>1, <2>2 DEF Starts, Below, Full
  <2>4. \A d \in ControlFiles : x <= u[d]
    BY <1>1, <2>1, <2>2 DEF Below
  <2>5. \A d \in ControlFiles : u[d] = x
    BY <1>7, <1>8, <2>3, <2>4
  <2> QED BY <1>9, <2>1, <2>5
<1>13. CASE Ends(a, x, p) /\ Ends(b, y, p) /\ Ends(c, z, p)
  <2>1. x = y /\ y = z
    <3>1. x <= y /\ y <= z /\ z <= x
      BY <1>2, <1>13, LastAfterFirst
    <3> QED BY <1>8, <3>1
  <2>2. PICK u \in M : Below(u, a) /\ Below(u, b) /\ Below(u, c) /\ u \in {a, b, c}
    BY <1>11
  <2>3. \A d \in ControlFiles : x <= u[d]
    BY <1>13, <2>1, <2>2 DEF Ends, Below, Full
  <2>4. \A d \in ControlFiles : u[d] <= x
    BY <1>1, <2>1, <2>2 DEF Below
  <2>5. \A d \in ControlFiles : u[d] = x
    BY <1>7, <1>8, <2>3, <2>4
  <2> QED BY <1>9, <2>1, <2>5
<1> QED BY <1>2, <1>4, <1>6, <1>12, <1>13

\* The same of an inspection, which asks for one handoff of state and cursor.
LEMMA OneInspectedMoment ==
  ASSUME ControlTypeOK, NEW M \in SUBSET Versions, PassedThrough(M), NEW seen \in Versions,
         \A d \in ControlFiles : \E v \in M : v[d] = seen[d],
         Inspects(seen)
  PROVE  \E v \in M : SaysOf(v) = SaysOf(seen)
<1> USE DEF ControlFiles
<1> DEFINE n == seen["state"]
           m == seen["manifest"]
           p == position[n]
<1>1. /\ n \in Handoffs /\ m \in Handoffs /\ seen["cursor"] = n /\ position[m] = p
      /\ n \in Int /\ m \in Int
  BY HandoffAssumption DEF Inspects, SamePosition, Versions, Handoffs
<1>2. \A v \in M : /\ v \in Versions /\ \A d \in ControlFiles : v[d] \in Int
                   /\ \E k \in Handoffs : NearlyFull(v, k)
  BY HandoffAssumption DEF PassedThrough, Versions, Handoffs
<1>3. ASSUME NEW v \in M, v["state"] = n, v["cursor"] = n, position[v["manifest"]] = p
      PROVE  \E w \in M : SaysOf(w) = SaysOf(seen)
  BY <1>1, <1>3 DEF SaysOf
<1>4. CASE Full(n) \in M
  BY <1>3, <1>4 DEF Full
<1>5. CASE Full(n) \notin M
  <2>1. PICK a \in M, b \in M, c \in M : a["manifest"] = m /\ b["state"] = n /\ c["cursor"] = n
    BY <1>1
  <2>2. ASSUME NEW u \in M, NEW v \in M, Below(u, Full(n)), Below(Full(n), v) PROVE FALSE
    BY <1>1, <1>5, <2>2 DEF PassedThrough
  <2>3. PICK v \in M : v["state"] = n /\ v["cursor"] = n
    <3>1. CASE b["cursor"] = n \/ c["state"] = n
      BY <2>1, <3>1
    <3>2. CASE b["cursor"] # n /\ c["state"] # n
      <4>1. PICK k \in Handoffs : NearlyFull(b, k)
        BY <1>2
      <4>2. PICK j \in Handoffs : NearlyFull(c, j)
        BY <1>2
      <4>3. k \in Int /\ j \in Int
        BY HandoffAssumption DEF Handoffs
      <4>4. CASE b["cursor"] < n /\ c["state"] > n
        <5>1. Below(b, Full(n)) /\ Below(Full(n), c)
          BY <1>1, <1>2, <2>1, <4>1, <4>2, <4>3, <4>4 DEF NearlyFull, Below, Full
        <5> QED BY <2>2, <5>1
      <4>5. CASE b["cursor"] > n /\ c["state"] < n
        <5>1. Below(c, Full(n)) /\ Below(Full(n), b)
          BY <1>1, <1>2, <2>1, <4>1, <4>2, <4>3, <4>5 DEF NearlyFull, Below, Full
        <5> QED BY <2>2, <5>1
      <4>6. Below(b, c) \/ Below(c, b)
        BY DEF PassedThrough
      <4> QED BY <1>1, <1>2, <2>1, <3>2, <4>4, <4>5, <4>6 DEF Below
    <3> QED BY <3>1, <3>2
  <2>4. CASE position[v["manifest"]] = p
    BY <1>3, <2>3, <2>4
  <2>5. CASE position[v["manifest"]] # p
    <3>1. Starts(v, n, p) \/ Ends(v, n, p)
      <4>1. ~AtPosition(v, p) /\ position[v["state"]] = p
        BY <2>3, <2>5 DEF AtPosition
      <4> QED BY <1>2, <2>3, <4>1, StartsOrEnds
    <3>2. Below(a, v) \/ Below(v, a)
      BY DEF PassedThrough
    <3>3. v["manifest"] # n
      BY <2>5
    <3>4. CASE Starts(v, n, p)
      <4>1. n <= m
        BY <1>1, <3>4, FirstBeforeLast
      <4>2. v["manifest"] < m
        BY <1>1, <1>2, <3>3, <3>4, <4>1 DEF Starts, Below, Full
      <4>3. Below(Full(n), a)
        BY <1>1, <1>2, <2>1, <2>3, <3>2, <4>1, <4>2 DEF Below, Full
      <4> QED BY <2>2, <3>4, <4>3 DEF Starts
    <3>5. CASE Ends(v, n, p)
      <4>1. m <= n
        BY <1>1, <3>5, LastAfterFirst
      <4>2. m < v["manifest"]
        BY <1>1, <1>2, <3>3, <3>5, <4>1 DEF Ends, Below, Full
      <4>3. Below(a, Full(n))
        BY <1>1, <1>2, <2>1, <2>3, <3>2, <4>1, <4>2 DEF Below, Full
      <4> QED BY <2>2, <3>5, <4>3 DEF Ends
    <3> QED BY <3>1, <3>4, <3>5
  <2> QED BY <2>4, <2>5
<1> QED BY <1>4, <1>5

-----------------------------------------------------------------------------
(* The invariant *)

CliRecords == [step : Steps, writes : BOOLEAN, unread : SUBSET ControlFiles, seen : Versions]

\* Nothing has been passed through when a session begins to read.
LEMMA FirstMoment ==
  ASSUME ControlTypeOK, NearlyFull(docs, latest)
  PROVE  PassedThrough({docs})
<1>1. /\ latest \in Handoffs /\ docs \in Versions
      /\ \A d \in ControlFiles : docs[d] \in Int
  BY HandoffAssumption DEF ControlTypeOK, Versions, Handoffs
<1>2. Below(docs, docs)
  BY <1>1 DEF Below
<1>3. ASSUME NEW n \in Handoffs, Below(docs, Full(n)), Below(Full(n), docs)
      PROVE  Full(n) = docs
  <2>1. n \in Int
    BY HandoffAssumption DEF Handoffs
  <2>2. \A d \in ControlFiles : docs[d] = n
    BY <1>1, <1>3, <2>1 DEF Below, Full
  <2> QED BY <1>1, <2>2 DEF Full, Versions
<1> QED BY <1>1, <1>2, <1>3 DEF PassedThrough

\* A document that is saved adds a moment to those a reader passes through.
LEMMA NextMoment ==
  ASSUME ControlTypeOK, NearlyFull(docs, latest), NEW d \in ControlFiles, SaveDocument(d),
         NEW saved, docs' = saved, NEW M \in SUBSET Versions, PassedThrough(M)
  PROVE  /\ NearlyFull(docs, latest)' /\ saved \in Versions
         /\ PassedThrough(M \cup {saved})'
<1>1. /\ latest \in Handoffs /\ latest \in Int /\ docs[d] < latest /\ docs[d] = latest - 1
      /\ saved = [docs EXCEPT ![d] = latest] /\ latest' = latest
      /\ \A e \in ControlFiles : docs[e] \in Int
  BY HandoffAssumption DEF SaveDocument, ControlTypeOK, Versions, Handoffs, NearlyFull
<1>2. /\ saved \in Versions /\ saved[d] = latest
      /\ \A e \in ControlFiles : saved[e] = (IF e = d THEN latest ELSE docs[e]) /\ saved[e] \in Int
  BY <1>1 DEF ControlTypeOK, Versions
<1>3. NearlyFull(saved, latest)
  BY <1>1, <1>2 DEF NearlyFull
<1>4. \A v \in M : Below(v, docs) /\ \A e \in ControlFiles : v[e] \in Int
  BY HandoffAssumption DEF PassedThrough, Versions, Handoffs
<1>5. \A v \in M \cup {saved} : Below(v, saved)
  <2>1. ASSUME NEW v \in M, NEW e \in ControlFiles PROVE v[e] <= saved[e]
    <3>1. v[e] <= docs[e] /\ v[e] \in Int
      BY <1>4 DEF Below
    <3> QED BY <1>1, <1>2, <3>1
  <2> QED BY <1>2, <2>1 DEF Below
<1>6. \A v \in M \cup {saved} : \E n \in Handoffs : NearlyFull(v, n)
  BY <1>1, <1>3 DEF PassedThrough
<1>7. \A u, v \in M \cup {saved} : Below(u, v) \/ Below(v, u)
  BY <1>5 DEF PassedThrough
<1>8. ASSUME NEW u \in M \cup {saved}, NEW v \in M \cup {saved}, NEW n \in Handoffs,
             Below(u, Full(n)), Below(Full(n), v)
      PROVE  Full(n) \in M \cup {saved}
  <2>1. n \in Int
    BY HandoffAssumption DEF Handoffs
  <2>2. CASE Below(Full(n), docs) /\ u \in M
    BY <1>8, <2>2 DEF PassedThrough
  <2>3. CASE Below(saved, Full(n)) /\ Below(Full(n), saved)
    <3>1. \A e \in ControlFiles : saved[e] = n
      BY <1>2, <2>1, <2>3 DEF Below, Full
    <3> QED BY <1>2, <3>1 DEF Full, Versions
  <2>4. Below(Full(n), saved)
    BY <1>2, <1>4, <1>5, <1>8, <2>1 DEF Below, Full
  <2>5. CASE ~Below(Full(n), docs)
    <3>1. \A e \in ControlFiles : e # d => n <= docs[e]
      BY <1>2, <2>4 DEF Below, Full
    <3>2. docs[d] < n /\ n <= latest
      BY <1>1, <1>2, <2>1, <2>4, <2>5, <3>1 DEF Below, Full
    <3>3. n = latest
      BY <1>1, <2>1, <3>2
    <3>4. Below(saved, Full(n))
      BY <1>1, <1>2, <1>3, <3>3 DEF NearlyFull, Below, Full
    <3> QED BY <2>3, <2>4, <3>4
  <2> QED BY <1>8, <2>2, <2>3, <2>4, <2>5
<1> DEFINE passed == M \cup {saved}
<1>9. /\ saved \in passed
      /\ \A v \in passed : Below(v, saved) /\ \E n \in Handoffs : NearlyFull(v, n)
      /\ \A u, v \in passed : Below(u, v) \/ Below(v, u)
      /\ \A u, v \in passed, n \in Handoffs :
           Below(u, Full(n)) /\ Below(Full(n), v) => Full(n) \in passed
  BY <1>5, <1>6, <1>7, <1>8
<1> HIDE DEF passed
<1>10. PassedThrough(passed)'
  BY <1>9 DEF PassedThrough, Below, NearlyFull, Full
<1>11. NearlyFull(docs, latest)'
  BY <1>1, <1>3 DEF NearlyFull
<1> QED BY <1>2, <1>10, <1>11 DEF passed

\* A step of a session moves nothing but that session, and perhaps the file.
LEMMA SessionKeeps ==
  ASSUME ControlInv, NEW s \in Sessions, UNCHANGED <<position, latest, docs>>,
         NEW record \in CliRecords, cli' = [cli EXCEPT ![s] = record],
         NEW M \in SUBSET Versions, moments' = [moments EXCEPT ![s] = M],
         record.step \in {"agent", "ops"} =>
           /\ PassedThrough(M)
           /\ \A d \in ControlFiles \ record.unread : \E v \in M : v[d] = record.seen[d],
         record.step \in {"write", "rename"} => Inspects(record.seen),
         file' \in Files, RuntimeFileIsWhole'
  PROVE  ControlInv'
<1>1. ControlTypeOK'
  BY DEF ControlInv, ControlTypeOK, CliRecords
<1>2. NearlyFull(docs, latest)'
  BY DEF ControlInv, NearlyFull
<1>3. /\ cli'[s] = record /\ moments'[s] = M
      /\ \A t \in Sessions : t # s => cli'[t] = cli[t] /\ moments'[t] = moments[t]
  BY DEF ControlInv, ControlTypeOK
<1>4. ReadsAreMoments'
  <2> SUFFICES ASSUME NEW t \in Sessions, Reading(t)'
               PROVE  /\ PassedThrough(moments[t])'
                      /\ \A d \in ControlFiles \ cli'[t].unread :
                           \E v \in moments'[t] : v[d] = cli'[t].seen[d]
    BY DEF ReadsAreMoments
  <2>1. CASE t = s
    <3>1. PassedThrough(M)'
      BY <1>3, <2>1 DEF PassedThrough, Reading, NearlyFull, Below
    <3> QED BY <1>3, <2>1, <3>1 DEF PassedThrough, Reading
  <2>2. CASE t # s
    <3>1. Reading(t)
      BY <1>3, <2>2 DEF Reading
    <3>2. /\ PassedThrough(moments[t])
          /\ \A d \in ControlFiles \ cli[t].unread : \E v \in moments[t] : v[d] = cli[t].seen[d]
      BY <3>1 DEF ControlInv, ReadsAreMoments
    <3> QED BY <1>3, <2>2, <3>2 DEF PassedThrough, NearlyFull, Below
  <2> QED BY <2>1, <2>2
<1>5. SnapshotsInspect'
  BY <1>3 DEF ControlInv, SnapshotsInspect, Inspects, SamePosition
<1> QED BY <1>1, <1>2, <1>4, <1>5 DEF ControlInv

\* Whoever writes the documents, one by one, keeps every read a set of moments.
LEMMA MaintainerKeeps ==
  ASSUME ControlInv, BeginHandoff \/ \E d \in ControlFiles : SaveDocument(d)
  PROVE  ControlInv'
<1>1. CASE BeginHandoff
  <2>1. /\ UNCHANGED <<position, docs, cli, moments, file>> /\ latest' = latest + 1
        /\ latest \in Handoffs /\ latest < MaxHandoffs /\ \A d \in ControlFiles : docs[d] = latest
    BY <1>1 DEF BeginHandoff, ControlInv, ControlTypeOK
  <2>2. latest' \in Handoffs /\ latest = latest' - 1
    BY <2>1, HandoffAssumption DEF Handoffs
  <2>3. ControlTypeOK' /\ NearlyFull(docs, latest)'
    BY <2>1, <2>2 DEF ControlInv, ControlTypeOK, NearlyFull
  <2>4. ReadsAreMoments' /\ SnapshotsInspect' /\ RuntimeFileIsWhole'
    BY <2>1 DEF ControlInv, ReadsAreMoments, PassedThrough, Reading, SnapshotsInspect, RuntimeFileIsWhole,
       Inspects, SamePosition, Below, NearlyFull
  <2> QED BY <2>3, <2>4 DEF ControlInv
<1>2. ASSUME NEW d \in ControlFiles, SaveDocument(d) PROVE ControlInv'
  <2>1. /\ UNCHANGED <<position, latest, cli, file>>
        /\ \A s \in Sessions : moments'[s] =
             IF Reading(s) THEN moments[s] \cup {docs'} ELSE moments[s]
        /\ moments' = [s \in Sessions |-> moments'[s]]
    BY <1>2 DEF SaveDocument
  <2>2. PassedThrough({docs}) /\ docs \in Versions
    BY FirstMoment DEF ControlInv, ControlTypeOK
  <2>3. NearlyFull(docs, latest)' /\ docs' \in Versions
    <3>1. PICK saved : saved = docs'
      OBVIOUS
    <3>2. PICK M \in SUBSET Versions : M = {docs}
      BY <2>2
    <3>3. PassedThrough(M)
      BY <2>2, <3>2
    <3> QED BY <1>2, <3>1, <3>3, NextMoment DEF ControlInv
  <2>4. ControlTypeOK'
    <3>1. \A s \in Sessions : moments'[s] \in SUBSET Versions
      BY <2>1, <2>3 DEF ControlInv, ControlTypeOK
    <3> QED BY <2>1, <2>3, <3>1 DEF ControlInv, ControlTypeOK
  <2>5. ReadsAreMoments'
    <3> SUFFICES ASSUME NEW s \in Sessions, Reading(s)'
                 PROVE  /\ PassedThrough(moments[s])'
                        /\ \A e \in ControlFiles \ cli'[s].unread :
                             \E v \in moments'[s] : v[e] = cli'[s].seen[e]
      BY DEF ReadsAreMoments
    <3>1. /\ Reading(s) /\ PassedThrough(moments[s]) /\ moments[s] \in SUBSET Versions
          /\ moments'[s] = moments[s] \cup {docs'}
          /\ \A e \in ControlFiles \ cli[s].unread : \E v \in moments[s] : v[e] = cli[s].seen[e]
      BY <2>1 DEF Reading, ControlInv, ControlTypeOK, ReadsAreMoments
    <3>2. PassedThrough(moments[s])'
      <4>0. docs' \in Versions
        BY <2>3
      <4>1. PICK M \in SUBSET Versions, saved \in Versions : M = moments[s] /\ saved = docs'
        BY <3>1, <4>0
      <4>2. PassedThrough(M \cup {saved})'
        BY <1>2, <3>1, <4>1, NextMoment DEF ControlInv
      <4>3. moments'[s] = M \cup {saved}
        BY <3>1, <4>1
      <4> QED BY <4>2, <4>3 DEF PassedThrough
    <3> QED BY <2>1, <3>1, <3>2
  <2>6. SnapshotsInspect' /\ RuntimeFileIsWhole'
    BY <2>1 DEF ControlInv, SnapshotsInspect, RuntimeFileIsWhole, Inspects, SamePosition
  <2> QED BY <2>3, <2>4, <2>5, <2>6 DEF ControlInv
<1> QED BY <1>1, <1>2

\* What a session does with its record, one field at a time.
LEMMA ReadFacts ==
  ASSUME NEW record \in CliRecords, NEW d \in ControlFiles, NEW h \in Handoffs
  PROVE  LET new == [record EXCEPT !.unread = @ \ {d}, !.seen[d] = h]
         IN /\ new \in CliRecords /\ new.step = record.step /\ new.unread = record.unread \ {d}
            /\ new.seen = [record.seen EXCEPT ![d] = h]
BY DEF CliRecords, Versions

\* Moving a session to another step keeps its record typed.
LEMMA StepFacts ==
  ASSUME NEW record \in CliRecords, NEW step \in Steps
  PROVE  LET new == [record EXCEPT !.step = step]
         IN new \in CliRecords /\ new.step = step /\ new.seen = record.seen
BY DEF CliRecords

\* An idle record and one that begins to read have read nothing.
LEMMA NewRecords ==
  /\ Idle \in CliRecords /\ Idle.step = "idle"
  /\ \A step \in {"agent", "ops"}, writes \in BOOLEAN :
       /\ Read(step, writes) \in CliRecords
       /\ Read(step, writes).step = step /\ Read(step, writes).unread = ControlFiles
<1>1. [d \in ControlFiles |-> 0] \in Versions
  BY HandoffAssumption DEF Versions, Handoffs
<1> QED BY <1>1 DEF Idle, Read, CliRecords, Steps

\* A session that ends, or begins to read, or goes on to write.
LEMMA EndKeeps ==
  ASSUME ControlInv, NEW s \in Sessions, End(s), UNCHANGED <<position, latest, docs>>,
         file' \in Files, RuntimeFileIsWhole'
  PROVE  ControlInv'
<1>1. cli' = [cli EXCEPT ![s] = Idle] /\ moments' = [moments EXCEPT ![s] = {}]
  BY DEF End
<1>2. Idle \in CliRecords /\ Idle.step \notin {"agent", "ops", "write", "rename"}
  BY NewRecords
<1>3. {} \in SUBSET Versions
  OBVIOUS
<1> QED BY <1>1, <1>2, <1>3, SessionKeeps

\* A read that begins has passed through the present moment only.
LEMMA BeginReadKeeps ==
  ASSUME ControlInv, NEW s \in Sessions, NEW step \in {"agent", "ops"}, NEW writes \in BOOLEAN,
         cli' = [cli EXCEPT ![s] = Read(step, writes)],
         moments' = [moments EXCEPT ![s] = {docs}],
         UNCHANGED <<position, latest, docs, file>>
  PROVE  ControlInv'
<1>1. /\ Read(step, writes) \in CliRecords
      /\ Read(step, writes).step = step /\ Read(step, writes).unread = ControlFiles
  BY NewRecords
<1>2. PassedThrough({docs}) /\ {docs} \in SUBSET Versions
  BY FirstMoment DEF ControlInv, ControlTypeOK
<1>3. file' \in Files /\ RuntimeFileIsWhole'
  BY DEF ControlInv, ControlTypeOK, RuntimeFileIsWhole, Inspects, SamePosition
<1> QED BY <1>1, <1>2, <1>3, SessionKeeps

\* A document that is read is as it is now, and now is a moment passed through.
LEMMA ReadDocumentKeeps ==
  ASSUME ControlInv, NEW s \in Sessions, NEW d \in ControlFiles, ReadDocument(s, d)
  PROVE  ControlInv'
<1> DEFINE record == [cli[s] EXCEPT !.unread = @ \ {d}, !.seen[d] = docs[d]]
<1>1. /\ Reading(s) /\ UNCHANGED <<position, latest, docs, moments, file>>
      /\ cli[s] \in CliRecords /\ cli \in [Sessions -> CliRecords] /\ docs[d] \in Handoffs
      /\ moments[s] \in SUBSET Versions /\ cli[s].seen \in Versions
  BY DEF ReadDocument, ControlInv, ControlTypeOK, CliRecords, Versions
<1>2. cli' = [cli EXCEPT ![s] = record]
  BY <1>1 DEF ReadDocument
<1>3. /\ record \in CliRecords /\ record.step = cli[s].step /\ record.unread = cli[s].unread \ {d}
      /\ record.seen = [cli[s].seen EXCEPT ![d] = docs[d]]
  <2>1. PICK old \in CliRecords, h \in Handoffs : old = cli[s] /\ h = docs[d]
    BY <1>1
  <2> DEFINE new == [old EXCEPT !.unread = @ \ {d}, !.seen[d] = h]
  <2>2. /\ new \in CliRecords /\ new.step = old.step /\ new.unread = old.unread \ {d}
        /\ new.seen = [old.seen EXCEPT ![d] = h]
    BY ReadFacts
  <2>3. new = record
    BY <2>1
  <2> HIDE DEF new, record
  <2> QED BY <2>1, <2>2, <2>3
<1>4. record.step \in {"agent", "ops"}
  BY <1>1, <1>3 DEF Reading
<1>5. /\ PassedThrough(moments[s]) /\ docs \in moments[s]
      /\ \A e \in ControlFiles \ cli[s].unread : \E v \in moments[s] : v[e] = cli[s].seen[e]
  BY <1>1 DEF ControlInv, ReadsAreMoments, PassedThrough
<1>6. \A e \in ControlFiles \ record.unread : \E v \in moments[s] : v[e] = record.seen[e]
  BY <1>1, <1>3, <1>5 DEF Versions
<1>7. moments' = [moments EXCEPT ![s] = moments[s]]
  BY <1>1 DEF ControlInv, ControlTypeOK
<1>8. file' \in Files /\ RuntimeFileIsWhole'
  BY <1>1 DEF ControlInv, ControlTypeOK, RuntimeFileIsWhole, Inspects, SamePosition
<1> HIDE DEF record
<1> QED BY <1>1, <1>2, <1>3, <1>4, <1>5, <1>6, <1>7, <1>8, SessionKeeps

\* The snapshot of a passed inspection is written, and renamed when it is whole.
LEMMA WriteKeeps ==
  ASSUME ControlInv, NEW s \in Sessions, NEW step \in {"write", "rename"}, Inspects(cli[s].seen),
         cli' = [cli EXCEPT ![s].step = step],
         NEW M \in SUBSET Versions, moments' = [moments EXCEPT ![s] = M],
         UNCHANGED <<position, latest, docs, file>>
  PROVE  ControlInv'
<1> DEFINE record == [cli[s] EXCEPT !.step = step]
<1>1. cli[s] \in CliRecords /\ cli \in [Sessions -> CliRecords]
  BY DEF ControlInv, ControlTypeOK, CliRecords
<1>2. cli' = [cli EXCEPT ![s] = record]
  BY <1>1
<1>3. record \in CliRecords /\ record.step = step /\ record.seen = cli[s].seen
  <2>1. PICK old \in CliRecords : old = cli[s]
    BY <1>1
  <2> DEFINE new == [old EXCEPT !.step = step]
  <2>2. new \in CliRecords /\ new.step = step /\ new.seen = old.seen
    <3>1. step \in Steps
      BY DEF Steps
    <3> QED BY <3>1, StepFacts
  <2>3. new = record
    BY <2>1
  <2> HIDE DEF new, record
  <2> QED BY <2>1, <2>2, <2>3
<1>4. file' \in Files /\ RuntimeFileIsWhole'
  BY DEF ControlInv, ControlTypeOK, RuntimeFileIsWhole, Inspects, SamePosition
<1> HIDE DEF record
<1> QED BY <1>2, <1>3, <1>4, SessionKeeps

\* A session that passes its gate ends, goes on to inspect, or goes on to write.
LEMMA PassGateKeeps ==
  ASSUME ControlInv, NEW s \in Sessions, PassGate(s)
  PROVE  ControlInv'
<1>1. /\ UNCHANGED <<position, latest, docs, file>>
      /\ file' \in Files /\ RuntimeFileIsWhole'
  BY DEF PassGate, ControlInv, ControlTypeOK, RuntimeFileIsWhole, Inspects, SamePosition
<1>2. CASE /\ cli' = [cli EXCEPT ![s] = Read("ops", FALSE)]
           /\ moments' = [moments EXCEPT ![s] = {docs}]
  BY <1>1, <1>2, BeginReadKeeps
<1>3. CASE /\ Inspects(cli[s].seen) /\ cli' = [cli EXCEPT ![s].step = "write"]
           /\ moments' = [moments EXCEPT ![s] = {}]
  <2>1. {} \in SUBSET Versions
    OBVIOUS
  <2> QED BY <1>1, <1>3, <2>1, WriteKeeps
<1>4. CASE End(s)
  BY <1>1, <1>4, EndKeeps
<1> QED BY <1>2, <1>3, <1>4 DEF PassGate

\* The rename puts a whole snapshot, which has passed, in place of the file.
LEMMA RenameKeeps ==
  ASSUME ControlInv, NEW s \in Sessions, Rename(s)
  PROVE  ControlInv'
<1>1. /\ End(s) /\ UNCHANGED <<position, latest, docs>>
      /\ file' = [is |-> "whole", snapshot |-> cli[s].seen] /\ cli[s].seen \in Versions
      /\ Inspects(cli[s].seen)
  BY DEF Rename, ControlInv, ControlTypeOK, SnapshotsInspect
<1>2. file' \in Files /\ RuntimeFileIsWhole'
  BY <1>1 DEF Files, RuntimeFileIsWhole, Inspects, SamePosition
<1> QED BY <1>1, <1>2, EndKeeps

\* So every step of a session keeps the invariant.
LEMMA SessionStepKeeps ==
  ASSUME ControlInv, NEW s \in Sessions, Session(s)
  PROVE  ControlInv'
<1>1. CASE StartCommand(s)
  BY <1>1, BeginReadKeeps DEF StartCommand
<1>2. ASSUME NEW d \in ControlFiles, ReadDocument(s, d) PROVE ControlInv'
  BY <1>2, ReadDocumentKeeps
<1>3. CASE BeginWrite(s)
  <2>1. /\ Inspects(cli[s].seen) /\ cli' = [cli EXCEPT ![s].step = "rename"]
        /\ UNCHANGED <<position, latest, docs, file>>
        /\ moments' = [moments EXCEPT ![s] = moments[s]] /\ moments[s] \in SUBSET Versions
    BY <1>3 DEF BeginWrite, ControlInv, ControlTypeOK, SnapshotsInspect
  <2> QED BY <2>1, WriteKeeps
<1>4. CASE CheckAgentRefuses(s) \/ InspectionRefuses(s) \/ StopCommand(s)
  <2>1. End(s) /\ UNCHANGED <<position, latest, docs, file>>
    BY <1>4 DEF CheckAgentRefuses, InspectionRefuses, Refuses, StopCommand
  <2>2. file' \in Files /\ RuntimeFileIsWhole'
    BY <2>1 DEF ControlInv, ControlTypeOK, RuntimeFileIsWhole, Inspects, SamePosition
  <2> QED BY <2>1, <2>2, EndKeeps
<1> QED BY <1>1, <1>2, <1>3, <1>4, PassGateKeeps, RenameKeeps DEF Session

\* It holds before the first handoff.
LEMMA InitControlInv == ControlInit => ControlInv
<1> SUFFICES ASSUME ControlInit PROVE ControlInv
  OBVIOUS
<1>1. [d \in ControlFiles |-> 0] \in Versions /\ 0 \in Handoffs
  BY HandoffAssumption DEF Versions, Handoffs
<1>2. Idle \in CliRecords /\ NoFile \in Files /\ NoFile.is = "missing" /\ Idle.step = "idle"
  BY <1>1, NewRecords DEF NoFile, Files, Idle
<1>3. ControlTypeOK
  BY <1>1, <1>2 DEF ControlInit, ControlTypeOK, CliRecords
<1>4. NearlyFull(docs, latest)
  BY DEF ControlInit, NearlyFull
<1>5. ReadsAreMoments /\ SnapshotsInspect /\ RuntimeFileIsWhole
  BY <1>2 DEF ControlInit, ReadsAreMoments, Reading, SnapshotsInspect, RuntimeFileIsWhole
<1> QED BY <1>3, <1>4, <1>5 DEF ControlInv

\* And every step keeps it.
LEMMA StepKeepsControlInv == ControlInv /\ [ControlNext]_controlVars => ControlInv'
<1> SUFFICES ASSUME ControlInv, [ControlNext]_controlVars PROVE ControlInv'
  OBVIOUS
<1>1. CASE UNCHANGED controlVars
  BY <1>1 DEF controlVars, ControlInv, ControlTypeOK, ReadsAreMoments, PassedThrough, Reading, SnapshotsInspect,
     RuntimeFileIsWhole, Inspects, SamePosition, Below, NearlyFull
<1> QED BY <1>1, MaintainerKeeps, SessionStepKeeps DEF ControlNext

\* The inductive invariant: what a session has read, it read at moments of the documents.
THEOREM ControlInvariant == ControlSpec => []ControlInv
BY InitControlInv, StepKeepsControlInv, PTL DEF ControlSpec

\* ControlFiles, sessions and the runtime file keep their types.
THEOREM TypeCorrect == ControlSpec => []ControlTypeOK
<1>1. ControlInv => ControlTypeOK
  BY DEF ControlInv
<1> QED BY <1>1, ControlInvariant, PTL

\* Whatever was saved while the reads of inspectControlPlane were under way, an
\* inspection that passes shows the control plane as it was at one moment of
\* them, for any number of handoffs.
THEOREM InspectionsAreTrue == ControlSpec => []InspectionWasTrue
<1>1. ControlInv => InspectionWasTrue
  <2> SUFFICES ASSUME ControlInv, NEW s \in Sessions,
                      cli[s].step = "ops", cli[s].unread = {}, Inspects(cli[s].seen)
               PROVE  \E v \in moments[s] : SaysOf(v) = SaysOf(cli[s].seen)
    BY DEF InspectionWasTrue
  <2>1. /\ PassedThrough(moments[s])
        /\ \A d \in ControlFiles : \E v \in moments[s] : v[d] = cli[s].seen[d]
    BY DEF ControlInv, ReadsAreMoments, Reading
  <2>2. moments[s] \in SUBSET Versions /\ cli[s].seen \in Versions /\ ControlTypeOK
    BY DEF ControlInv, ControlTypeOK
  <2> QED BY <2>1, <2>2, OneInspectedMoment
<1> QED BY <1>1, ControlInvariant, PTL

\* The same of check-agent, although it reads its files one after another.
THEOREM AgentChecksAreTrue == ControlSpec => []AgentCheckWasTrue
<1>1. ControlInv => AgentCheckWasTrue
  <2> SUFFICES ASSUME ControlInv, NEW s \in Sessions,
                      cli[s].step = "agent", cli[s].unread = {}, AgentGate(cli[s].seen)
               PROVE  \E v \in moments[s] :
                        \A d \in ControlFiles : position[v[d]] = position[cli[s].seen["manifest"]]
    BY DEF AgentCheckWasTrue
  <2>1. /\ PassedThrough(moments[s])
        /\ \A d \in ControlFiles : \E v \in moments[s] : v[d] = cli[s].seen[d]
    BY DEF ControlInv, ReadsAreMoments, Reading
  <2>2. moments[s] \in SUBSET Versions /\ cli[s].seen \in Versions /\ ControlTypeOK
    BY DEF ControlInv, ControlTypeOK
  <2>3. AtPosition(cli[s].seen, position[cli[s].seen["manifest"]])
    BY DEF AgentGate, SamePosition, AtPosition, ControlFiles
  <2>4. \E v \in moments[s] : AtPosition(v, position[cli[s].seen["manifest"]])
    BY <2>1, <2>2, <2>3, OneMoment
  <2> QED BY <2>4 DEF AtPosition
<1> QED BY <1>1, ControlInvariant, PTL

\* atomicWriteJson: wherever a writer is stopped and whoever writes at the same
\* time, the runtime file is missing or a whole snapshot that passed.
THEOREM RuntimeFileWhole == ControlSpec => []RuntimeFileIsWhole
<1>1. ControlInv => RuntimeFileIsWhole
  BY DEF ControlInv
<1> QED BY <1>1, ControlInvariant, PTL

(***************************************************************************)
(* The incident issue of CiIncident, for any number of workflow runs,      *)
(* commits and failing calls.  It shares no state with the control plane.  *)
(***************************************************************************)

\* A set of ages that is not empty has its newest issue.
LEMMA NewestExists ==
  ASSUME NEW n \in Nat, NEW found \in SUBSET (1 .. n), found # {}
  PROVE  /\ Newest(found) \in found
         /\ \A j \in found : j <= Newest(found)
<1> DEFINE Less == OpToRel(<, Nat)
<1>1. IsWellFoundedOn(Less, Nat)
  BY NatLessThanWellFounded
<1>2. \A x, y \in Nat : x < y => <<x, y>> \in Less
  BY DEF OpToRel
<1> HIDE DEF Less
<1> DEFINE Rest == {n - i : i \in found}
<1>3. Rest \subseteq Nat /\ Rest # {}
  <2>1. \A i \in found : n - i \in Nat
    OBVIOUS
  <2>2. PICK i : i \in found
    OBVIOUS
  <2> QED BY <2>1, <2>2
<1>4. PICK x \in Rest : \A y \in Rest : ~(<<y, x>> \in Less)
  <2> HIDE DEF Rest
  <2> QED BY <1>1, <1>3, WFMin
<1>5. PICK i \in found : x = n - i
  BY <1>4
<1>6. \A j \in found : j <= i
  <2> SUFFICES ASSUME NEW j \in found PROVE j <= i
    OBVIOUS
  <2>1. ~(n - j < n - i)
    <3>1. /\ n - j \in Rest /\ n - i \in Rest
          /\ n - j \in Nat /\ n - i \in Nat
      OBVIOUS
    <3> HIDE DEF Rest
    <3> QED BY <1>2, <1>4, <1>5, <3>1
  <2> QED BY <2>1
<1> QED BY <1>5, <1>6 DEF Newest

\* Rewriting one issue leaves the others, and their number, as they are.
LEMMA IssueRewritten ==
  ASSUME issues \in Seq(Issues), NEW i \in DOMAIN issues,
         NEW row \in Issues, issues' = [issues EXCEPT ![i] = row]
  PROVE  /\ issues' \in Seq(Issues)
         /\ DOMAIN issues' = DOMAIN issues
         /\ \A j \in DOMAIN issues : issues'[j] = IF j = i THEN row ELSE issues[j]
OBVIOUS

\* The variables around the runs are typed, and no commit is ahead of main.
WorldOK ==
  /\ good \subseteq Commits /\ main \in Commits
  /\ stale \in 0 .. main
  /\ checked \in 0 .. main
  /\ events \subseteq Observations /\ \A o \in events : o.sha <= main
  /\ pending \in Observations \cup {Nothing} /\ pending.sha <= main
  /\ faults \in 0 .. MaxFaults

\* The issues: no report is ahead of main, and the two properties.
IssuesOK ==
  /\ issues \in Seq(Issues)
  /\ \A i \in DOMAIN issues : issues[i].reported <= main
  /\ OnlyBlindRunsDuplicate
  /\ ClosedMeansRecovered

RunRecords ==
  [step : RunSteps, seen : Observations \cup {Nothing},
   left : SUBSET Nat, blind : BOOLEAN]

\* What a workflow run at work relies on: what it has listed stays open, and
\* is all that is open unless the listing failed; no report is newer than the commit
\* it observed; and an issue it is about to close has its recovery.
RunOK(r) ==
  LET run == runs[r]
  IN /\ run \in RunRecords
     /\ run = IdleRun
          \/ (run.step \in RunSteps \ {"idle"} /\ run.seen \in Observations)
     /\ run.seen.sha <= main
     /\ run.step \notin {"comment", "close", "report"} => run.left = {}
     /\ run.step \in {"comment", "close"} =>
          run.left \subseteq Open /\ run.left # {}
     /\ run.step = "report" =>
          run.left \subseteq Open /\ (run.left = {} /\ ~run.blind => Open = {})
     /\ run.step \in {"list", "comment", "close", "report"} =>
          \A i \in DOMAIN issues : issues[i].reported <= run.seen.sha
     /\ run.step = "close" =>
          issues[Newest(run.left)].recovered = run.seen.sha

\* The concurrency group: one run at a time.
OneAtATime ==
  \A q, r \in Runs : runs[q] # IdleRun /\ runs[r] # IdleRun => q = r

IncidentInv ==
  /\ WorldOK /\ IssuesOK /\ OneAtATime
  /\ runs \in [Runs -> RunRecords]
  /\ \A r \in Runs : RunOK(r)

\* A run that is over relies on nothing.
LEMMA IdleRunOK ==
  ASSUME NEW r \in Runs, WorldOK, runs[r] = IdleRun
  PROVE  RunOK(r)
BY DEF RunOK, WorldOK, RunRecords, IdleRun, Nothing, RunSteps,
       Commits

\* While one run works the others are over, before its step and after it.
LEMMA OthersIdle ==
  ASSUME IncidentInv, NEW r \in Runs, Work(r), NEW q \in Runs, q # r
  PROVE  runs[q] = IdleRun /\ runs'[q] = runs[q]
<1>1. \/ GroupIsFree
      \/ runs[r].step # "idle"
  BY DEF Work, StartRun, Observe, Authorize,
         ListIssues, CommentRecovery, CloseIssue,
         ReportFailure
<1>2. runs[q] = IdleRun
  BY <1>1 DEF IncidentInv, OneAtATime, GroupIsFree, IdleRun
<1>3. runs'[q] = runs[q]
  BY DEF IncidentInv, Work, StartRun, Observe,
         Authorize, ListIssues, CommentRecovery,
         CloseIssue, ReportFailure, Call,
         AfterList, Goto, EndRun, Fault
<1> QED BY <1>2, <1>3

\* A step of a run changes nothing around the runs but takes what is pending.
LEMMA WorkWorld ==
  ASSUME IncidentInv, NEW r \in Runs, Work(r)
  PROVE  WorldOK' /\ UNCHANGED main
<1>1. UNCHANGED <<good, main, stale, checked, events>>
  BY DEF Work, StartRun, Observe, Authorize,
         ListIssues, CommentRecovery, CloseIssue,
         ReportFailure, world
<1>2. pending' \in {pending, Nothing}
  BY DEF Work, StartRun, Observe, Authorize,
         ListIssues, CommentRecovery, CloseIssue,
         ReportFailure
<1>3. faults' = faults \/ (faults < MaxFaults /\ faults' = faults + 1)
  BY DEF Work, StartRun, Observe, Authorize,
         ListIssues, CommentRecovery, CloseIssue,
         ReportFailure, Call, Fault
<1>4. faults' \in 0 .. MaxFaults
  BY <1>3, BoundAssumption DEF IncidentInv, WorldOK
<1>5. Nothing.sha <= main
  BY DEF IncidentInv, WorldOK, Nothing, Commits
<1> QED BY <1>1, <1>2, <1>4, <1>5 DEF IncidentInv, WorldOK

\* It is enough to look at the issues and at the run that makes the step.
LEMMA WorkSuffices ==
  ASSUME IncidentInv, NEW r \in Runs, Work(r),
         IssuesOK', runs' \in [Runs -> RunRecords], RunOK(r)'
  PROVE  IncidentInv'
<1>1. WorldOK'
  BY WorkWorld
<1>2. \A q \in Runs \ {r} : runs'[q] = IdleRun
  BY OthersIdle
<1>3. \A q \in Runs \ {r} : RunOK(q)'
  BY <1>1, <1>2
  DEF RunOK, WorldOK, RunRecords, IdleRun, Nothing, RunSteps,
      Commits
<1>4. OneAtATime'
  BY <1>2 DEF OneAtATime
<1> QED BY <1>1, <1>3, <1>4 DEF IncidentInv

\* The steps before reconciliation leave the issues alone: a run starts with
\* nothing listed, and reconciles only the commit that is the head of main.
LEMMA BeforeIssuesStep ==
  ASSUME IncidentInv, NEW r \in Runs,
         StartRun(r) \/ Observe(r) \/ Authorize(r)
  PROVE  IncidentInv'
<1>0. Work(r)
  BY DEF Work
<1>1. UNCHANGED <<issues, main>>
  BY DEF StartRun, Observe, Authorize, world
<1>2. IssuesOK'
  BY <1>1 DEF IncidentInv, IssuesOK, OnlyBlindRunsDuplicate, Open,
              ClosedMeansRecovered
<1>3. runs[r] \in RunRecords /\ RunOK(r)
  BY DEF IncidentInv
<1>4. runs' = [runs EXCEPT ![r] = runs'[r]]
  BY DEF IncidentInv, StartRun, Observe, Authorize,
         Goto, EndRun, Fault
<1>5. RunOK(r)'
  <2>1. CASE runs'[r] = IdleRun
    BY <1>0, <2>1, WorkWorld
    DEF RunOK, WorldOK, RunRecords, IdleRun, Nothing, RunSteps,
        Commits
  <2>2. CASE StartRun(r)
    <3>1. runs'[r] = [step |-> "observe", seen |-> pending, left |-> {}, blind |-> FALSE]
      BY <2>2 DEF StartRun, IdleRun, IncidentInv
    <3>2. pending \in Observations /\ pending.sha <= main
      BY <2>2 DEF StartRun, IncidentInv, WorldOK
    <3> QED BY <1>1, <3>1, <3>2 DEF RunOK, RunRecords, RunSteps
  <2>3. CASE Observe(r) /\ runs'[r] # IdleRun
    <3>1. PICK b \in BOOLEAN : runs' = [runs EXCEPT ![r].step = "authorize", ![r].seen.success = b]
      <4>1. (runs[r].seen.success /\ Healthy(runs[r].seen)) \in BOOLEAN
        OBVIOUS
      <4> QED BY <2>3 DEF Observe, Fault, EndRun, IncidentInv
    <3>2. /\ runs[r].step = "observe" /\ runs[r].left = {}
          /\ runs[r].seen \in Observations /\ runs[r].seen.sha <= main
      BY <1>3, <2>3 DEF Observe, RunOK, IdleRun
    <3>3. /\ runs'[r].step = "authorize" /\ runs'[r].left = {}
          /\ runs'[r].seen \in Observations
          /\ runs'[r].seen.sha = runs[r].seen.sha
          /\ runs'[r] \in RunRecords
      <4> DEFINE seen == [runs[r].seen EXCEPT !.success = b]
      <4>1. seen \in Observations /\ seen.sha = runs[r].seen.sha
        BY <3>2 DEF Observations
      <4>2. runs'[r] = [runs[r] EXCEPT !.step = "authorize", !.seen = seen]
        BY <1>3, <3>1 DEF RunRecords, IncidentInv
      <4> HIDE DEF seen
      <4> QED BY <1>3, <3>2, <4>1, <4>2 DEF RunRecords, RunSteps
    <3> QED BY <1>1, <3>2, <3>3 DEF RunOK, RunSteps
  <2>4. CASE Authorize(r) /\ runs'[r] # IdleRun
    <3>1. /\ runs[r].seen.sha = main
          /\ \/ runs'[r] = [runs[r] EXCEPT !.step = "confirm"]
             \/ runs'[r] = [runs[r] EXCEPT !.step = "list"]
      BY <2>4 DEF Authorize, IsCurrent, Goto,
                  Fault, EndRun, IncidentInv
    <3>2. /\ runs[r].step \in {"authorize", "confirm"} /\ runs[r].left = {}
          /\ runs[r].seen \in Observations
      BY <1>3, <2>4 DEF Authorize, RunOK, IdleRun
    <3>3. /\ runs'[r].step \in {"confirm", "list"} /\ runs'[r].left = {}
          /\ runs'[r].seen = runs[r].seen /\ runs'[r] \in RunRecords
      BY <1>3, <3>1 , <3>2 DEF RunRecords, RunSteps
    <3>4. \A i \in DOMAIN issues : issues[i].reported <= main
      BY DEF IncidentInv, IssuesOK
    <3>5. main <= main
      BY DEF IncidentInv, WorldOK, Commits
    <3> QED BY <1>1, <3>1, <3>2, <3>3, <3>4, <3>5 DEF RunOK, RunSteps
  <2> QED BY <2>1, <2>2, <2>3, <2>4
<1>6. runs' \in [Runs -> RunRecords]
  BY <1>4, <1>5 DEF IncidentInv, RunOK
<1> QED BY <1>0, <1>2, <1>5, <1>6, WorkSuffices

\* The listing is what is open, or the newest part of it.
LEMMA ListStep ==
  ASSUME IncidentInv, NEW r \in Runs, ListIssues(r)
  PROVE  IncidentInv'
<1>0. Work(r)
  BY DEF Work
<1>1. UNCHANGED <<issues, main>>
  BY DEF ListIssues, world
<1>2. IssuesOK' /\ Open' = Open
  BY <1>1 DEF IncidentInv, IssuesOK, OnlyBlindRunsDuplicate, Open,
              ClosedMeansRecovered
<1>3. /\ runs[r] \in RunRecords /\ runs[r].step = "list"
      /\ runs[r].seen \in Observations /\ runs[r].seen.sha <= main
      /\ \A i \in DOMAIN issues : issues[i].reported <= runs[r].seen.sha
  BY DEF IncidentInv, RunOK, ListIssues, IdleRun
<1>4. Open \subseteq Nat
  BY DEF IncidentInv, IssuesOK, Open
<1>5. \/ runs' = [runs EXCEPT ![r] = IdleRun]
      \/ \E found \in SUBSET Open, blind \in BOOLEAN :
           AfterList(r, found, blind) /\ (found = Open \/ blind)
  <2>1. Open \in SUBSET Open
    OBVIOUS
  <2>2. \A n \in 0 .. Len(issues) : {i \in Open : i > n} \in SUBSET Open
    OBVIOUS
  <2> HIDE DEF Open
  <2> QED BY <2>1, <2>2 DEF ListIssues, Fault, EndRun
<1>6. \/ runs'[r] = IdleRun
      \/ \E found \in SUBSET Open, blind \in BOOLEAN, step \in {"comment", "report"} :
           /\ runs'[r] = [runs[r] EXCEPT !.step = step, !.left = found, !.blind = blind]
           /\ found = Open \/ blind
           /\ step = "comment" => found # {}
  BY <1>5 DEF AfterList, IncidentInv
<1>7. RunOK(r)'
  <2>1. CASE runs'[r] = IdleRun
    BY <1>0, <2>1, WorkWorld
    DEF RunOK, WorldOK, RunRecords, IdleRun, Nothing, RunSteps,
        Commits
  <2>2. CASE runs'[r] # IdleRun
    <3>1. PICK found \in SUBSET Open, blind \in BOOLEAN, step \in {"comment", "report"} :
            /\ runs'[r] = [runs[r] EXCEPT !.step = step, !.left = found, !.blind = blind]
            /\ found = Open \/ blind
            /\ step = "comment" => found # {}
      BY <1>6, <2>2
    <3>2. /\ runs'[r].seen = runs[r].seen /\ runs'[r].left = found
          /\ runs'[r].blind = blind /\ runs'[r].step = step
          /\ runs'[r] \in RunRecords
      BY <1>3, <1>4, <3>1 DEF RunRecords, RunSteps
    <3> QED BY <1>1, <1>2, <1>3, <3>1, <3>2 DEF RunOK, RunSteps
  <2> QED BY <2>1, <2>2
<1>8. runs' = [runs EXCEPT ![r] = runs'[r]]
  BY DEF IncidentInv, ListIssues, AfterList, Fault,
         EndRun
<1>9. runs' \in [Runs -> RunRecords]
  BY <1>7, <1>8 DEF IncidentInv, RunOK
<1> QED BY <1>0, <1>2, <1>7, <1>9, WorkSuffices

\* The issue a recovery is about is open, and the newest of those listed.
LEMMA RecoveredIssue ==
  ASSUME IncidentInv, NEW r \in Runs, runs[r].step \in {"comment", "close"}
  PROVE  /\ Newest(runs[r].left) \in Open
         /\ Newest(runs[r].left) \in runs[r].left
         /\ Open \subseteq DOMAIN issues
         /\ runs[r].left \subseteq Open
         /\ runs[r].seen \in Observations /\ runs[r].seen.sha <= main
         /\ \A i \in DOMAIN issues : issues[i].reported <= runs[r].seen.sha
<1>1. /\ runs[r].left \subseteq Open /\ runs[r].left # {}
      /\ runs[r].seen \in Observations /\ runs[r].seen.sha <= main
      /\ \A i \in DOMAIN issues : issues[i].reported <= runs[r].seen.sha
  BY DEF IncidentInv, RunOK, IdleRun
<1>2. Open \in SUBSET (1 .. Len(issues)) /\ Len(issues) \in Nat
  BY DEF IncidentInv, IssuesOK, Open
<1>3. DOMAIN issues = 1 .. Len(issues)
  BY DEF IncidentInv, IssuesOK
<1> QED BY <1>1, <1>2, <1>3, NewestExists

\* A comment marks an issue as recovered; it stays open.
LEMMA CommentStep ==
  ASSUME IncidentInv, NEW r \in Runs,
         CommentRecovery(r)
  PROVE  IncidentInv'
<1> DEFINE i == Newest(runs[r].left)
           row == [issues[i] EXCEPT !.recovered = runs[r].seen.sha]
<1>0. Work(r) /\ runs[r].step = "comment"
  BY DEF Work, CommentRecovery
<1>1. /\ UNCHANGED main
      /\ runs[r] \in RunRecords /\ issues \in Seq(Issues)
      /\ \A j \in DOMAIN issues : issues[j].reported <= main
  BY <1>0, WorkWorld DEF IncidentInv, IssuesOK
<1>2. /\ i \in Open /\ Open \subseteq DOMAIN issues
      /\ runs[r].left \subseteq Open /\ i \in runs[r].left
      /\ runs[r].seen \in Observations /\ runs[r].seen.sha <= main
      /\ \A j \in DOMAIN issues : issues[j].reported <= runs[r].seen.sha
  BY <1>0, RecoveredIssue
<1>3. /\ row \in Issues /\ row.open /\ row.recovered = runs[r].seen.sha
      /\ row.reported = issues[i].reported /\ row.blind = issues[i].blind
  <2>1. issues[i] \in Issues /\ issues[i].open
    BY <1>1, <1>2 DEF Open
  <2>2. runs[r].seen.sha \in Commits
    BY <1>2 DEF Observations
  <2> HIDE DEF i
  <2> QED BY <2>1, <2>2 DEF Issues
<1>4. /\ issues' = issues \/ issues' = [issues EXCEPT ![i] = row]
      /\ \/ runs' = [runs EXCEPT ![r] = IdleRun]
         \/ /\ runs' = [runs EXCEPT ![r].step = "close"]
            /\ issues' = [issues EXCEPT ![i] = row]
  BY DEF CommentRecovery, Call, Goto, Fault,
         EndRun
<1> HIDE DEF row
<1>5. /\ issues' \in Seq(Issues)
      /\ DOMAIN issues' = DOMAIN issues
      /\ \A j \in DOMAIN issues : issues'[j] = issues[j] \/ (j = i /\ issues'[j] = row)
      /\ issues' = [issues EXCEPT ![i] = row] => issues'[i] = row
  BY <1>1, <1>2, <1>3, <1>4, IssueRewritten
<1> HIDE DEF i
<1>6. Open' = Open
  BY <1>2, <1>3, <1>5 DEF Open
<1>7. IssuesOK'
  <2>1. ClosedMeansRecovered'
    BY <1>1, <1>3, <1>5 DEF IncidentInv, IssuesOK, ClosedMeansRecovered
  <2>3. OnlyBlindRunsDuplicate'
    <3>1. \A j \in Open : issues'[j].blind = issues[j].blind
      BY <1>2, <1>3, <1>5
    <3> QED BY <1>6, <3>1 DEF IncidentInv, IssuesOK, OnlyBlindRunsDuplicate
  <2>2. \A j \in DOMAIN issues' : issues'[j].reported <= main'
    BY <1>1, <1>3, <1>5
  <2> QED BY <1>5, <2>1, <2>2, <2>3 DEF IssuesOK
<1>8. RunOK(r)'
  <2>1. CASE runs'[r] = IdleRun
    BY <1>0, <2>1, WorkWorld
    DEF RunOK, WorldOK, RunRecords, IdleRun, Nothing, RunSteps,
        Commits
  <2>2. CASE runs'[r] # IdleRun
    <3>1. /\ runs'[r] = [runs[r] EXCEPT !.step = "close"]
          /\ issues'[i] = row
      BY <1>4, <1>5, <2>2 DEF IncidentInv
    <3>2. /\ runs'[r].step = "close" /\ runs'[r].left = runs[r].left
          /\ runs'[r].seen = runs[r].seen /\ runs'[r] \in RunRecords
      BY <1>1, <3>1 DEF RunRecords, RunSteps
    <3>3. \A j \in DOMAIN issues' : issues'[j].reported <= runs'[r].seen.sha
      BY <1>2, <1>3, <1>5, <3>2
    <3>4. Newest(runs'[r].left) = i
      BY <3>2 DEF i
    <3> QED BY <1>1, <1>2, <1>3, <1>6, <3>1, <3>2, <3>3, <3>4 DEF RunOK, RunSteps
  <2> QED BY <2>1, <2>2
<1>9. runs' \in [Runs -> RunRecords]
  BY <1>4, <1>8 DEF IncidentInv, RunOK
<1> QED BY <1>0, <1>7, <1>8, <1>9, WorkSuffices

\* An issue is closed after its recovery was commented, and every failure
\* reported on it is of the same commit or an older one.
LEMMA CloseStep ==
  ASSUME IncidentInv, NEW r \in Runs, CloseIssue(r)
  PROVE  IncidentInv'
<1> DEFINE i == Newest(runs[r].left)
           row == [issues[i] EXCEPT !.open = FALSE]
           rest == runs[r].left \ {i}
<1>0. Work(r) /\ runs[r].step = "close"
  BY DEF Work, CloseIssue
<1>1. /\ UNCHANGED main
      /\ runs[r] \in RunRecords /\ issues \in Seq(Issues)
      /\ \A j \in DOMAIN issues : issues[j].reported <= main
  BY <1>0, WorkWorld DEF IncidentInv, IssuesOK
<1>2. /\ i \in Open /\ Open \subseteq DOMAIN issues
      /\ runs[r].left \subseteq Open /\ i \in runs[r].left
      /\ runs[r].seen \in Observations /\ runs[r].seen.sha <= main
      /\ \A j \in DOMAIN issues : issues[j].reported <= runs[r].seen.sha
      /\ issues[i].recovered = runs[r].seen.sha
  BY <1>0, RecoveredIssue DEF IncidentInv, RunOK
<1>3. /\ row \in Issues /\ ~row.open
      /\ row.reported = issues[i].reported /\ row.recovered = runs[r].seen.sha
      /\ row.blind = issues[i].blind
  <2>1. issues[i] \in Issues
    BY <1>1, <1>2
  <2> HIDE DEF i
  <2> QED BY <1>2, <2>1 DEF Issues
<1>4. /\ issues' = issues \/ issues' = [issues EXCEPT ![i] = row]
      /\ \/ runs' = [runs EXCEPT ![r] = IdleRun]
         \/ /\ runs' = [runs EXCEPT ![r] = [@ EXCEPT !.step = "comment", !.left = rest]]
            /\ rest # {}
            /\ issues' = [issues EXCEPT ![i] = row]
  BY DEF CloseIssue, Fault, EndRun
<1> HIDE DEF row
<1>5. /\ issues' \in Seq(Issues)
      /\ DOMAIN issues' = DOMAIN issues
      /\ \A j \in DOMAIN issues : issues'[j] = issues[j] \/ (j = i /\ issues'[j] = row)
      /\ issues' = [issues EXCEPT ![i] = row] =>
           \A j \in DOMAIN issues : issues'[j] = IF j = i THEN row ELSE issues[j]
  BY <1>1, <1>2, <1>3, <1>4, IssueRewritten
<1> HIDE DEF i, rest
<1>6. /\ Open' \subseteq Open
      /\ issues' = [issues EXCEPT ![i] = row] => Open' = Open \ {i}
  BY <1>2, <1>3, <1>5 DEF Open
<1>7. IssuesOK'
  <2>1. OnlyBlindRunsDuplicate'
    BY <1>1, <1>2, <1>3, <1>5, <1>6
    DEF IncidentInv, IssuesOK, OnlyBlindRunsDuplicate
  <2>2. ClosedMeansRecovered'
    <3>1. row.recovered >= row.reported
      BY <1>1, <1>2, <1>3 DEF Issues, Observations, Commits
    <3> QED BY <1>5, <3>1 DEF IncidentInv, IssuesOK, ClosedMeansRecovered
  <2>3. \A j \in DOMAIN issues' : issues'[j].reported <= main'
    BY <1>1, <1>2, <1>3, <1>5
  <2> QED BY <1>5, <2>1, <2>2, <2>3 DEF IssuesOK
<1>8. RunOK(r)'
  <2>1. CASE runs'[r] = IdleRun
    BY <1>0, <2>1, WorkWorld
    DEF RunOK, WorldOK, RunRecords, IdleRun, Nothing, RunSteps,
        Commits
  <2>2. CASE runs'[r] # IdleRun
    <3>1. /\ runs'[r] = [runs[r] EXCEPT !.step = "comment", !.left = rest]
          /\ rest # {} /\ issues' = [issues EXCEPT ![i] = row]
      BY <1>4, <2>2 DEF IncidentInv
    <3>2. rest \subseteq Open' /\ rest \in SUBSET Nat
      BY <1>1, <1>2, <1>6, <3>1 DEF rest, RunRecords
    <3>3. /\ runs'[r].step = "comment" /\ runs'[r].left = rest
          /\ runs'[r].seen = runs[r].seen /\ runs'[r] \in RunRecords
      BY <1>1, <3>1, <3>2 DEF RunRecords, RunSteps
    <3>4. \A j \in DOMAIN issues' : issues'[j].reported <= runs'[r].seen.sha
      BY <1>2, <1>3, <1>5, <3>3
    <3> QED BY <1>1, <1>2, <3>1, <3>2, <3>3, <3>4 DEF RunOK, RunSteps
  <2> QED BY <2>1, <2>2
<1>9. runs' \in [Runs -> RunRecords]
  BY <1>4, <1>8 DEF IncidentInv, RunOK
<1> QED BY <1>0, <1>7, <1>8, <1>9, WorkSuffices

\* A report goes to an incident that is open; a run that sees none opens
\* another, which is the only one or was opened blind.
LEMMA ReportStep ==
  ASSUME IncidentInv, NEW r \in Runs,
         ReportFailure(r)
  PROVE  IncidentInv'
<1> DEFINE i == Newest(runs[r].left)
           sha == runs[r].seen.sha
           row == [issues[i] EXCEPT !.reported = sha]
           new == [open |-> TRUE, blind |-> runs[r].blind, reported |-> sha, recovered |-> 0]
<1>0. Work(r) /\ runs[r].step = "report"
  BY DEF Work, ReportFailure
<1>1. /\ UNCHANGED main
      /\ runs[r] \in RunRecords /\ issues \in Seq(Issues)
      /\ \A j \in DOMAIN issues : issues[j].reported <= main
      /\ sha \in Commits /\ sha <= main
      /\ \A j \in DOMAIN issues : issues[j].reported <= sha
      /\ runs[r].left \subseteq Open /\ runs[r].blind \in BOOLEAN
      /\ runs[r].left = {} /\ ~runs[r].blind => Open = {}
  BY <1>0, WorkWorld
  DEF IncidentInv, IssuesOK, RunOK, RunRecords, IdleRun, Observations
<1>2. /\ issues' \in {issues, IF runs[r].left # {} THEN [issues EXCEPT ![i] = row]
                              ELSE Append(issues, new)}
      /\ runs' = [runs EXCEPT ![r] = IdleRun]
  BY DEF ReportFailure, Call, EndRun, Fault
<1>3. IssuesOK'
  <2>1. CASE issues' = issues
    BY <1>1, <2>1
    DEF IncidentInv, IssuesOK, OnlyBlindRunsDuplicate, Open,
        ClosedMeansRecovered
  <2>2. CASE runs[r].left # {} /\ issues' = [issues EXCEPT ![i] = row]
    <3>1. i \in Open /\ Open \subseteq DOMAIN issues
      <4>1. Open \in SUBSET (1 .. Len(issues)) /\ Len(issues) \in Nat
        BY <1>1 DEF Open
      <4>2. DOMAIN issues = 1 .. Len(issues)
        BY <1>1
      <4> QED BY <1>1, <2>2, <4>1, <4>2, NewestExists
    <3>2. issues[i] \in Issues /\ issues[i].open
      BY <1>1, <3>1 DEF Open
    <3> HIDE DEF i
    <3>3. row \in Issues /\ row.open /\ row.reported = sha /\ row.blind = issues[i].blind
      BY <1>1, <3>2 DEF Issues
    <3> HIDE DEF row, sha
    <3>4. /\ issues' \in Seq(Issues)
          /\ DOMAIN issues' = DOMAIN issues
          /\ \A j \in DOMAIN issues : issues'[j] = IF j = i THEN row ELSE issues[j]
      BY <1>1, <2>2, <3>1, <3>3, IssueRewritten
    <3>5. Open' = Open
      BY <3>1, <3>3, <3>4 DEF Open
    <3>6. ClosedMeansRecovered'
      BY <1>1, <3>3, <3>4 DEF IncidentInv, IssuesOK, ClosedMeansRecovered
    <3>8. OnlyBlindRunsDuplicate'
      <4>1. \A j \in Open : issues'[j].blind = issues[j].blind
        BY <3>1, <3>3, <3>4
      <4> QED BY <3>5, <4>1 DEF IncidentInv, IssuesOK, OnlyBlindRunsDuplicate
    <3>7. \A j \in DOMAIN issues' : issues'[j].reported <= main'
      BY <1>1, <3>3, <3>4
    <3> QED BY <3>4, <3>6, <3>7, <3>8 DEF IssuesOK
  <2>3. CASE runs[r].left = {} /\ issues' = Append(issues, new)
    <3>1. new \in Issues /\ new.open /\ new.reported = sha /\ new.blind = runs[r].blind
      BY <1>1 DEF Issues
    <3> HIDE DEF new, sha
    <3>2. /\ issues' \in Seq(Issues) /\ Len(issues) \in Nat
          /\ DOMAIN issues = 1 .. Len(issues) /\ DOMAIN issues' = 1 .. Len(issues) + 1
          /\ issues'[Len(issues) + 1] = new
          /\ \A j \in DOMAIN issues : issues'[j] = issues[j]
      BY <1>1, <2>3, <3>1
    <3>3. Open' = Open \cup {Len(issues) + 1}
      BY <3>1, <3>2 DEF Open
    <3>4. OnlyBlindRunsDuplicate'
      <4> SUFFICES ASSUME NEW j \in Open', NEW k \in Open', j < k
                   PROVE  issues'[k].blind
        BY DEF OnlyBlindRunsDuplicate
      <4>1. Open \subseteq 1 .. Len(issues)
        BY <3>2 DEF Open
      <4>2. CASE k \in Open
        <5>1. j \in Open
          BY <3>2, <3>3, <4>1, <4>2
        <5> QED BY <3>2, <4>1, <4>2, <5>1 DEF IncidentInv, IssuesOK, OnlyBlindRunsDuplicate
      <4>3. CASE k \notin Open
        <5>1. k = Len(issues) + 1 /\ j \in Open
          BY <3>3, <4>3
        <5>2. runs[r].blind
          BY <1>1, <2>3, <5>1
        <5> QED BY <3>1, <3>2, <5>1, <5>2
      <4> QED BY <4>2, <4>3
    <3>5. ClosedMeansRecovered'
      BY <3>1, <3>2 DEF IncidentInv, IssuesOK, ClosedMeansRecovered
    <3>6. \A j \in DOMAIN issues' : issues'[j].reported <= main'
      BY <1>1, <3>1, <3>2
    <3> QED BY <3>2, <3>4, <3>5, <3>6 DEF IssuesOK
  <2> QED BY <1>2, <2>1, <2>2, <2>3
<1>4. runs'[r] = IdleRun
  BY <1>2 DEF IncidentInv
<1>5. RunOK(r)'
  BY <1>0, <1>4, WorkWorld
  DEF RunOK, WorldOK, RunRecords, IdleRun, Nothing, RunSteps,
      Commits
<1>6. runs' \in [Runs -> RunRecords]
  BY <1>2, <1>4, <1>5 DEF IncidentInv, RunOK
<1> QED BY <1>0, <1>3, <1>5, <1>6, WorkSuffices

\* Commits, their CI runs and the events about them do not disturb a run: main
\* only moves ahead.
LEMMA AroundStep ==
  ASSUME IncidentInv,
         \/ Push \/ FallBehind \/ CompleteCi \/ Deliver \/ Schedule
  PROVE  IncidentInv'
<1>1. /\ main \in 1 .. MaxPushes /\ checked \in 0 .. main /\ MaxPushes \in Nat
      /\ stale \in 0 .. main
      /\ main' \in 1 .. MaxPushes /\ main <= main'
      /\ UNCHANGED <<good, runs, issues, faults>>
  BY BoundAssumption
  DEF IncidentInv, WorldOK, Commits, Push, FallBehind, CompleteCi, Deliver, Schedule,
      world
<1>2. \A o \in Observations \cup {Nothing} : o.sha \in Nat
  BY DEF Observations, Nothing, Commits
<1>3. WorldOK'
  <2>1. checked' \in 0 .. main' /\ stale' \in 0 .. main'
    BY <1>1 DEF Push, FallBehind, CompleteCi, Deliver,
                Schedule, world
  <2>2. events' \subseteq Observations /\ \A o \in events' : o.sha <= main'
    <3>1. CASE CompleteCi
      <4> DEFINE o == [event |-> "ci", sha |-> checked',
                       success |-> checked' = main /\ checked' \in good]
      <4>1. o \in Observations /\ o.sha <= main
        BY <1>1, <3>1 DEF CompleteCi, Observations, Commits
      <4>2. events' = events \cup {o} /\ main' = main
        BY <3>1 DEF CompleteCi
      <4> HIDE DEF o
      <4> QED BY <4>1, <4>2 DEF IncidentInv, WorldOK
    <3>2. CASE ~CompleteCi
      <4>1. events' \subseteq events
        BY <3>2 DEF Push, FallBehind, Deliver, Schedule
      <4> QED BY <1>1, <1>2, <4>1 DEF IncidentInv, WorldOK
    <3> QED BY <3>1, <3>2
  <2>3. /\ pending' \in Observations \cup {Nothing}
        /\ pending'.sha <= main'
    <3>1. CASE Schedule
      BY <1>1, <3>1 DEF Schedule, Observations, Commits,
                        world
    <3>2. CASE Deliver
      BY <1>1, <3>2 DEF Deliver, world, IncidentInv, WorldOK
    <3>3. CASE Push \/ FallBehind \/ CompleteCi
      <4>1. pending' = pending
        BY <3>3 DEF Push, FallBehind, CompleteCi
      <4> QED BY <1>1, <1>2, <4>1 DEF IncidentInv, WorldOK
    <3> QED BY <3>1, <3>2, <3>3
  <2> QED BY <1>1, <2>1, <2>2, <2>3 DEF IncidentInv, WorldOK, Commits
<1>4. IssuesOK'
  <2>1. \A i \in DOMAIN issues : issues[i].reported <= main'
    <3> SUFFICES ASSUME NEW i \in DOMAIN issues PROVE issues[i].reported <= main'
      OBVIOUS
    <3>1. issues[i] \in Issues /\ issues[i].reported <= main
      BY DEF IncidentInv, IssuesOK
    <3>2. issues[i].reported \in Nat
      BY <1>1, <3>1 DEF Issues, Commits
    <3> QED BY <1>1, <3>1, <3>2
  <2> QED BY <1>1, <2>1
          DEF IncidentInv, IssuesOK, OnlyBlindRunsDuplicate, Open,
              ClosedMeansRecovered
<1>5. \A r \in Runs : RunOK(r)'
  <2> SUFFICES ASSUME NEW r \in Runs PROVE RunOK(r)'
    OBVIOUS
  <2>1. RunOK(r) /\ Open' = Open
    BY <1>1 DEF IncidentInv, Open
  <2>2. runs[r].seen.sha <= main'
    BY <1>1, <1>2, <2>1 DEF RunOK, RunRecords
  <2> QED BY <1>1, <2>1, <2>2 DEF RunOK
<1> QED BY <1>1, <1>3, <1>4, <1>5 DEF IncidentInv, OneAtATime

\* The invariant holds initially and every step keeps it.
LEMMA IncidentInvariant ==
  IncidentSpec => []IncidentInv
<1>1. IncidentInit => IncidentInv
  <2> SUFFICES ASSUME IncidentInit PROVE IncidentInv
    OBVIOUS
  <2>1. WorldOK
    BY BoundAssumption DEF IncidentInit, WorldOK, Commits, Nothing
  <2>2. /\ issues = <<>> /\ Open = {}
    BY DEF IncidentInit, Open
  <2>3. IssuesOK
    BY <2>2 DEF IssuesOK, OnlyBlindRunsDuplicate,
                ClosedMeansRecovered
  <2>4. \A r \in Runs : runs[r] = IdleRun
    BY DEF IncidentInit
  <2>5. \A r \in Runs : RunOK(r)
    BY <2>1, <2>4, IdleRunOK
  <2> QED BY <2>1, <2>3, <2>4, <2>5
          DEF IncidentInv, OneAtATime, IncidentInit, RunOK
<1>2. IncidentInv /\ [IncidentNext]_incidentVars => IncidentInv'
  <2> SUFFICES ASSUME IncidentInv, [IncidentNext]_incidentVars PROVE IncidentInv'
    OBVIOUS
  <2>1. CASE UNCHANGED incidentVars
    BY <2>1 DEF incidentVars, world, IncidentInv, WorldOK, IssuesOK, RunOK,
                OneAtATime, Open, OnlyBlindRunsDuplicate,
                ClosedMeansRecovered
  <2>2. ASSUME NEW r \in Runs, Work(r) PROVE IncidentInv'
    BY <2>2, BeforeIssuesStep, ListStep, CommentStep, CloseStep, ReportStep
    DEF Work
  <2>3. CASE Push \/ FallBehind \/ CompleteCi \/ Deliver \/ Schedule
    BY <2>3, AroundStep
  <2> QED BY <2>1, <2>2, <2>3 DEF IncidentNext
<1> QED BY <1>1, <1>2, PTL DEF IncidentSpec

\* The variables of the workflow, its runs and the issues keep their types.
THEOREM IncidentTyped ==
  IncidentSpec => []IncidentTypeOK
<1>1. IncidentInv => IncidentTypeOK
  BY DEF IncidentInv, WorldOK, IssuesOK, RunOK, RunRecords, IncidentTypeOK,
         Open, RunSteps
<1> QED BY <1>1, IncidentInvariant, PTL

\* Of two incident issues that are open, the younger one was opened by a run of
\* the workflow whose listing failed: the concurrency group, the check of main
\* and the listing leave no other way, whichever calls fail or lose their answers.
THEOREM DuplicatesAreBlind ==
  IncidentSpec => []OnlyBlindRunsDuplicate
<1>1. IncidentInv => OnlyBlindRunsDuplicate
  BY DEF IncidentInv, IssuesOK
<1> QED BY <1>1, IncidentInvariant, PTL

\* An issue is closed only with a recovery at least as recent as the last
\* failure on it, although a listing that fails leaves out issues.
THEOREM IncidentRecovered ==
  IncidentSpec => []ClosedMeansRecovered
<1>1. IncidentInv => ClosedMeansRecovered
  BY DEF IncidentInv, IssuesOK
<1> QED BY <1>1, IncidentInvariant, PTL
=============================================================================
