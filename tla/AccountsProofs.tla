--------------------------- MODULE AccountsProofs ---------------------------
(***************************************************************************)
(* Proofs about Accounts, for every set of devices, every site, every list *)
(* of users and every number of seeds and requests. The invariant is one   *)
(* of the database and of the chats, and one of each device.               *)
(*                                                                         *)
(* That a season is loaded whole is about the file in between: a           *)
(* concatenation of the pages' rows, in the order of the matches, cut      *)
(* anywhere. The lemmas say where each of its rows comes from.             *)
(***************************************************************************)
EXTENDS Accounts, Sums, SequenceTheorems

-----------------------------------------------------------------------------
(* The inductive invariant.                                                *)

ClientFields == {"pc", "n", "email", "access", "rate", "req", "seen", "status", "body",
                 "calm", "alone"}
States == {"idle", "sent", "retry", "login", "commit", "refresh"}

\* A row of players.
IsRow(x) == x = [jersey |-> x.jersey, position |-> x.position, onboarded |-> x.onboarded]

\* What the seed script keeps: ids carry the number of the run, every user has
\* the player of its name, and the wipe leaves nothing.
DbInv ==
  /\ seed \in {"idle", "wiped"} /\ seeds \in 0 .. MaxSeeds
  /\ seed = "wiped" => db = Empty
  /\ DOMAIN db = {"players", "users", "games", "lines"}
  /\ \A id \in DOMAIN db.players : id[1] = seeds /\ IsRow(db.players[id])
  /\ \A e \in DOMAIN db.users :
       db.users[e] \in DOMAIN db.players /\ db.users[e][2] = Normalize(SeedUsers[e])
  /\ \A e \in DOMAIN db.users : \E l \in DOMAIN db.lines : l[2] = db.users[e]
  /\ db # Empty => DOMAIN db.users = DOMAIN SeedUsers
  /\ \A l \in DOMAIN db.lines : l[1] \in DOMAIN db.games /\ l[2] \in DOMAIN db.players

\* Every chat has a trace of its own, and was rated by whoever it was for.
ChatsInv ==
  /\ \A t \in DOMAIN chats :
       /\ t = <<t[1], t[2]>> /\ t[1] \in Clients /\ t[2] \in Nat
       /\ t[2] <= client[t[1]].n
       /\ client[t[1]].pc # "idle" => t[2] < client[t[1]].n
  /\ \A r \in ratings : r[1] \in DOMAIN chats /\ chats[r[1]] = r[2]

ShapeOk(c) ==
  /\ DOMAIN client[c] = ClientFields
  /\ client[c].pc \in States /\ client[c].n \in Nat
  /\ client[c].status \in {0, 200, 400, 401, 403, 500, 503}
  /\ client[c].pc # "idle" => client[c].status \in {0, 503}

\* A device's access token is of the player of its last login; its feedback
\* token is of the player its trace was answered for, who may be another.
AccessOk(c) ==
  client[c].access = NoToken
  \/ /\ client[c].access.aud = "none" /\ client[c].access.exp \in Nat
     /\ client[c].access.of[1] \in Nat /\ client[c].access.of[2] = Holder(c)

RateOk(c) ==
  client[c].rate = NoToken
  \/ /\ client[c].rate.aud = "chat_feedback" /\ client[c].rate.exp \in Nat
     /\ client[c].rate.trace \in DOMAIN chats
     /\ chats[client[c].rate.trace] = client[c].rate.of /\ client[c].rate.of[1] \in Nat

\* A request under way was sent with what the device still holds.
RequestOk(c) ==
  /\ client[c].pc \in {"sent", "retry"} =>
       /\ client[c].req.bearer \in {NoToken, client[c].access, client[c].rate}
       /\ client[c].req.rating \in {NoToken, client[c].access, client[c].rate}
       /\ client[c].req.old => client[c].req.bearer # NoToken
                                /\ client[c].req.bearer.of[1] < seeds
       /\ client[c].req.what = "login" =>
            client[c].req.email \in DOMAIN SeedUsers /\ ~client[c].req.old
  /\ client[c].pc = "login" =>
       /\ client[c].req.what = "login" /\ ~client[c].req.old
       /\ client[c].req.email \in DOMAIN SeedUsers
  /\ client[c].pc \in {"commit", "refresh"} =>
       client[c].req.what = "onboard" /\ ~client[c].req.old

\* A player read for a request is there until the next wipe.
SeenOk(c) ==
  /\ client[c].pc \in {"login", "commit", "refresh"} =>
       /\ client[c].seen.id[1] \in 0 .. seeds
       /\ client[c].seen.id[1] = seeds => client[c].seen.id \in DOMAIN db.players
       /\ client[c].calm => client[c].seen.id[1] = seeds
  /\ client[c].pc = "login" =>
       client[c].seen.id[2] = Normalize(SeedUsers[client[c].req.email])
  /\ client[c].pc \in {"commit", "refresh"} => client[c].seen.id[2] = Holder(c)
  /\ client[c].pc # "idle" /\ client[c].calm => db # Empty

Wanted(c) == [jersey |-> client[c].req.profile.jersey,
              position |-> client[c].req.profile.position, onboarded |-> TRUE]

\* Nobody has written the row of a player whose onboarding is alone.
OnboardOk(c) ==
  /\ client[c].pc = "commit" /\ client[c].alone /\ client[c].seen.id \in DOMAIN db.players =>
       db.players[client[c].seen.id] = client[c].seen.row
  /\ client[c].pc = "refresh" /\ client[c].alone /\ client[c].seen.id \in DOMAIN db.players =>
       db.players[client[c].seen.id] = Wanted(c)

\* What the properties say of one device.
AnswerOk(c) ==
  /\ client[c].status = 200 => client[c].body.id[2] = Holder(c)
  /\ Answered(c) /\ client[c].req.old => client[c].status \in {401, 403}
  /\ client[c].status = 500 => ~client[c].calm
  /\ Answered(c) /\ client[c].req.what = "login" /\ client[c].req.right /\ client[c].calm =>
       client[c].status # 401
  /\ Answered(c) /\ client[c].req.what = "onboard" /\ client[c].status = 200
       /\ client[c].alone => client[c].body.row = Wanted(c)

ClientInv(c) ==
  /\ ShapeOk(c) /\ AccessOk(c) /\ RateOk(c) /\ RequestOk(c) /\ SeenOk(c) /\ OnboardOk(c)
  /\ AnswerOk(c)

Inv ==
  /\ aurora \in {"up", "paused", "resuming"} /\ now \in 0 .. MaxNow
  /\ DOMAIN client = Clients
  /\ DbInv /\ ChatsInv
  /\ \A c \in Clients : ClientInv(c)

-----------------------------------------------------------------------------
(* Concatenations, which the scraped file is made of.                      *)

Flats(g, ss) ==
  g = [i \in 1 .. Len(ss) |-> IF i = 1 THEN ss[i] ELSE g[i - 1] \o ss[i]]

\* FlattenSeq is the last value of the function that appends one after another.
LEMMA FlatIs ==
  ASSUME NEW ss, Len(ss) # 0, NEW h, h = CHOOSE g : Flats(g, ss)
  PROVE  FlattenSeq(ss) = h[Len(ss)]
BY Zenon DEF Flats, FlattenSeq

\* There is such a function.
LEMMA FlatsExist ==
  ASSUME NEW X, NEW ss \in Seq(X)
  PROVE  \E g : Flats(g, ss)
<1> DEFINE step(g, i) == IF i = 1 THEN ss[i] ELSE g[i - 1] \o ss[i]
           N == {k \in Nat : \E g : \A i \in 1 .. k : g[i] = step(g, i)}
<1>1. 0 \in N
  OBVIOUS
<1>2. ASSUME NEW k \in Nat, k \in N PROVE k + 1 \in N
  <2>1. PICK g : \A i \in 1 .. k : g[i] = step(g, i)
    BY <1>2
  <2> DEFINE h == [i \in 1 .. k + 1 |-> IF i = k + 1 THEN step(g, i) ELSE g[i]]
  <2>2. \A i \in 1 .. k : h[i] = g[i]
    OBVIOUS
  <2>3. h[k + 1] = step(g, k + 1)
    OBVIOUS
  <2> HIDE DEF h
  <2>4. ASSUME NEW i \in 1 .. k + 1 PROVE h[i] = step(h, i)
    <3>1. CASE i = 1 /\ k = 0
      BY <2>3, <3>1
    <3>2. CASE i = 1 /\ k # 0
      BY <2>1, <2>2, <3>2
    <3>3. CASE i # 1 /\ i = k + 1
      <4>1. k \in 1 .. k /\ i - 1 = k
        BY <3>3
      <4> QED
        BY <2>2, <2>3, <3>3, <4>1
    <3>4. CASE i # 1 /\ i # k + 1
      <4>1. i \in 1 .. k /\ i - 1 \in 1 .. k
        BY <3>4
      <4> QED
        BY <2>1, <2>2, <3>4, <4>1
    <3> QED
      BY <3>1, <3>2, <3>3, <3>4
  <2> QED
    BY <2>4
<1> HIDE DEF N
<1>3. Nat \subseteq N
  BY <1>1, <1>2, NatInd
<1>4. Len(ss) \in N
  BY <1>3, LenProperties
<1>5. PICK g : \A i \in 1 .. Len(ss) : g[i] = step(g, i)
  BY <1>4 DEF N
<1> DEFINE h == [i \in 1 .. Len(ss) |-> g[i]]
<1>6. \A i \in 1 .. Len(ss) : h[i] = g[i] /\ (i # 1 => i - 1 \in 1 .. Len(ss))
  BY LenProperties
<1>7. \A i \in 1 .. Len(ss) : h[i] = step(h, i)
  <2> HIDE DEF h
  <2> QED
    BY <1>5, <1>6
<1>8. h = [i \in 1 .. Len(ss) |-> step(h, i)]
  <2>1. DOMAIN h = 1 .. Len(ss) /\ h = [i \in DOMAIN h |-> h[i]]
    OBVIOUS
  <2> HIDE DEF h
  <2> QED
    BY <1>7, <2>1
<1> HIDE DEF h
<1> QED
  BY <1>8 DEF Flats

\* A concatenation w of the first k of ss keeps their order: at says from which of
\* them each element comes.
Laid(ss, w, at, k) ==
  /\ at \in [1 .. Len(w) -> 1 .. k]
  /\ \A n \in 1 .. Len(w) : w[n] \in Range(ss[at[n]])
  /\ \A n, m \in 1 .. Len(w) : n < m => at[n] <= at[m]
  /\ \A i \in 1 .. k : \A x \in Range(ss[i]) : \E n \in 1 .. Len(w) : w[n] = x /\ at[n] = i

\* So one more of them.
LEMMA OneMore ==
  ASSUME NEW X, NEW ss \in Seq(Seq(X)), NEW k \in Nat, k + 1 \in 1 .. Len(ss),
         NEW w \in Seq(X), NEW at, Laid(ss, w, at, k)
  PROVE  \E to : Laid(ss, w \o ss[k + 1], to, k + 1)
<1> DEFINE s == ss[k + 1]
           v == w \o s
           a == Len(w)
           b == Len(s)
           to == [n \in 1 .. a + b |-> IF n <= a THEN at[n] ELSE k + 1]
<1>1. s \in Seq(X)
  BY ElementOfSeq
<1>2. a \in Nat /\ b \in Nat /\ DOMAIN s = 1 .. b
  BY <1>1, LenProperties
<1>3. /\ v \in Seq(X) /\ Len(v) = a + b
      /\ \A n \in 1 .. a + b : v[n] = IF n <= a THEN w[n] ELSE s[n - a]
  BY <1>1, ConcatProperties
<1>4. /\ \A n \in 1 .. a : at[n] \in 1 .. k /\ w[n] \in Range(ss[at[n]])
      /\ \A n, m \in 1 .. a : n < m => at[n] <= at[m]
      /\ \A i \in 1 .. k : \A x \in Range(ss[i]) : \E n \in 1 .. a : w[n] = x /\ at[n] = i
  BY DEF Laid
<1>5. \A n \in 1 .. a + b : to[n] = IF n <= a THEN at[n] ELSE k + 1
  OBVIOUS
<1>6. DOMAIN to = 1 .. a + b /\ to = [n \in 1 .. a + b |-> to[n]]
  OBVIOUS
<1> HIDE DEF v, a, b, to
<1>7. \A n \in 1 .. a + b : to[n] \in 1 .. k + 1
  <2> TAKE n \in 1 .. a + b
  <2>1. CASE n <= a
    <3>1. n \in 1 .. a /\ to[n] = at[n]
      BY <1>2, <1>5, <2>1
    <3>2. at[n] \in 1 .. k
      BY <1>4, <3>1
    <3> QED
      BY <3>1, <3>2
  <2>2. CASE ~(n <= a)
    BY <1>5, <2>2
  <2> QED
    BY <2>1, <2>2
<1>8. \A n \in 1 .. a + b : v[n] \in Range(ss[to[n]])
  <2> TAKE n \in 1 .. a + b
  <2>1. CASE n <= a
    <3>1. n \in 1 .. a
      BY <1>2, <2>1
    <3> QED
      BY <1>3, <1>4, <1>5, <2>1, <3>1
  <2>2. CASE ~(n <= a)
    <3>1. n - a \in DOMAIN s
      BY <1>2, <2>2
    <3>2. to[n] = k + 1 /\ v[n] = s[n - a]
      BY <1>3, <1>5, <2>2
    <3> QED
      BY <3>1, <3>2 DEF Range
  <2> QED
    BY <2>1, <2>2
<1>9. \A n, m \in 1 .. a + b : n < m => to[n] <= to[m]
  <2> TAKE n, m \in 1 .. a + b
  <2>1. CASE m <= a /\ n < m
    <3>1. n \in 1 .. a /\ m \in 1 .. a /\ n <= a
      BY <1>2, <2>1
    <3> QED
      BY <1>4, <1>5, <2>1, <3>1
  <2>2. CASE ~(m <= a)
    <3>1. to[m] = k + 1 /\ to[n] \in 1 .. k + 1
      BY <1>5, <1>7, <2>2
    <3> QED
      BY <3>1
  <2> QED
    BY <2>1, <2>2
<1>10. ASSUME NEW i \in 1 .. k + 1, NEW x \in Range(ss[i])
       PROVE  \E n \in 1 .. a + b : v[n] = x /\ to[n] = i
  <2>1. CASE i = k + 1
    <3>1. PICK j \in DOMAIN s : x = s[j]
      BY <2>1 DEF Range
    <3>2. a + j \in 1 .. a + b /\ ~(a + j <= a) /\ (a + j) - a = j
      BY <1>2, <3>1
    <3> QED
      BY <1>3, <1>5, <2>1, <3>1, <3>2
  <2>2. CASE i # k + 1
    <3>1. i \in 1 .. k
      BY <2>2
    <3>2. PICK n \in 1 .. a : w[n] = x /\ at[n] = i
      BY <1>4, <3>1
    <3>3. n \in 1 .. a + b /\ n <= a
      BY <1>2, <3>2
    <3> QED
      BY <1>3, <1>5, <3>2, <3>3
  <2> QED
    BY <2>1, <2>2
<1>11. to \in [1 .. a + b -> 1 .. k + 1]
  BY <1>6, <1>7
<1>12. Laid(ss, v, to, k + 1)
  BY <1>3, <1>8, <1>9, <1>10, <1>11 DEF Laid
<1> QED
  BY <1>12 DEF v

\* A concatenation of sequences has their elements, and in their order.
LEMMA FlatLaid ==
  ASSUME NEW X, NEW ss \in Seq(Seq(X))
  PROVE  /\ FlattenSeq(ss) \in Seq(X)
         /\ \E at : Laid(ss, FlattenSeq(ss), at, Len(ss))
<1> DEFINE n == Len(ss)
<1>1. n \in Nat /\ DOMAIN ss = 1 .. n
  BY LenProperties
<1>2. CASE n = 0
  <2>1. FlattenSeq(ss) = ss
    BY <1>2 DEF FlattenSeq
  <2>2. ss = <<>>
    BY <1>2, EmptySeq
  <2>3. ss \in Seq(X) /\ Len(ss) = 0
    BY <2>2
  <2> DEFINE at == [i \in 1 .. 0 |-> 0]
  <2>4. at \in [1 .. 0 -> 1 .. 0]
    OBVIOUS
  <2> HIDE DEF at
  <2>5. Laid(ss, ss, at, 0)
    BY <2>3, <2>4 DEF Laid
  <2> QED
    BY <1>2, <2>1, <2>3, <2>5
<1>3. CASE n # 0
  <2> DEFINE h == CHOOSE g : Flats(g, ss)
             N == {k \in Nat : k + 1 \in 1 .. n =>
                     h[k + 1] \in Seq(X) /\ \E at : Laid(ss, h[k + 1], at, k + 1)}
  <2>1. Flats(h, ss) /\ FlattenSeq(ss) = h[n]
    BY <1>3, FlatIs, FlatsExist
  <2> HIDE DEF h, n
  <2>2. \A i \in 1 .. n : h[i] = IF i = 1 THEN ss[i] ELSE h[i - 1] \o ss[i]
    BY <2>1 DEF Flats, n
  <2>3. 0 \in N
    <3>1. ASSUME 1 \in 1 .. n PROVE h[1] \in Seq(X) /\ \E at : Laid(ss, h[1], at, 1)
      <4>1. h[1] = ss[1] /\ ss[1] \in Seq(X)
        BY <1>1, <2>2, <3>1, ElementOfSeq DEF n
      <4> DEFINE none == [i \in 1 .. 0 |-> 0]
                 e == << >>
      <4>2. e \in Seq(X) /\ Len(e) = 0 /\ none \in [1 .. 0 -> 1 .. 0]
        OBVIOUS
      <4>5. e \o ss[1] = ss[1]
        BY <4>1
      <4> HIDE DEF none, e
      <4>3. Laid(ss, e, none, 0)
        BY <4>2 DEF Laid
      <4>4. \A k \in Nat : k = 0 => \E to : Laid(ss, e \o ss[k + 1], to, k + 1)
        <5> SUFFICES ASSUME NEW k \in Nat, k = 0
                     PROVE  \E to : Laid(ss, e \o ss[k + 1], to, k + 1)
          OBVIOUS
        <5>1. k + 1 \in 1 .. Len(ss)
          BY <3>1 DEF n
        <5>2. Laid(ss, e, none, k)
          BY <4>3
        <5> QED
          BY <4>2, <5>1, <5>2, OneMore
      <4>6. \E to : Laid(ss, e \o ss[1], to, 1)
        <5>1. 0 \in Nat /\ 0 + 1 = 1
          OBVIOUS
        <5> QED
          BY <4>4, <5>1
      <4> QED
        BY <4>1, <4>5, <4>6
    <3> QED
      BY <3>1
  <2>4. ASSUME NEW k \in Nat, k \in N PROVE k + 1 \in N
    <3>1. ASSUME (k + 1) + 1 \in 1 .. n
          PROVE  /\ h[(k + 1) + 1] \in Seq(X)
                 /\ \E at : Laid(ss, h[(k + 1) + 1], at, (k + 1) + 1)
      <4>1. k + 1 \in 1 .. n /\ (k + 1) + 1 # 1 /\ ((k + 1) + 1) - 1 = k + 1
        BY <1>1, <3>1
      <4>2. h[k + 1] \in Seq(X) /\ \E at : Laid(ss, h[k + 1], at, k + 1)
        BY <2>4, <4>1
      <4>3. h[(k + 1) + 1] = h[k + 1] \o ss[(k + 1) + 1]
        BY <2>2, <3>1, <4>1
      <4>4. \E to : Laid(ss, h[k + 1] \o ss[(k + 1) + 1], to, (k + 1) + 1)
        BY <3>1, <4>2, OneMore DEF n
      <4>5. ss[(k + 1) + 1] \in Seq(X)
        BY <1>1, <3>1, ElementOfSeq DEF n
      <4> QED
        BY <4>2, <4>3, <4>4, <4>5, ConcatProperties
    <3> QED
      BY <3>1
  <2> HIDE DEF N
  <2>5. Nat \subseteq N
    BY <2>3, <2>4, NatInd
  <2>6. n - 1 \in Nat /\ (n - 1) + 1 = n /\ n \in 1 .. n
    BY <1>1, <1>3
  <2>7. n - 1 \in N
    BY <2>5, <2>6
  <2> QED
    BY <2>1, <2>6, <2>7 DEF N, n
<1> QED
  BY <1>2, <1>3

-----------------------------------------------------------------------------
(* The file of a season.                                                   *)

\* The rows of the table that are of players, whatever stands between them.
LEMMA PlayerRowsAre ==
  ASSUME NEW rows, rows \in Seq(Range(rows))
  PROVE  /\ PlayerRows(rows) \in Seq(Range(rows))
         /\ Range(PlayerRows(rows)) = {r \in Range(rows) : r.linked}
<1> DEFINE X == Range(rows)
           ss == [i \in DOMAIN rows |-> ParsePlayerRow(rows[i])]
           w == FlattenSeq(ss)
<1>1. DOMAIN rows = 1 .. Len(rows) /\ Len(rows) \in Nat
  BY LenProperties
<1>2. \A i \in DOMAIN rows : rows[i] \in X
  BY DEF Range
<1>3. \A i \in DOMAIN rows : ss[i] \in Seq(X)
  BY <1>2 DEF ParsePlayerRow
<1>4. ss \in Seq(Seq(X)) /\ DOMAIN ss = DOMAIN rows
  <2>1. ss = [i \in 1 .. Len(rows) |-> ss[i]]
    BY <1>1
  <2> HIDE DEF ss, X
  <2> QED
    BY <1>1, <1>3, <2>1, SeqDef
<1>5. \A i \in DOMAIN rows : Range(ss[i]) = IF rows[i].linked THEN {rows[i]} ELSE {}
  BY DEF ParsePlayerRow, Range
<1> HIDE DEF ss
<1>6. w \in Seq(X)
  BY <1>4, FlatLaid
<1>7. PICK at : Laid(ss, w, at, Len(ss))
  BY <1>4, FlatLaid
<1>8. DOMAIN w = 1 .. Len(w) /\ 1 .. Len(ss) = DOMAIN rows
  BY <1>4, <1>6, LenProperties
<1> HIDE DEF w, X
<1>9. ASSUME NEW n \in DOMAIN w PROVE w[n] \in X /\ w[n].linked
  <2>1. at[n] \in DOMAIN rows /\ w[n] \in Range(ss[at[n]])
    BY <1>7, <1>8 DEF Laid
  <2>2. rows[at[n]].linked /\ w[n] = rows[at[n]]
    BY <1>5, <2>1
  <2> QED
    BY <1>2, <2>1, <2>2
<1>10. ASSUME NEW r \in X, r.linked PROVE \E n \in DOMAIN w : w[n] = r
  <2>1. PICK i \in DOMAIN rows : rows[i] = r
    BY DEF Range, X
  <2>2. r \in Range(ss[i])
    BY <1>5, <1>10, <2>1
  <2> QED
    BY <1>7, <1>8, <2>2 DEF Laid
<1>11. Range(w) = {r \in X : r.linked}
  BY <1>9, <1>10 DEF Range
<1> QED
  BY <1>6, <1>11 DEF PlayerRows, w, ss, X

\* What a page says of the team's players.
LEMMA TeamRowsAre ==
  ASSUME NEW page, page \in Seq(Range(page)),
         \A t, u \in Range(page) : {t.caption, u.caption} \subseteq Ours => t = u,
         \A t \in Range(page) : t.rows \in Seq(Range(t.rows))
  PROVE  LET players(t) == {r \in Range(t.rows) : r.linked}
         IN /\ DOMAIN TeamRows(page) = 1 .. Len(TeamRows(page)) /\ Len(TeamRows(page)) \in Nat
            /\ \A r \in Range(TeamRows(page)) :
                 \E t \in Range(page) : t.caption \in Ours /\ r \in players(t)
            /\ \A t \in Range(page) : t.caption \in Ours =>
                 \A r \in players(t) : r \in Range(TeamRows(page))
<1> DEFINE players(t) == {r \in Range(t.rows) : r.linked}
           ours == {i \in DOMAIN page : page[i].caption \in Ours}
<1>1. \A i \in DOMAIN page : page[i] \in Range(page)
  BY DEF Range
<1>2. \A t \in Range(page) : \E i \in DOMAIN page : page[i] = t
  BY DEF Range
<1>3. CASE ours = {}
  <2>1. TeamRows(page) = <<>>
    BY <1>3 DEF TeamRows
  <2>2. \A t \in Range(page) : t.caption \notin Ours
    BY <1>2, <1>3
  <2>3. /\ Range(<<>>) = {} /\ Len(<<>>) = 0 /\ DOMAIN <<>> = 1 .. 0
    BY DEF Range
  <2> QED
    BY <2>1, <2>2, <2>3
<1>4. CASE ours # {}
  <2> DEFINE i == Min(ours)
             t == page[i]
  <2>1. i \in ours
    <3>1. ours \in SUBSET Nat
      BY LenProperties
    <3>2. \E m \in ours : \A n \in ours : m <= n
      BY <1>4, <3>1, LeastNatural
    <3> HIDE DEF ours
    <3> QED
      BY <3>2 DEF Min
  <2>2. TeamRows(page) = PlayerRows(t.rows)
    BY <1>4 DEF TeamRows
  <2> HIDE DEF i
  <2>3. t \in Range(page) /\ t.caption \in Ours
    BY <1>1, <2>1
  <2>4. /\ PlayerRows(t.rows) \in Seq(Range(t.rows))
        /\ Range(PlayerRows(t.rows)) = players(t)
    BY <2>3, PlayerRowsAre
  <2> HIDE DEF t, players
  <2>5. \A u \in Range(page) : u.caption \in Ours => u = t
    BY <2>3
  <2>6. DOMAIN PlayerRows(t.rows) = 1 .. Len(PlayerRows(t.rows)) /\ Len(PlayerRows(t.rows)) \in Nat
    BY <2>4, LenProperties
  <2> QED
    BY <2>2, <2>3, <2>4, <2>5, <2>6 DEF players
<1> QED
  BY <1>3, <1>4

\* A row of the file: that of a player on the page of its match, with its facts.
IsRowOf(x, m, r) ==
  x = [date |-> m.date, home |-> m.home, away |-> m.away, score |-> m.score,
       player |-> r.player, stat |-> r.stat]

\* A match's rows are those of all its players.
LEMMA RecordedIs ==
  ASSUME Publishable(site), NEW i \in DOMAIN site
  PROVE  LET m == site[i]
             players(t) == {r \in Range(t.rows) : r.linked}
         IN /\ DOMAIN Recorded(m) = 1 .. Len(Recorded(m)) /\ Len(Recorded(m)) \in Nat
            /\ \A x \in Range(Recorded(m)) :
                 \E t \in Range(m.page) : t.caption \in Ours /\
                   \E r \in players(t) : IsRowOf(x, m, r)
            /\ \A t \in Range(m.page) : t.caption \in Ours =>
                 \A r \in players(t) : \E x \in Range(Recorded(m)) : IsRowOf(x, m, r)
<1> DEFINE m == site[i]
           rows == TeamRows(m.page)
           row(r) == [date |-> m.date, home |-> m.home, away |-> m.away, score |-> m.score,
                      player |-> r.player, stat |-> r.stat]
           players(t) == {r \in Range(t.rows) : r.linked}
<1>1. /\ m.page \in Seq(Range(m.page))
      /\ \A t, u \in Range(m.page) : {t.caption, u.caption} \subseteq Ours => t = u
      /\ \A t \in Range(m.page) : t.rows \in Seq(Range(t.rows))
  <2>1. m \in Range(site)
    BY DEF Range
  <2> HIDE DEF m
  <2>2. /\ \A t, u \in Range(m.page) : t.side = u.side => t = u
        /\ \A t \in Range(m.page) : t.caption \in Ours => t.side = m.side
    BY <2>1 DEF Publishable
  <2> QED
    BY <2>1, <2>2 DEF Publishable
<1>2. /\ DOMAIN rows = 1 .. Len(rows) /\ Len(rows) \in Nat
      /\ \A r \in Range(rows) : \E t \in Range(m.page) : t.caption \in Ours /\ r \in players(t)
      /\ \A t \in Range(m.page) : t.caption \in Ours => \A r \in players(t) : r \in Range(rows)
  <2> HIDE DEF m
  <2> QED
    BY <1>1, TeamRowsAre
<1>3. Recorded(m) = [j \in DOMAIN rows |-> row(rows[j])]
  BY DEF Recorded
<1> HIDE DEF m, rows, row, players
<1>4. DOMAIN Recorded(m) = 1 .. Len(Recorded(m)) /\ Len(Recorded(m)) \in Nat
  <2>1. Recorded(m) \in Seq({row(rows[j]) : j \in DOMAIN rows})
    <3>1. Recorded(m) \in [1 .. Len(rows) -> {row(rows[j]) : j \in DOMAIN rows}]
      BY <1>2, <1>3
    <3> QED
      BY <1>2, <3>1, SeqDef
  <2> QED
    BY <2>1, LenProperties
<1>5. ASSUME NEW x \in Range(Recorded(m))
      PROVE  \E r \in Range(rows) : IsRowOf(x, m, r)
  <2>1. PICK j \in DOMAIN rows : x = row(rows[j])
    BY <1>3 DEF Range
  <2>2. rows[j] \in Range(rows)
    BY DEF Range
  <2> QED
    BY <2>1, <2>2 DEF row, IsRowOf
<1>6. ASSUME NEW r \in Range(rows)
      PROVE  \E x \in Range(Recorded(m)) : IsRowOf(x, m, r)
  <2>1. PICK j \in DOMAIN rows : r = rows[j]
    BY DEF Range
  <2>2. Recorded(m)[j] = row(r) /\ j \in DOMAIN Recorded(m)
    BY <1>3, <2>1
  <2>3. row(r) \in Range(Recorded(m))
    BY <2>2 DEF Range
  <2> QED
    BY <2>3 DEF row, IsRowOf
<1> QED
  BY <1>2, <1>4, <1>5, <1>6 DEF m, players


\* What is scraped keeps the order of the matches, and has all of those it has a
\* row of.
LEMMA ScrapedLaid ==
  ASSUME Publishable(site), NEW fetched \in SUBSET DOMAIN site
  PROVE  LET w == Scraped(fetched)
         IN /\ w \in Seq(Range(w))
            /\ \E at :
                 /\ \A n \in DOMAIN w :
                      at[n] \in DOMAIN site /\ w[n] \in Range(Recorded(site[at[n]]))
                 /\ \A n, m \in DOMAIN w : n < m => at[n] <= at[m]
                 /\ \A n \in DOMAIN w : \A x \in Range(Recorded(site[at[n]])) :
                      \E q \in DOMAIN w : w[q] = x /\ at[q] = at[n]
<1> DEFINE X == UNION {Range(Recorded(site[i])) : i \in DOMAIN site}
           part(i) == IF i \in fetched THEN Recorded(site[i]) ELSE <<>>
           ss == [i \in DOMAIN site |-> part(i)]
           w == FlattenSeq(ss)
<1>2. DOMAIN site = 1 .. Len(site) /\ Len(site) \in Nat
  BY LenProperties DEF Publishable
<1>3. \A i \in DOMAIN site : part(i) \in Seq(X)
  <2> TAKE i \in DOMAIN site
  <2> DEFINE r == Recorded(site[i])
  <2>1. DOMAIN r = 1 .. Len(r) /\ Len(r) \in Nat
    BY RecordedIs
  <2>2. r = [j \in DOMAIN r |-> r[j]]
    BY DEF Recorded
  <2>3. \A j \in DOMAIN r : r[j] \in X
    BY DEF Range
  <2> HIDE DEF r, X
  <2>4. r \in [1 .. Len(r) -> X]
    BY <2>1, <2>2, <2>3
  <2>5. r \in Seq(X)
    BY <2>1, <2>4, SeqDef
  <2>6. <<>> \in Seq(X)
    OBVIOUS
  <2> QED
    BY <2>5, <2>6 DEF r
<1>4. ss \in Seq(Seq(X)) /\ DOMAIN ss = DOMAIN site /\ \A i \in DOMAIN site : ss[i] = part(i)
  <2>1. ss \in [1 .. Len(site) -> Seq(X)]
    BY <1>2, <1>3
  <2> HIDE DEF X, part
  <2> QED
    BY <1>2, <2>1, SeqDef
<1>5. Scraped(fetched) = w
  BY DEF Scraped
<1> HIDE DEF ss, X, part
<1>6. w \in Seq(X)
  BY <1>4, FlatLaid
<1>7. PICK at : Laid(ss, w, at, Len(ss))
  BY <1>4, FlatLaid
<1>8. DOMAIN w = 1 .. Len(w) /\ Len(w) \in Nat /\ 1 .. Len(ss) = DOMAIN site
  BY <1>4, <1>6, LenProperties
<1> HIDE DEF w
<1>9. w \in Seq(Range(w))
  <2>1. w \in [1 .. Len(w) -> Range(w)]
    <3>1. w \in [1 .. Len(w) -> X]
      BY <1>6, LenProperties
    <3>2. \A n \in 1 .. Len(w) : w[n] \in Range(w)
      BY <1>8 DEF Range
    <3> QED
      BY <3>1, <3>2
  <2> QED
    BY <1>8, <2>1, SeqDef
<1>10. /\ \A n \in DOMAIN w : at[n] \in DOMAIN site /\ w[n] \in Range(ss[at[n]])
       /\ \A n, m \in DOMAIN w : n < m => at[n] <= at[m]
       /\ \A i \in DOMAIN site : \A x \in Range(ss[i]) : \E n \in DOMAIN w : w[n] = x /\ at[n] = i
  BY <1>7, <1>8 DEF Laid
<1>11. \A n \in DOMAIN w : ss[at[n]] = Recorded(site[at[n]])
  <2> TAKE n \in DOMAIN w
  <2>1. ss[at[n]] # <<>>
    <3>1. Range(<<>>) = {}
      BY DEF Range
    <3> QED
      BY <1>10, <3>1
  <2> QED
    BY <1>4, <1>10, <2>1 DEF part
<1>12. ASSUME NEW n \in DOMAIN w
       PROVE  /\ at[n] \in DOMAIN site /\ w[n] \in Range(Recorded(site[at[n]]))
              /\ \A x \in Range(Recorded(site[at[n]])) :
                   \E q \in DOMAIN w : w[q] = x /\ at[q] = at[n]
  <2>1. /\ at[n] \in DOMAIN site /\ w[n] \in Range(ss[at[n]])
        /\ \A x \in Range(ss[at[n]]) : \E q \in DOMAIN w : w[q] = x /\ at[q] = at[n]
    BY <1>10
  <2>2. ss[at[n]] = Recorded(site[at[n]])
    BY <1>11
  <2> QED
    BY <2>1, <2>2, Zenon
<1>13. /\ \A n \in DOMAIN w :
             at[n] \in DOMAIN site /\ w[n] \in Range(Recorded(site[at[n]]))
       /\ \A n, m \in DOMAIN w : n < m => at[n] <= at[m]
       /\ \A n \in DOMAIN w : \A x \in Range(Recorded(site[at[n]])) :
            \E q \in DOMAIN w : w[q] = x /\ at[q] = at[n]
  <2>1. \A n, m \in DOMAIN w : n < m => at[n] <= at[m]
    BY <1>10
  <2> QED
    BY <1>12, <2>1, Zenon
<1> QED
  BY <1>5, <1>9, <1>13, Zenon

\* A file that loads is what was scraped, or its beginning: a row that was cut
\* within does not load.
LEMMA FileBegins ==
  ASSUME Publishable(site), NEW file \in Files, Loads(file)
  PROVE  \E fetched \in SUBSET DOMAIN site :
           LET w == Scraped(fetched)
           IN /\ DOMAIN file \subseteq DOMAIN w
              /\ \A n \in DOMAIN file :
                   file[n] = w[n] /\ \A q \in DOMAIN w : q < n => q \in DOMAIN file
<1> DEFINE Begins(w) == /\ DOMAIN file \subseteq DOMAIN w
                        /\ \A n \in DOMAIN file :
                             file[n] = w[n] /\ \A q \in DOMAIN w : q < n => q \in DOMAIN file
           written == {Scraped(fetched) : fetched \in SUBSET DOMAIN site}
           Cut(rows, n) == {SubSeq(rows, 1, n - 1),
                            SubSeq(rows, 1, n - 1) \o <<[rows[n] EXCEPT !.stat = Missing]>>}
           cuts(w) == UNION {Cut(w, n) : n \in DOMAIN w}
<1>1. file \in written \/ \E w \in written : file \in cuts(w)
  BY DEF Files
<1>2. CASE file \in written
  <2>1. PICK fetched \in SUBSET DOMAIN site : file = Scraped(fetched)
    BY <1>2
  <2> QED
    BY <2>1
<1>3. ASSUME NEW w \in written, file \in cuts(w)
      PROVE  \E fetched \in SUBSET DOMAIN site : Begins(Scraped(fetched))
  <2>1. PICK fetched \in SUBSET DOMAIN site : w = Scraped(fetched)
    OBVIOUS
  <2>2. PICK n \in DOMAIN w : file \in Cut(w, n)
    BY <1>3
  <2>3. /\ w \in Seq(Range(w))
        /\ \E x \in Range(w) : x = w[n] /\ "stat" \in DOMAIN x
    <3>1. /\ w \in Seq(Range(w))
          /\ \E i \in DOMAIN site : w[n] \in Range(Recorded(site[i]))
      BY <2>1, ScrapedLaid
    <3>2. \E m, r : IsRowOf(w[n], m, r)
      BY <3>1, RecordedIs
    <3>3. "stat" \in DOMAIN w[n] /\ w[n] \in Range(w)
      BY <3>2 DEF IsRowOf, Range
    <3> QED
      BY <3>1, <3>3
  <2> DEFINE s == SubSeq(w, 1, n - 1)
             e == [w[n] EXCEPT !.stat = Missing]
  <2>4. n \in 1 .. Len(w) /\ Len(w) \in Nat /\ DOMAIN w = 1 .. Len(w)
    BY <2>3, LenProperties
  <2>5. /\ s \in Seq(Range(w)) /\ Len(s) = n - 1
        /\ DOMAIN s = 1 .. n - 1 /\ \A i \in 1 .. n - 1 : s[i] = w[i]
    <3>1. 1 \in 1 .. Len(w) + 1 /\ n - 1 \in 1 - 1 .. Len(w)
      BY <2>4
    <3> HIDE DEF written
    <3> QED
      BY <2>3, <2>4, <3>1, SubSeqProperties
  <2>6. file # s \o <<e>>
    <3> SUFFICES ASSUME file = s \o <<e>> PROVE FALSE
      OBVIOUS
    <3>1. e.stat = Missing
      BY <2>3
    <3> HIDE DEF e, s, written
    <3> DEFINE Y == Range(w) \cup {e}
    <3>2. s \in Seq(Y) /\ <<e>> \in Seq(Y)
      <4>1. s \in [1 .. n - 1 -> Y]
        BY <2>5, SeqDef
      <4> QED
        BY <2>4, <4>1, SeqDef
    <3>3. Len(<<e>>) = 1 /\ <<e>>[1] = e
      OBVIOUS
    <3> DEFINE one == <<e>>
               both == s \o one
    <3>4. one \in Seq(Y) /\ Len(one) = 1 /\ one[1] = e
      BY <3>2, <3>3
    <3> HIDE DEF one, Y
    <3>5. /\ both \in Seq(Y) /\ Len(both) = (n - 1) + 1
          /\ \A i \in 1 .. (n - 1) + 1 :
               both[i] = IF i <= n - 1 THEN s[i] ELSE one[i - (n - 1)]
      <4>1. /\ both \in Seq(Y) /\ Len(both) = Len(s) + Len(one)
            /\ \A i \in 1 .. Len(s) + Len(one) :
                 both[i] = IF i <= Len(s) THEN s[i] ELSE one[i - Len(s)]
        BY <3>2, <3>4, ConcatProperties
      <4> HIDE DEF both
      <4> QED
        BY <2>5, <3>4, <4>1
    <3>6. n \in 1 .. (n - 1) + 1 /\ ~(n <= n - 1) /\ n - (n - 1) = 1
      BY <2>4
    <3>7. n \in DOMAIN both /\ both[n] = e
      <4> HIDE DEF both
      <4>1. DOMAIN both = 1 .. (n - 1) + 1
        BY <3>5, LenProperties
      <4> QED
        BY <3>4, <3>5, <3>6, <4>1
    <3>8. file = both
      BY DEF one
    <3> HIDE DEF both
    <3>9. n \in DOMAIN file /\ file[n].stat = Missing
      BY <3>1, <3>7, <3>8
    <3> QED
      BY <3>9 DEF Loads
  <2>7. file = s
    BY <2>2, <2>6
  <2> HIDE DEF s, e, written, Cut, cuts
  <2>8. Begins(w)
    BY <2>4, <2>5, <2>7
  <2> QED
    BY <2>1, <2>8
<1> HIDE DEF Cut, written
<1>4. CASE \E w \in written : file \in cuts(w)
  BY <1>3, <1>4
<1> QED
  BY <1>1, <1>2, <1>4

\* Where the rows of a file that loads come from: each from a match, and all of a
\* match that another comes after.
LEMMA FileLaid ==
  ASSUME Publishable(site), NEW file \in Files, Loads(file)
  PROVE  \E at :
           /\ \A n \in DOMAIN file :
                at[n] \in DOMAIN site /\ file[n] \in Range(Recorded(site[at[n]]))
           /\ \A n, m \in DOMAIN file : at[m] < at[n] =>
                \A x \in Range(Recorded(site[at[m]])) : x \in Range(file)
<1>1. PICK fetched \in SUBSET DOMAIN site :
        LET w == Scraped(fetched)
        IN /\ DOMAIN file \subseteq DOMAIN w
           /\ \A n \in DOMAIN file :
                file[n] = w[n] /\ \A q \in DOMAIN w : q < n => q \in DOMAIN file
  BY FileBegins
<1> DEFINE w == Scraped(fetched)
<1>2. w \in Seq(Range(w))
  BY ScrapedLaid
<1>3. PICK at :
        /\ \A n \in DOMAIN w : at[n] \in DOMAIN site /\ w[n] \in Range(Recorded(site[at[n]]))
        /\ \A n, m \in DOMAIN w : n < m => at[n] <= at[m]
        /\ \A n \in DOMAIN w : \A x \in Range(Recorded(site[at[n]])) :
             \E q \in DOMAIN w : w[q] = x /\ at[q] = at[n]
  BY ScrapedLaid
<1>4. /\ DOMAIN file \subseteq DOMAIN w
      /\ \A n \in DOMAIN file : file[n] = w[n] /\ \A q \in DOMAIN w : q < n => q \in DOMAIN file
  BY <1>1
<1> HIDE DEF w
<1>5. DOMAIN w = 1 .. Len(w) /\ DOMAIN site = 1 .. Len(site) /\ Len(site) \in Nat
  BY <1>2, LenProperties DEF Publishable
<1>6. ASSUME NEW n \in DOMAIN file, NEW m \in DOMAIN file, at[m] < at[n],
             NEW x \in Range(Recorded(site[at[m]]))
      PROVE  x \in Range(file)
  <2>1. n \in DOMAIN w /\ m \in DOMAIN w
    BY <1>4
  <2>2. at[m] \in DOMAIN site /\ at[n] \in DOMAIN site
    BY <1>3, <2>1
  <2>3. PICK q \in DOMAIN w : w[q] = x /\ at[q] = at[m]
    BY <1>3, <2>1
  <2>4. q < n
    <3>1. n \in Nat /\ q \in Nat /\ at[m] \in Nat /\ at[n] \in Nat
      BY <1>5, <2>1, <2>2
    <3>2. n < q => at[n] <= at[q]
      BY <1>3, <2>1
    <3>3. n # q
      BY <1>6, <2>3, <3>1
    <3> QED
      BY <1>6, <2>3, <3>1, <3>2, <3>3
  <2> QED
    BY <1>4, <2>3, <2>4 DEF Range
<1> QED
  BY <1>3, <1>4, <1>6

-----------------------------------------------------------------------------
(* The season that is loaded, against the site.                            *)

\* The player of a linked row of the team's table on the page of a match.
IsPlayed(m, r) == \E t \in Range(m.page) : t.caption \in Ours /\ r \in Range(t.rows)

\* Of a name, only how it is spelt is changed.
LEMMA NormalizeIs ==
  ASSUME NEW p, p \in [name : {p.name}, loose : BOOLEAN, nfd : BOOLEAN]
  PROVE  Normalize(p) = [name |-> p.name, loose |-> FALSE, nfd |-> FALSE]
<1> DEFINE q == Normalize(p)
<1>1. DOMAIN p = {"name", "loose", "nfd"}
  OBVIOUS
<1>2. /\ DOMAIN q = {"name", "loose", "nfd"} /\ q.name = p.name
      /\ q.loose = FALSE /\ q.nfd = FALSE
  BY <1>1 DEF Normalize
<1>3. q = [x \in DOMAIN q |-> q[x]]
  BY DEF Normalize
<1> HIDE DEF q
<1>4. q = [name |-> p.name, loose |-> FALSE, nfd |-> FALSE]
  BY <1>2, <1>3
<1> QED
  BY <1>4 DEF q

\* A game is stored as the site has it.
IsStored(g, m) ==
  /\ g.home <=> m.side = 1
  /\ g.team = m.score[m.side] /\ g.other = m.score[3 - m.side]
  /\ g.won <=> g.team > g.other

\* What a row of the file says is what the site says, in its key, its game and its line.
LEMMA RowFacts ==
  ASSUME Publishable(site), NEW i \in DOMAIN site, NEW r, IsPlayed(site[i], r),
         NEW x, IsRowOf(x, site[i], r), x.score # Missing
  PROVE  /\ Key(x) = Key(site[i]) /\ Plays(site[i], Key(x))
         /\ LineOf(x) = <<Key(site[i]), <<seeds, Normalize(r.player)>>>> /\ x.stat = r.stat
         /\ Normalize(r.player) = [name |-> r.player.name, loose |-> FALSE, nfd |-> FALSE]
         /\ IsStored(ParseMatch(x), site[i])
<1> DEFINE m == site[i]
<1>1. m \in Range(site) /\ IsPlayed(m, r) /\ IsRowOf(x, m, r)
  BY DEF Range
<1> HIDE DEF m
<1>2. /\ m.side \in {1, 2} /\ Them(m) \notin Ours /\ Us(m) \in Ours
      /\ m.score = Missing \/ m.score \in Nat \X Nat
      /\ r.player \in [name : {r.player.name}, loose : BOOLEAN, nfd : BOOLEAN]
  BY <1>1 DEF Publishable, IsPlayed
<1>3. /\ x.date = m.date /\ x.home = m.home /\ x.away = m.away /\ x.score = m.score
      /\ x.player = r.player /\ x.stat = r.stat
  BY <1>1 DEF IsRowOf
<1>4. ParseMatch(x) = ParseMatch(m)
  BY <1>3, Zenon DEF ParseMatch
<1>5. Key(x) = Key(m)
  BY <1>3, <1>4 DEF Key
<1>6. Plays(m, Key(m))
  <2>1. ParseMatch(m).opponent = IF m.home \in Ours THEN m.away ELSE m.home
    BY DEF ParseMatch
  <2>2. ParseMatch(m).opponent = Them(m)
    BY <1>2, <2>1 DEF Us, Them
  <2>3. Key(m) = <<m.date, ParseMatch(m).opponent>>
    BY DEF Key
  <2>4. Key(m)[1] = m.date /\ Key(m)[2] = ParseMatch(m).opponent
    BY <2>3
  <2> QED
    BY <2>2, <2>4 DEF Plays
<1>7. Normalize(r.player) = [name |-> r.player.name, loose |-> FALSE, nfd |-> FALSE]
  BY <1>2, NormalizeIs
<1>8. LineOf(x) = <<Key(m), <<seeds, Normalize(r.player)>>>>
  BY <1>3, <1>5 DEF LineOf, Id
<1>9. m.score \in Nat \X Nat
  BY <1>2, <1>3
<1>10. IsStored(ParseMatch(m), m)
  <2>1. m.home \in Ours <=> m.side = 1
    BY <1>2 DEF Us, Them
  <2>2. /\ ParseMatch(m).team = m.score[IF m.home \in Ours THEN 1 ELSE 2]
        /\ ParseMatch(m).other = m.score[IF m.home \in Ours THEN 2 ELSE 1]
    BY Zenon DEF ParseMatch
  <2>3. /\ ParseMatch(m).won <=> ParseMatch(m).team > ParseMatch(m).other
        /\ ParseMatch(m).home <=> m.home \in Ours
    BY Zenon DEF ParseMatch
  <2> QED
    BY <1>2, <2>1, <2>2, <2>3 DEF IsStored
<1> QED
  BY <1>3, <1>4, <1>5, <1>6, <1>7, <1>8, <1>10 DEF m

\* A game is that of one match.
LEMMA OneMatch ==
  ASSUME Publishable(site), NEW i \in DOMAIN site, NEW j \in DOMAIN site, NEW k,
         Plays(site[i], k), Plays(site[j], k)
  PROVE  i = j
BY DEF Publishable, Plays

\* Where a row of a file that loads comes from.
LEMMA FileRow ==
  ASSUME Publishable(site), NEW file, Loads(file), NEW n \in DOMAIN file, NEW i \in DOMAIN site,
         file[n] \in Range(Recorded(site[i]))
  PROVE  /\ file[n].score # Missing
         /\ \E r : IsPlayed(site[i], r) /\ IsRowOf(file[n], site[i], r)
<1>1. file[n].score # Missing
  BY DEF Loads
<1>2. \E t \in Range(site[i].page) : t.caption \in Ours /\
        \E r \in {r \in Range(t.rows) : r.linked} : IsRowOf(file[n], site[i], r)
  BY RecordedIs
<1> QED
  BY <1>1, <1>2 DEF IsPlayed

\* A load stores the games and the lines of the site.
LEMMA LoadTrue == ASSUME Publishable(site), SeedLoad PROVE SeasonTrue'
<1>1. PICK file \in Files : Loads(file) /\ db' = Loaded(file)
  BY DEF SeedLoad
<1>2. PICK at :
        /\ \A n \in DOMAIN file :
             at[n] \in DOMAIN site /\ file[n] \in Range(Recorded(site[at[n]]))
        /\ \A n, m \in DOMAIN file : at[m] < at[n] =>
             \A x \in Range(Recorded(site[at[m]])) : x \in Range(file)
  BY <1>1, FileLaid
<1>3. site' = site
  BY DEF SeedLoad
<1>4. ASSUME NEW x \in Range(file)
      PROVE  \E i \in DOMAIN site : \E r : /\ IsPlayed(site[i], r) /\ IsRowOf(x, site[i], r)
                                           /\ x.score # Missing
  <2>1. PICK n \in DOMAIN file : x = file[n]
    BY DEF Range
  <2> QED
    BY <1>1, <1>2, <2>1, FileRow
<1>5. ASSUME NEW k \in DOMAIN db'.games
      PROVE  \E i \in DOMAIN site :
               Plays(site[i], k) /\ IsStored(db'.games[k], site[i])
  <2> DEFINE x == CHOOSE r \in Range(file) : Key(r) = k
  <2>1. k \in {Key(r) : r \in Range(file)} /\ db'.games[k] = ParseMatch(x)
    BY <1>1 DEF Loaded
  <2>2. x \in Range(file) /\ Key(x) = k
    BY <2>1
  <2> HIDE DEF x
  <2>3. PICK i \in DOMAIN site : \E r : /\ IsPlayed(site[i], r) /\ IsRowOf(x, site[i], r)
                                        /\ x.score # Missing
    BY <1>4, <2>2
  <2>4. Plays(site[i], k) /\ IsStored(ParseMatch(x), site[i])
    BY <2>2, <2>3, RowFacts
  <2> QED
    BY <2>1, <2>4
<1>6. ASSUME NEW l \in DOMAIN db'.lines
      PROVE  \E i \in DOMAIN site :
               /\ Plays(site[i], l[1])
               /\ \E t \in Range(site[i].page) : t.side = site[i].side /\
                    \E r \in Range(t.rows) : Normalize(r.player) = l[2][2] /\ r.stat = db'.lines[l]
  <2> DEFINE x == CHOOSE r \in Range(file) : LineOf(r) = l
  <2>1. l \in {LineOf(r) : r \in Range(file)} /\ db'.lines[l] = x.stat
    BY <1>1 DEF Loaded
  <2>2. x \in Range(file) /\ LineOf(x) = l
    BY <2>1
  <2> HIDE DEF x
  <2>3. PICK i \in DOMAIN site : \E r : /\ IsPlayed(site[i], r) /\ IsRowOf(x, site[i], r)
                                        /\ x.score # Missing
    BY <1>4, <2>2
  <2>4. PICK r : IsPlayed(site[i], r) /\ IsRowOf(x, site[i], r) /\ x.score # Missing
    BY <2>3
  <2>5. /\ Plays(site[i], Key(x)) /\ Key(x) = Key(site[i])
        /\ LineOf(x) = <<Key(site[i]), <<seeds, Normalize(r.player)>>>> /\ x.stat = r.stat
    BY <2>4, RowFacts
  <2>6. site[i] \in Range(site)
    BY DEF Range
  <2>7. \A t \in Range(site[i].page) : t.caption \in Ours => t.side = site[i].side
    BY <2>6 DEF Publishable
  <2> QED
    BY <2>1, <2>2, <2>4, <2>5, <2>7 DEF IsPlayed
<1> QED
  BY <1>3, <1>5, <1>6 DEF SeasonTrue, IsStored

\* A load leaves no game without a player, but the last.
LEMMA LoadWhole == ASSUME Publishable(site), SeedLoad PROVE OnlyLastCut'
<1>1. PICK file \in Files : Loads(file) /\ db' = Loaded(file)
  BY DEF SeedLoad
<1>2. PICK at :
        /\ \A n \in DOMAIN file :
             at[n] \in DOMAIN site /\ file[n] \in Range(Recorded(site[at[n]]))
        /\ \A n, m \in DOMAIN file : at[m] < at[n] =>
             \A x \in Range(Recorded(site[at[m]])) : x \in Range(file)
  BY <1>1, FileLaid
<1>3. site' = site
  BY DEF SeedLoad
<1>4. ASSUME NEW k \in DOMAIN db'.games, NEW i \in DOMAIN site, Plays(site[i], k)
      PROVE  /\ k = Key(site[i]) /\ site[i].score # Missing
             /\ \E n \in DOMAIN file : at[n] = i
             /\ \A t \in Range(site[i].page) : t.side = site[i].side => t.caption \in Ours
  <2>1. PICK n \in DOMAIN file : Key(file[n]) = k
    BY <1>1 DEF Loaded, Range
  <2>2. at[n] \in DOMAIN site /\ file[n] \in Range(Recorded(site[at[n]]))
    BY <1>2
  <2>3. PICK r : IsPlayed(site[at[n]], r) /\ IsRowOf(file[n], site[at[n]], r) /\ file[n].score # Missing
    BY <1>1, <2>2, FileRow
  <2>4. Plays(site[at[n]], k) /\ k = Key(site[at[n]])
    BY <2>1, <2>2, <2>3, RowFacts
  <2>5. at[n] = i
    BY <1>4, <2>2, <2>4, OneMatch
  <2>6. site[i] \in Range(site) /\ IsPlayed(site[i], r)
    BY <2>3, <2>5 DEF Range
  <2>7. \A t \in Range(site[i].page) : t.side = site[i].side => t.caption \in Ours
    BY <2>6 DEF Publishable, IsPlayed
  <2> QED
    BY <2>3, <2>4, <2>5, <2>7 DEF IsRowOf
<1>5. ASSUME NEW i \in DOMAIN site, NEW j \in DOMAIN site, i < j,
             NEW k \in DOMAIN db'.games, NEW l \in DOMAIN db'.games,
             Plays(site[i], k), Plays(site[j], l),
             NEW t \in Range(site[i].page), t.side = site[i].side,
             NEW r \in Range(t.rows), r.linked
      PROVE  \E x \in DOMAIN db'.lines : x[1] = k /\ x[2][2] = Normalize(r.player)
  <2>1. PICK n \in DOMAIN file, m \in DOMAIN file : at[n] = i /\ at[m] = j
    BY <1>4, <1>5
  <2> t.caption \in Ours
    BY <1>4, <1>5
  <2>2. PICK x \in Range(Recorded(site[i])) : IsRowOf(x, site[i], r)
    BY <1>5, RecordedIs
  <2>3. x \in Range(file)
    BY <1>2, <1>5, <2>1, <2>2
  <2>4. k = Key(site[i]) /\ x.score # Missing /\ IsPlayed(site[i], r)
    BY <1>4, <1>5, <2>2 DEF IsRowOf, IsPlayed
  <2>5. LineOf(x) = <<k, <<seeds, Normalize(r.player)>>>>
    BY <2>2, <2>4, RowFacts
  <2>6. LineOf(x) \in DOMAIN db'.lines
    BY <1>1, <2>3 DEF Loaded
  <2> QED
    BY <2>5, <2>6
<1> QED
  BY <1>3, <1>5 DEF OnlyLastCut

\* The name in a player's id is normalized.
NamesInv ==
  \A id \in DOMAIN db.players :
    id = <<id[1], [name |-> id[2].name, loose |-> FALSE, nfd |-> FALSE]>>

\* A load makes players of normalized names.
LEMMA LoadNames == ASSUME Publishable(site), SeedLoad PROVE NamesInv'
<1>1. PICK file \in Files : Loads(file) /\ db' = Loaded(file)
  BY DEF SeedLoad
<1>2. PICK at :
        /\ \A n \in DOMAIN file :
             at[n] \in DOMAIN site /\ file[n] \in Range(Recorded(site[at[n]]))
        /\ \A n, m \in DOMAIN file : at[m] < at[n] =>
             \A x \in Range(Recorded(site[at[m]])) : x \in Range(file)
  BY <1>1, FileLaid
<1>3. ASSUME NEW id \in DOMAIN db'.players
      PROVE  id = <<id[1], [name |-> id[2].name, loose |-> FALSE, nfd |-> FALSE]>>
  <2>1. PICK n \in DOMAIN file : id = Id(file[n])
    BY <1>1 DEF Loaded, Range
  <2>2. at[n] \in DOMAIN site /\ file[n] \in Range(Recorded(site[at[n]]))
    BY <1>2
  <2>3. PICK r : IsPlayed(site[at[n]], r) /\ IsRowOf(file[n], site[at[n]], r) /\ file[n].score # Missing
    BY <1>1, <2>2, FileRow
  <2>4. /\ file[n].player = r.player
        /\ Normalize(r.player) = [name |-> r.player.name, loose |-> FALSE, nfd |-> FALSE]
    <3>1. file[n].player = r.player
      BY <2>3 DEF IsRowOf
    <3>2. Normalize(r.player) = [name |-> r.player.name, loose |-> FALSE, nfd |-> FALSE]
      BY <2>2, <2>3, RowFacts
    <3> QED
      BY <3>1, <3>2
  <2>5. id = <<seeds, [name |-> r.player.name, loose |-> FALSE, nfd |-> FALSE]>>
    BY <2>1, <2>4 DEF Id
  <2> QED
    BY <2>5
<1> QED
  BY <1>3 DEF NamesInv

-----------------------------------------------------------------------------
(* What the seed script keeps.                                             *)

\* What a load fills, table by table: a player per row, a user per entry of SEED_USERS.
LEMMA LoadedParts ==
  ASSUME NEW rows, Loads(rows)
  PROVE  /\ DOMAIN Loaded(rows) = {"players", "users", "games", "lines"}
         /\ DOMAIN Loaded(rows).players = {Id(r) : r \in Range(rows)}
         /\ \A id \in DOMAIN Loaded(rows).players :
              id[1] = seeds /\ IsRow(Loaded(rows).players[id])
         /\ DOMAIN Loaded(rows).users = DOMAIN SeedUsers
         /\ \A e \in DOMAIN SeedUsers :
              Loaded(rows).users[e] = <<seeds, Normalize(SeedUsers[e])>>
         /\ DOMAIN Loaded(rows).games = {Key(r) : r \in Range(rows)}
         /\ DOMAIN Loaded(rows).lines = {LineOf(r) : r \in Range(rows)}
BY DEF Loaded, NewPlayer, IsRow, Id

\* The guard for users without a player.
LEMMA UserHasPlayer ==
  ASSUME NEW rows, Loads(rows), NEW e \in DOMAIN SeedUsers
  PROVE  <<seeds, Normalize(SeedUsers[e])>> \in {Id(r) : r \in Range(rows)}
<1>1. Normalize(SeedUsers[e]) \in Norms(Range(SeedUsers))
  BY DEF Norms, Range
<1>2. PICK r \in Range(rows) : Normalize(SeedUsers[e]) = Normalize(r.player)
  BY <1>1 DEF Loads, Norms
<1> QED
  BY <1>2 DEF Id

\* A load leaves ids of its own run, and every user with a player who has played.
LEMMA SeedLoadDb == ASSUME DbInv, SeedLoad PROVE DbInv'
<1>1. PICK rows : Loads(rows) /\ db' = Loaded(rows)
  BY DEF SeedLoad
<1>2. seed' = "idle" /\ seeds' = seeds
  BY DEF SeedLoad
<1>3. \A id \in DOMAIN db'.players : id[1] = seeds /\ IsRow(db'.players[id])
  BY <1>1, LoadedParts
<1>4. \A e \in DOMAIN db'.users :
        db'.users[e] \in DOMAIN db'.players /\ db'.users[e][2] = Normalize(SeedUsers[e])
  BY <1>1, LoadedParts, UserHasPlayer
<1>5. \A l \in DOMAIN db'.lines : l[1] \in DOMAIN db'.games /\ l[2] \in DOMAIN db'.players
  BY <1>1, LoadedParts DEF LineOf
<1>6. DOMAIN db'.users = DOMAIN SeedUsers /\ DOMAIN db' = {"players", "users", "games", "lines"}
  BY <1>1, LoadedParts
<1>7. \A e \in DOMAIN db'.users : \E l \in DOMAIN db'.lines : l[2] = db'.users[e]
  <2> SUFFICES ASSUME NEW e \in DOMAIN SeedUsers
               PROVE  \E l \in DOMAIN db'.lines : l[2] = <<seeds, Normalize(SeedUsers[e])>>
    BY <1>1, LoadedParts
  <2>1. PICK r \in Range(rows) : <<seeds, Normalize(SeedUsers[e])>> = Id(r)
    BY <1>1, UserHasPlayer
  <2>2. LineOf(r) \in DOMAIN db'.lines /\ LineOf(r)[2] = Id(r)
    BY <1>1, LoadedParts DEF LineOf
  <2> QED
    BY <2>1, <2>2
<1> QED
  BY <1>2, <1>3, <1>4, <1>5, <1>6, <1>7 DEF DbInv, IsRow

-----------------------------------------------------------------------------
(* Steps of one device.                                                    *)

OthersKept(c) ==
  DOMAIN client' = Clients /\ \A d \in Clients \ {c} : client'[d] = client[d]

\* A device is left alone by requests of others: traces only gain answers.
LEMMA DeviceKept ==
  ASSUME NEW c \in Clients, ClientInv(c), client'[c] = client[c],
         UNCHANGED <<db, seeds>>,
         \A t \in DOMAIN chats : t \in DOMAIN chats' /\ chats'[t] = chats[t]
  PROVE  ClientInv(c)'
<1>1. ShapeOk(c)' /\ AccessOk(c)'
  BY DEF ClientInv, ShapeOk, AccessOk, Holder
<1>2. RateOk(c)'
  BY DEF ClientInv, RateOk
<1>3. RequestOk(c)'
  BY DEF ClientInv, RequestOk
<1>4. SeenOk(c)'
  BY DEF ClientInv, SeenOk, Holder
<1>5. OnboardOk(c)'
  BY DEF ClientInv, OnboardOk, Wanted
<1>6. AnswerOk(c)'
  BY DEF ClientInv, AnswerOk, Wanted, Holder, Answered
<1> QED
  BY <1>1, <1>2, <1>3, <1>4, <1>5, <1>6 DEF ClientInv

\* The database is sound as long as no seed and no onboarding touches it.
LEMMA DbKept == DbInv /\ UNCHANGED importVars => DbInv'
BY DEF DbInv, importVars, IsRow

\* Traces are numbered by the device's requests, so none is used twice.
LEMMA ChatsKept ==
  ASSUME ChatsInv, NEW c \in Clients, OthersKept(c), UNCHANGED <<chats, ratings>>,
         client[c].n \in Nat,
         \/ client'[c].n = client[c].n /\ (client'[c].pc # "idle" => client[c].pc # "idle")
         \/ client'[c].n = client[c].n + 1
  PROVE  ChatsInv'
<1> SUFFICES ASSUME NEW t \in DOMAIN chats
             PROVE  /\ t[2] <= client'[t[1]].n
                    /\ client'[t[1]].pc # "idle" => t[2] < client'[t[1]].n
  BY DEF ChatsInv
<1>1. /\ t[1] \in Clients /\ t[2] \in Nat /\ t[2] <= client[t[1]].n
      /\ client[t[1]].pc # "idle" => t[2] < client[t[1]].n
  BY DEF ChatsInv
<1>2. CASE t[1] = c
  BY <1>1, <1>2
<1>3. CASE t[1] # c
  BY <1>1, <1>3 DEF OthersKept
<1> QED
  BY <1>2, <1>3

\* A step of one device is sound if it leaves that device and the chats so.
LEMMA DeviceStep ==
  ASSUME Inv, NEW c \in Clients, OthersKept(c), ClientInv(c)', ChatsInv',
         UNCHANGED <<importVars, now>>, aurora' \in {"up", "paused", "resuming"},
         \A t \in DOMAIN chats : t \in DOMAIN chats' /\ chats'[t] = chats[t]
  PROVE  Inv'
<1>1. \A d \in Clients : ClientInv(d)'
  <2> SUFFICES ASSUME NEW d \in Clients PROVE ClientInv(d)'
    OBVIOUS
  <2>1. CASE d = c
    BY <2>1
  <2>2. CASE d # c
    BY <2>2, DeviceKept DEF Inv, OthersKept, importVars
  <2> QED
    BY <2>1, <2>2
<1>2. DbInv'
  BY DbKept DEF Inv
<1> QED
  BY <1>1, <1>2 DEF Inv, OthersKept

\* A request that is turned down.
LEMMA AnswerFacts ==
  ASSUME Inv, NEW c \in Clients, NEW status, Answer(c, status)
  PROVE  /\ OthersKept(c) /\ DOMAIN client'[c] = ClientFields
         /\ client'[c].pc = "idle" /\ client'[c].status = status /\ client'[c].n = client[c].n
         /\ client'[c].email = client[c].email /\ client'[c].access = client[c].access
         /\ client'[c].rate = client[c].rate /\ client'[c].req = client[c].req
         /\ client'[c].calm = client[c].calm /\ client'[c].alone = client[c].alone
         /\ client'[c].body = client[c].body
<1>1. DOMAIN client = Clients /\ DOMAIN client[c] = ClientFields
  BY DEF Inv, ClientInv, ShapeOk
<1> QED
  BY <1>1 DEF Answer, OthersKept, ClientFields

\* Refusals: 401 or 403 for an old token, never 401 for the right password.
LEMMA TurnedDown ==
  ASSUME Inv, NEW c \in Clients, client[c].pc # "idle",
         NEW status \in {400, 401, 403, 500}, Answer(c, status),
         client[c].req.old => status \in {401, 403},
         status = 500 => ~client[c].calm,
         client[c].req.what = "login" /\ client[c].req.right /\ client[c].calm => status # 401,
         UNCHANGED <<importVars, now, aurora, chats, ratings>>
  PROVE  Inv'
<1>1. ClientInv(c) /\ client[c].n \in Nat
  BY DEF Inv, ClientInv, ShapeOk
<1>2. /\ OthersKept(c) /\ DOMAIN client'[c] = ClientFields
      /\ client'[c].pc = "idle" /\ client'[c].status = status /\ client'[c].n = client[c].n
      /\ client'[c].email = client[c].email /\ client'[c].access = client[c].access
      /\ client'[c].rate = client[c].rate /\ client'[c].req = client[c].req
      /\ client'[c].calm = client[c].calm /\ client'[c].alone = client[c].alone
  BY AnswerFacts
<1>3. ShapeOk(c)'
  BY <1>1, <1>2 DEF ShapeOk, States
<1>4. AccessOk(c)' /\ RateOk(c)'
  BY <1>1, <1>2 DEF ClientInv, AccessOk, RateOk, Holder
<1>5. RequestOk(c)' /\ SeenOk(c)' /\ OnboardOk(c)'
  BY <1>2 DEF RequestOk, SeenOk, OnboardOk
<1>6. AnswerOk(c)'
  BY <1>2 DEF AnswerOk, Answered
<1>7. ChatsInv'
  BY <1>1, <1>2, ChatsKept DEF Inv
<1>8. ClientInv(c)'
  BY <1>3, <1>4, <1>5, <1>6 DEF ClientInv
<1> QED
  BY <1>2, <1>7, <1>8, DeviceStep DEF Inv

\* A request that is answered with the player.
LEMMA Shown ==
  ASSUME Inv, NEW c \in Clients, client[c].pc # "idle", NEW id, Show(c, id),
         id[2] = Holder(c), ~client[c].req.old,
         client[c].req.what = "onboard" /\ client[c].alone => db.players[id] = Wanted(c),
         UNCHANGED <<importVars, now, aurora, chats>>,
         \A r \in ratings' : r \in ratings \/ (r[1] \in DOMAIN chats /\ chats[r[1]] = r[2])
  PROVE  Inv'
<1>1. ClientInv(c) /\ client[c].n \in Nat /\ DOMAIN client = Clients
      /\ DOMAIN client[c] = ClientFields
  BY DEF Inv, ClientInv, ShapeOk
<1>2. /\ OthersKept(c) /\ DOMAIN client'[c] = ClientFields
      /\ client'[c].pc = "idle" /\ client'[c].status = 200 /\ client'[c].n = client[c].n
      /\ client'[c].email = client[c].email /\ client'[c].access = client[c].access
      /\ client'[c].rate = client[c].rate /\ client'[c].req = client[c].req
      /\ client'[c].calm = client[c].calm /\ client'[c].alone = client[c].alone
      /\ client'[c].body = [id |-> id, row |-> db.players[id]]
  BY <1>1 DEF Show, OthersKept, ClientFields
<1>3. ShapeOk(c)'
  BY <1>1, <1>2 DEF ShapeOk, States
<1>4. AccessOk(c)' /\ RateOk(c)'
  BY <1>1, <1>2 DEF ClientInv, AccessOk, RateOk, Holder
<1>5. RequestOk(c)' /\ SeenOk(c)' /\ OnboardOk(c)'
  BY <1>2 DEF RequestOk, SeenOk, OnboardOk
<1>6. AnswerOk(c)'
  BY <1>2 DEF AnswerOk, Answered, Holder, Wanted
<1>7. ChatsInv'
  <2>1. \A t \in DOMAIN chats :
          /\ t[2] <= client'[t[1]].n
          /\ client'[t[1]].pc # "idle" => t[2] < client'[t[1]].n
    BY <1>2 DEF Inv, ChatsInv, OthersKept
  <2> QED
    BY <2>1 DEF Inv, ChatsInv
<1>8. ClientInv(c)'
  BY <1>3, <1>4, <1>5, <1>6 DEF ClientInv
<1> QED
  BY <1>2, <1>7, <1>8, DeviceStep DEF Inv

-----------------------------------------------------------------------------
(* Requests and their retries.                                             *)

\* Each device's record keeps its fields.
LEMMA Shapes ==
  Inv => /\ DOMAIN client = Clients
         /\ \A c \in Clients : ClientInv(c) /\ DOMAIN client[c] = ClientFields
                               /\ client[c].n \in Nat
BY DEF Inv, ClientInv, ShapeOk

\* The device sends what it holds: the tokens are still those when the request
\* is handled.
LEMMA SendStep ==
  ASSUME Inv, NEW c \in Clients, client[c].pc = "idle",
         NEW what, NEW email, NEW right, NEW profile, NEW bearer, NEW rating,
         Send(c, what, email, right, profile, bearer, rating),
         bearer \in {NoToken, client[c].access, client[c].rate},
         rating \in {NoToken, client[c].access, client[c].rate},
         what = "login" => email \in DOMAIN SeedUsers /\ bearer = NoToken,
         UNCHANGED <<importVars, now, aurora, chats, ratings>>
  PROVE  Inv'
<1> DEFINE old == bearer # NoToken /\ bearer.of[1] < seeds
           calm == db # Empty
<1>1. ClientInv(c)
  BY Shapes
<1>2. /\ OthersKept(c) /\ DOMAIN client'[c] = ClientFields
      /\ client'[c].pc = "sent" /\ client'[c].status = 0 /\ client'[c].n = client[c].n + 1
      /\ client'[c].email = client[c].email /\ client'[c].access = client[c].access
      /\ client'[c].rate = client[c].rate
      /\ client'[c].req.what = what /\ client'[c].req.email = email
      /\ client'[c].req.bearer = bearer /\ client'[c].req.rating = rating
      /\ client'[c].req.old = old /\ client'[c].calm = calm
  BY Shapes DEF Send, OthersKept, ClientFields
<1>3. (old <=> bearer # NoToken /\ bearer.of[1] < seeds) /\ (calm <=> db # Empty)
  OBVIOUS
<1> HIDE DEF old, calm
<1>4. ShapeOk(c)'
  BY <1>1, <1>2 DEF ClientInv, ShapeOk, States
<1>5. AccessOk(c)' /\ RateOk(c)'
  BY <1>1, <1>2 DEF ClientInv, AccessOk, RateOk, Holder
<1>6. RequestOk(c)'
  BY <1>2, <1>3 DEF RequestOk, importVars
<1>7. SeenOk(c)' /\ OnboardOk(c)'
  BY <1>2, <1>3 DEF SeenOk, OnboardOk, importVars
<1>8. AnswerOk(c)'
  BY <1>2 DEF AnswerOk, Answered
<1>9. ChatsInv'
  BY <1>2, Shapes, ChatsKept DEF Inv
<1>10. ClientInv(c)'
  BY <1>4, <1>5, <1>6, <1>7, <1>8 DEF ClientInv
<1> QED
  BY <1>2, <1>9, <1>10, DeviceStep DEF Inv

\* A request that did not come through CloudFront is refused.
LEMMA BypassStep ==
  ASSUME Inv, NEW c \in Clients, client[c].pc = "idle", Bypass(c),
         UNCHANGED <<importVars, now, aurora, chats, ratings>>
  PROVE  Inv'
<1>1. ClientInv(c)
  BY Shapes
<1>2. /\ OthersKept(c) /\ DOMAIN client'[c] = ClientFields
      /\ client'[c].pc = "idle" /\ client'[c].status = 403 /\ client'[c].n = client[c].n + 1
      /\ client'[c].email = client[c].email /\ client'[c].access = client[c].access
      /\ client'[c].rate = client[c].rate /\ client'[c].req = Idle.req
      /\ client'[c].calm = client[c].calm
  BY <1>1, Shapes DEF Bypass, OthersKept, ClientFields
<1>3. ShapeOk(c)'
  BY <1>1, <1>2 DEF ClientInv, ShapeOk, States
<1>4. AccessOk(c)' /\ RateOk(c)'
  BY <1>1, <1>2 DEF ClientInv, AccessOk, RateOk, Holder
<1>5. RequestOk(c)' /\ SeenOk(c)' /\ OnboardOk(c)'
  BY <1>2 DEF RequestOk, SeenOk, OnboardOk
<1>6. AnswerOk(c)'
  BY <1>2 DEF AnswerOk, Answered, Idle
<1>7. ChatsInv'
  BY <1>2, Shapes, ChatsKept DEF Inv
<1>8. ClientInv(c)'
  BY <1>3, <1>4, <1>5, <1>6 DEF ClientInv
<1> QED
  BY <1>2, <1>7, <1>8, DeviceStep DEF Inv

\* A device sends any of the requests, or bypasses the origin.
LEMMA RequestStep == ASSUME Inv, NEW c \in Clients, Request(c) PROVE Inv'
<1>1. client[c].pc = "idle" /\ UNCHANGED <<importVars, now, aurora, chats, ratings>>
  BY DEF Request
<1>2. ASSUME NEW e \in DOMAIN SeedUsers, NEW right \in BOOLEAN,
             Send(c, "login", e, right, Nobody, NoToken, NoToken)
      PROVE  Inv'
  BY <1>1, <1>2, SendStep
<1>3. ASSUME NEW t \in {client[c].access, client[c].rate},
             Send(c, "me", Nobody, TRUE, Nobody, t, NoToken)
      PROVE  Inv'
  BY <1>1, <1>3, SendStep
<1>4. ASSUME NEW p \in Profiles, Send(c, "onboard", Nobody, TRUE, p, client[c].access, NoToken)
      PROVE  Inv'
  BY <1>1, <1>4, SendStep
<1>5. ASSUME NEW t \in {client[c].access, client[c].rate},
             Send(c, "feedback", Nobody, TRUE, Nobody, client[c].access, t)
      PROVE  Inv'
  BY <1>1, <1>5, SendStep
<1>6. ASSUME Send(c, "chat", Nobody, TRUE, Nobody, client[c].access, NoToken) PROVE Inv'
  BY <1>1, <1>6, SendStep
<1>7. ASSUME Bypass(c) PROVE Inv'
  BY <1>1, <1>7, BypassStep
<1> QED
  BY <1>2, <1>3, <1>4, <1>5, <1>6, <1>7 DEF Request

\* A request that waits for the database, or is sent again, is the same request.
LEMMA WaitFacts ==
  ASSUME Inv, NEW c \in Clients, NEW pc \in {"sent", "retry"}, NEW status \in {0, 503},
         client[c].pc \in {"sent", "retry"},
         client' = [client EXCEPT ![c].pc = pc, ![c].status = status],
         UNCHANGED <<importVars, now, chats, ratings>>,
         aurora' \in {"up", "paused", "resuming"}
  PROVE  Inv'
<1>1. ClientInv(c)
  BY Shapes
<1>2. /\ OthersKept(c) /\ DOMAIN client'[c] = ClientFields
      /\ client'[c].pc = pc /\ client'[c].status = status /\ client'[c].n = client[c].n
      /\ client'[c].email = client[c].email /\ client'[c].access = client[c].access
      /\ client'[c].rate = client[c].rate /\ client'[c].req = client[c].req
      /\ client'[c].calm = client[c].calm
  BY <1>1, Shapes DEF OthersKept, ClientFields
<1>3. ShapeOk(c)'
  BY <1>1, <1>2 DEF ClientInv, ShapeOk, States
<1>4. AccessOk(c)' /\ RateOk(c)'
  BY <1>1, <1>2 DEF ClientInv, AccessOk, RateOk, Holder
<1>5. RequestOk(c)' /\ SeenOk(c)' /\ OnboardOk(c)'
  BY <1>1, <1>2 DEF ClientInv, RequestOk, SeenOk, OnboardOk, importVars
<1>6. AnswerOk(c)'
  BY <1>2 DEF AnswerOk, Answered
<1>7. ChatsInv'
  BY <1>1, <1>2, Shapes, ChatsKept DEF Inv
<1>8. ClientInv(c)'
  BY <1>3, <1>4, <1>5, <1>6 DEF ClientInv
<1> QED
  BY <1>2, <1>7, <1>8, DeviceStep

\* 503 while Aurora resumes.
LEMMA ResumingStep ==
  ASSUME Inv, NEW c \in Clients, client[c].pc = "sent", Resuming(c)
  PROVE  Inv'
BY WaitFacts DEF Resuming

\* The request that was answered 503 is sent again.
LEMMA RetryStep == ASSUME Inv, NEW c \in Clients, Retry(c) PROVE Inv'
BY WaitFacts DEF Retry, Inv

-----------------------------------------------------------------------------
(* login.                                                                  *)

\* login, up to the user's row and the password.
LEMMA FindUserStep == ASSUME Inv, NEW c \in Clients, FindUser(c) PROVE Inv'
<1> DEFINE r == client[c].req
<1>1. /\ client[c].pc = "sent" /\ r.what = "login" /\ ClientInv(c) /\ DbInv
      /\ r.email \in DOMAIN SeedUsers /\ ~r.old
  BY Shapes DEF FindUser, Inv, ClientInv, RequestOk
<1>2. CASE Resuming(c)
  BY <1>1, <1>2, ResumingStep
<1>3. CASE r.email \in DOMAIN db.users /\ r.right /\ ~Resuming(c)
  <2>1. /\ client' = [client EXCEPT ![c].pc = "login", ![c].seen = [id |-> db.users[r.email]]]
        /\ UNCHANGED <<importVars, now, aurora, chats, ratings>>
    BY <1>3 DEF FindUser
  <2>2. /\ OthersKept(c) /\ DOMAIN client'[c] = ClientFields
        /\ client'[c].pc = "login" /\ client'[c].status = client[c].status
        /\ client'[c].n = client[c].n /\ client'[c].email = client[c].email
        /\ client'[c].access = client[c].access /\ client'[c].rate = client[c].rate
        /\ client'[c].req = client[c].req /\ client'[c].calm = client[c].calm
        /\ client'[c].seen.id = db.users[r.email]
    BY <2>1, Shapes DEF OthersKept, ClientFields
  <2>3. ShapeOk(c)'
    BY <1>1, <2>2 DEF ClientInv, ShapeOk, States
  <2>4. AccessOk(c)' /\ RateOk(c)'
    BY <1>1, <2>1, <2>2 DEF ClientInv, AccessOk, RateOk, Holder
  <2>5. RequestOk(c)' /\ OnboardOk(c)'
    BY <1>1, <2>2 DEF RequestOk, OnboardOk
  <2>6. SeenOk(c)'
    <3>1. /\ db.users[r.email] \in DOMAIN db.players /\ seeds \in Nat
          /\ db.users[r.email][1] = seeds
          /\ db.users[r.email][2] = Normalize(SeedUsers[r.email])
      BY <1>1, <1>3 DEF DbInv
    <3> QED
      BY <1>1, <2>1, <2>2, <3>1 DEF ClientInv, SeenOk, importVars
  <2>7. AnswerOk(c)'
    BY <1>1, <2>2 DEF AnswerOk, Answered, ClientInv, ShapeOk
  <2>8. ChatsInv'
    BY <1>1, <2>1, <2>2, Shapes, ChatsKept DEF Inv
  <2>9. ClientInv(c)'
    BY <2>3, <2>4, <2>5, <2>6, <2>7 DEF ClientInv
  <2> QED
    BY <2>1, <2>2, <2>8, <2>9, DeviceStep DEF Inv
<1>4. CASE ~(r.email \in DOMAIN db.users /\ r.right) /\ ~Resuming(c)
  <2>1. Answer(c, 401) /\ UNCHANGED <<importVars, now, aurora, chats, ratings>>
    BY <1>4 DEF FindUser
  <2>2. ~(r.right /\ client[c].calm)
    BY <1>1, <1>4 DEF DbInv, ClientInv, SeenOk
  <2> QED
    BY <1>1, <2>1, <2>2, TurnedDown
<1> QED
  BY <1>2, <1>3, <1>4

\* login, the player's row and the token.
LEMMA FindPlayerStep == ASSUME Inv, NEW c \in Clients, FindPlayer(c) PROVE Inv'
<1> DEFINE r == client[c].req
           id == client[c].seen.id
<1>1. /\ client[c].pc = "login" /\ r.what = "login" /\ ClientInv(c) /\ DbInv
      /\ r.email \in DOMAIN SeedUsers /\ ~r.old
      /\ UNCHANGED <<importVars, now, aurora, chats, ratings>>
  BY Shapes DEF FindPlayer, Inv, ClientInv, RequestOk
<1>2. id[2] = Normalize(SeedUsers[r.email]) /\ id[1] \in Nat
  BY <1>1 DEF ClientInv, SeenOk, DbInv
<1>3. CASE id \in DOMAIN db.players
  <2> DEFINE token == CreateAccessToken(id)
  <2>1. client' = [client EXCEPT ![c].pc = "idle", ![c].status = 200,
                ![c].email = client[c].req.email, ![c].access = token,
                ![c].body = [id |-> id, row |-> db.players[id]], ![c].seen = Nobody]
    BY <1>3 DEF FindPlayer
  <2>2. token.aud = "none" /\ token.exp \in Nat /\ token.of = id
    BY AccountsAssumption DEF CreateAccessToken, Inv
  <2> HIDE DEF token
  <2>3. /\ OthersKept(c) /\ DOMAIN client'[c] = ClientFields
        /\ client'[c].pc = "idle" /\ client'[c].status = 200 /\ client'[c].n = client[c].n
        /\ client'[c].email = client[c].req.email
        /\ client'[c].access = token /\ client'[c].rate = client[c].rate
        /\ client'[c].req = client[c].req /\ client'[c].body.id = id
    BY <2>1, Shapes DEF OthersKept, ClientFields
  <2>4. ShapeOk(c)'
    BY <1>1, <2>3 DEF ClientInv, ShapeOk, States
  <2>5. AccessOk(c)'
    BY <1>2, <2>2, <2>3 DEF AccessOk, Holder
  <2>6. RateOk(c)'
    BY <1>1, <2>3 DEF ClientInv, RateOk
  <2>7. RequestOk(c)' /\ OnboardOk(c)' /\ SeenOk(c)'
    BY <2>3 DEF RequestOk, OnboardOk, SeenOk
  <2>8. AnswerOk(c)'
    BY <1>1, <1>2, <2>3 DEF AnswerOk, Answered, Holder
  <2>9. ChatsInv'
    BY <1>1, <2>3, Shapes, ChatsKept DEF Inv
  <2>10. ClientInv(c)'
    BY <2>4, <2>5, <2>6, <2>7, <2>8 DEF ClientInv
  <2> QED
    BY <1>1, <2>3, <2>9, <2>10, DeviceStep DEF Inv
<1>4. CASE id \notin DOMAIN db.players
  <2>1. Answer(c, 401)
    BY <1>4 DEF FindPlayer
  <2>2. ~client[c].calm
    BY <1>1, <1>4 DEF ClientInv, SeenOk
  <2> QED
    BY <1>1, <2>1, <2>2, TurnedDown
<1> QED
  BY <1>3, <1>4

-----------------------------------------------------------------------------
(* The routes behind get_current_player.                                   *)

\* The token that is accepted is the access token, and its player is of this
\* seed.
LEMMA Accepted ==
  ASSUME Inv, NEW c \in Clients, client[c].pc = "sent",
         DecodeAccessToken(client[c].req.bearer),
         client[c].req.bearer.of \in DOMAIN db.players
  PROVE  /\ client[c].req.bearer.of[2] = Holder(c)
         /\ client[c].req.bearer.of[1] = seeds /\ seeds \in Nat
         /\ ~client[c].req.old
<1>1. ClientInv(c) /\ DbInv
  BY DEF Inv
<1>2. client[c].req.bearer # NoToken /\ client[c].req.bearer.aud = "none"
  BY DEF DecodeAccessToken
<1>3. client[c].req.bearer = client[c].access
  BY <1>1, <1>2 DEF ClientInv, RequestOk, RateOk
<1>4. client[c].req.bearer.of[2] = Holder(c)
  BY <1>1, <1>2, <1>3 DEF ClientInv, AccessOk
<1>5. client[c].req.bearer.of[1] = seeds /\ seeds \in Nat
  BY <1>1 DEF DbInv
<1> QED
  BY <1>1, <1>4, <1>5 DEF ClientInv, RequestOk

\* onboard reads the player's row.
LEMMA OnboardStep ==
  ASSUME Inv, NEW c \in Clients, client[c].pc = "sent", client[c].req.what = "onboard",
         DecodeAccessToken(client[c].req.bearer),
         client[c].req.bearer.of \in DOMAIN db.players,
         Onboard(c, client[c].req.bearer.of), UNCHANGED <<importVars, now, aurora>>
  PROVE  Inv'
<1> DEFINE id == client[c].req.bearer.of
<1>1. ClientInv(c) /\ id[2] = Holder(c) /\ id[1] = seeds /\ seeds \in Nat /\ ~client[c].req.old
  BY Shapes, Accepted
<1>2. /\ OthersKept(c) /\ DOMAIN client'[c] = ClientFields
      /\ client'[c].pc = "commit" /\ client'[c].status = client[c].status
      /\ client'[c].n = client[c].n /\ client'[c].email = client[c].email
      /\ client'[c].access = client[c].access /\ client'[c].rate = client[c].rate
      /\ client'[c].req = client[c].req /\ client'[c].calm = client[c].calm
      /\ client'[c].seen.id = id /\ client'[c].seen.row = db.players[id]
      /\ UNCHANGED <<chats, ratings, db, seeds>>
  BY Shapes DEF Onboard, OthersKept, ClientFields, importVars
<1> HIDE DEF id
<1>3. ShapeOk(c)'
  BY <1>1, <1>2 DEF ClientInv, ShapeOk, States
<1>4. AccessOk(c)' /\ RateOk(c)'
  BY <1>1, <1>2 DEF ClientInv, AccessOk, RateOk, Holder
<1>5. RequestOk(c)' /\ OnboardOk(c)'
  BY <1>1, <1>2 DEF RequestOk, OnboardOk
<1>6. SeenOk(c)'
  <2>1. id \in DOMAIN db.players /\ (client[c].calm => db # Empty)
    BY <1>1 DEF id, ClientInv, SeenOk
  <2> QED
    BY <1>1, <1>2, <2>1 DEF SeenOk, Holder
<1>7. AnswerOk(c)'
  BY <1>1, <1>2 DEF AnswerOk, Answered, ClientInv, ShapeOk
<1>8. ChatsInv'
  BY <1>1, <1>2, Shapes, ChatsKept DEF Inv
<1>9. ClientInv(c)'
  BY <1>3, <1>4, <1>5, <1>6, <1>7 DEF ClientInv
<1> QED
  BY <1>2, <1>8, <1>9, DeviceStep DEF Inv

\* A chat's trace and its feedback token are the device's player's.
LEMMA ChatStep ==
  ASSUME Inv, NEW c \in Clients, client[c].pc = "sent", client[c].req.what = "chat",
         DecodeAccessToken(client[c].req.bearer),
         client[c].req.bearer.of \in DOMAIN db.players,
         Chat(c, client[c].req.bearer.of), UNCHANGED <<importVars, now, aurora>>
  PROVE  Inv'
<1> DEFINE id == client[c].req.bearer.of
           trace == <<c, client[c].n>>
           token == CreateFeedbackToken(trace, id)
<1>1. /\ ClientInv(c) /\ id[2] = Holder(c) /\ ~client[c].req.old /\ ChatsInv
      /\ client[c].n \in Nat /\ id[1] \in Nat
  BY Shapes, Accepted DEF Inv
<1>2. trace \notin DOMAIN chats
  BY <1>1 DEF ChatsInv
<1>3. /\ chats' = [t \in DOMAIN chats \cup {trace} |-> IF t = trace THEN id ELSE chats[t]]
      /\ client' = [client EXCEPT ![c].pc = "idle", ![c].status = 200, ![c].rate = token,
                      ![c].body = [id |-> id, row |-> db.players[id]]]
      /\ ratings' = ratings
  BY DEF Chat
<1>4. token.aud = "chat_feedback" /\ token.exp \in Nat /\ token.trace = trace /\ token.of = id
  BY AccountsAssumption DEF CreateFeedbackToken, Inv
<1>5. trace = <<trace[1], trace[2]>> /\ trace[1] = c /\ trace[2] = client[c].n
  OBVIOUS
<1> HIDE DEF token, id, trace
<1>6. /\ OthersKept(c) /\ DOMAIN client'[c] = ClientFields
      /\ client'[c].pc = "idle" /\ client'[c].status = 200
      /\ client'[c].n = client[c].n /\ client'[c].email = client[c].email
      /\ client'[c].access = client[c].access /\ client'[c].rate = token
      /\ client'[c].req = client[c].req /\ client'[c].calm = client[c].calm
      /\ client'[c].body.id = id
  BY <1>3, Shapes DEF OthersKept, ClientFields
<1>7. /\ trace \in DOMAIN chats' /\ chats'[trace] = id
      /\ \A t \in DOMAIN chats : t \in DOMAIN chats' /\ chats'[t] = chats[t]
      /\ DOMAIN chats' = DOMAIN chats \cup {trace}
  BY <1>2, <1>3
<1>8. ShapeOk(c)'
  BY <1>1, <1>6 DEF ClientInv, ShapeOk, States
<1>9. AccessOk(c)'
  BY <1>1, <1>6 DEF ClientInv, AccessOk, Holder
<1>10. RateOk(c)'
  BY <1>1, <1>4, <1>6, <1>7 DEF RateOk
<1>11. RequestOk(c)' /\ SeenOk(c)' /\ OnboardOk(c)'
  BY <1>6 DEF RequestOk, SeenOk, OnboardOk
<1>12. AnswerOk(c)'
  BY <1>1, <1>6 DEF AnswerOk, Answered, Holder
<1>13. ChatsInv'
  <2>1. ASSUME NEW t \in DOMAIN chats'
        PROVE  /\ t = <<t[1], t[2]>> /\ t[1] \in Clients /\ t[2] \in Nat
               /\ t[2] <= client'[t[1]].n
               /\ client'[t[1]].pc # "idle" => t[2] < client'[t[1]].n
    <3>1. CASE t = trace
      BY <1>1, <1>5, <1>6, <3>1
    <3>2. CASE t \in DOMAIN chats
      BY <1>1, <1>6, <3>2 DEF ChatsInv, OthersKept
    <3> QED
      BY <1>7, <3>1, <3>2
  <2>2. \A q \in ratings' : q[1] \in DOMAIN chats' /\ chats'[q[1]] = q[2]
    BY <1>1, <1>3, <1>7 DEF ChatsInv
  <2> QED
    BY <2>1, <2>2 DEF ChatsInv
<1>14. ClientInv(c)'
  BY <1>8, <1>9, <1>10, <1>11, <1>12 DEF ClientInv
<1> QED
  BY <1>6, <1>7, <1>13, <1>14, DeviceStep DEF Inv

\* A rating is stored only if its token's player is the one who sends it.
LEMMA FeedbackStep ==
  ASSUME Inv, NEW c \in Clients, client[c].pc = "sent", client[c].req.what = "feedback",
         DecodeAccessToken(client[c].req.bearer),
         client[c].req.bearer.of \in DOMAIN db.players,
         ChatFeedback(c, client[c].req.bearer.of), UNCHANGED <<importVars, now, aurora>>
  PROVE  Inv'
<1> DEFINE id == client[c].req.bearer.of
           t == client[c].req.rating
<1>1. ClientInv(c) /\ id[2] = Holder(c) /\ ~client[c].req.old /\ ChatsInv /\ chats' = chats
  BY Shapes, Accepted DEF Inv, ChatFeedback
<1>2. CASE ~DecodeFeedbackToken(t)
  <2>1. Answer(c, 400) /\ ratings' = ratings
    BY <1>2 DEF ChatFeedback
  <2> QED
    BY <1>1, <2>1, TurnedDown
<1>3. CASE DecodeFeedbackToken(t) /\ t.of # id
  <2>1. Answer(c, 403) /\ ratings' = ratings
    BY <1>3 DEF ChatFeedback
  <2> QED
    BY <1>1, <2>1, TurnedDown
<1>4. CASE DecodeFeedbackToken(t) /\ t.of = id
  <2>1. Show(c, id) /\ ratings' = ratings \cup {<<t.trace, id>>}
    BY <1>4 DEF ChatFeedback
  <2>2. t # NoToken /\ t.aud = "chat_feedback"
    BY <1>4 DEF DecodeFeedbackToken
  <2>3. t = client[c].rate
    BY <1>1, <2>2 DEF ClientInv, RequestOk, AccessOk
  <2>4. t.trace \in DOMAIN chats /\ chats[t.trace] = id
    BY <1>1, <1>4, <2>2, <2>3 DEF ClientInv, RateOk
  <2>5. \A r \in ratings' : r \in ratings \/ (r[1] \in DOMAIN chats /\ chats[r[1]] = r[2])
    <3> DEFINE rating == <<t.trace, id>>
    <3>1. rating[1] \in DOMAIN chats /\ chats[rating[1]] = rating[2]
      BY <2>4
    <3>2. ratings' = ratings \cup {rating}
      BY <2>1
    <3> HIDE DEF rating
    <3> QED
      BY <3>1, <3>2
  <2> QED
    BY <1>1, <2>1, <2>5, Shown
<1> QED
  BY <1>2, <1>3, <1>4

\* get_current_player, and what the route makes of the player.
LEMMA GetCurrentPlayerStep == ASSUME Inv, NEW c \in Clients, GetCurrentPlayer(c) PROVE Inv'
<1> DEFINE r == client[c].req
<1>1. client[c].pc = "sent" /\ r.what # "login"
  BY DEF GetCurrentPlayer
<1>2. CASE Answer(c, 401) /\ UNCHANGED <<importVars, now, aurora, chats, ratings>>
  BY <1>1, <1>2, TurnedDown
<1>3. CASE Resuming(c)
  BY <1>1, <1>3, ResumingStep
<1>4. CASE /\ DecodeAccessToken(r.bearer) /\ r.bearer.of \in DOMAIN db.players
           /\ UNCHANGED <<importVars, now, aurora>>
           /\ \/ r.what = "me" /\ GetMe(c, r.bearer.of)
              \/ r.what = "onboard" /\ Onboard(c, r.bearer.of)
              \/ r.what = "chat" /\ Chat(c, r.bearer.of)
              \/ r.what = "feedback" /\ ChatFeedback(c, r.bearer.of)
  <2>1. CASE r.what = "me" /\ GetMe(c, r.bearer.of)
    <3>1. r.bearer.of[2] = Holder(c) /\ ~r.old
      BY <1>1, <1>4, Accepted
    <3>2. Show(c, r.bearer.of) /\ UNCHANGED <<chats, ratings>>
      BY <2>1 DEF GetMe
    <3>3. /\ \A q \in ratings' : q \in ratings \/ (q[1] \in DOMAIN chats /\ chats[q[1]] = q[2])
          /\ ~(r.what = "onboard" /\ client[c].alone) /\ client[c].pc # "idle"
          /\ UNCHANGED <<importVars, now, aurora, chats>>
      BY <1>1, <1>4, <2>1, <3>2
    <3> QED
      BY <3>1, <3>2, <3>3, Shown
  <2>2. CASE r.what = "onboard" /\ Onboard(c, r.bearer.of)
    BY <1>1, <1>4, <2>2, OnboardStep
  <2>3. CASE r.what = "chat" /\ Chat(c, r.bearer.of)
    BY <1>1, <1>4, <2>3, ChatStep
  <2>4. CASE r.what = "feedback" /\ ChatFeedback(c, r.bearer.of)
    BY <1>1, <1>4, <2>4, FeedbackStep
  <2> QED
    BY <1>4, <2>1, <2>2, <2>3, <2>4
<1> QED
  BY <1>2, <1>3, <1>4 DEF GetCurrentPlayer, Unauthorized

-----------------------------------------------------------------------------
(* Onboarding.                                                             *)

\* Over the row it has read, the UPDATE gives what was sent.
LEMMA ChangedRow ==
  ASSUME NEW stored, IsRow(stored), NEW seen, NEW sent
  PROVE  /\ IsRow(Changed(stored, seen, sent))
         /\ stored = seen =>
              Changed(stored, seen, sent) =
                [jersey |-> sent.jersey, position |-> sent.position, onboarded |-> TRUE]
<1> DEFINE a == IF sent.jersey = seen.jersey THEN stored.jersey ELSE sent.jersey
           b == IF sent.position = seen.position THEN stored.position ELSE sent.position
<1>1. Changed(stored, seen, sent) = [jersey |-> a, position |-> b, onboarded |-> TRUE]
  <2>1. /\ stored = [jersey |-> stored.jersey, position |-> stored.position,
                     onboarded |-> stored.onboarded]
        /\ Changed(stored, seen, sent) =
             [stored EXCEPT !.jersey = a, !.position = b, !.onboarded = TRUE]
    BY DEF Changed, IsRow
  <2> HIDE DEF a, b
  <2>2. PICK j, p, o : stored = [jersey |-> j, position |-> p, onboarded |-> o]
    BY <2>1
  <2> QED
    BY <2>1, <2>2
<1>2. stored = seen => a = sent.jersey /\ b = sent.position
  OBVIOUS
<1> HIDE DEF a, b
<1> QED
  BY <1>1, <1>2 DEF IsRow

\* The UPDATE of an onboarding whose player is still there.
LEMMA Committed ==
  ASSUME Inv, NEW c \in Clients, OnboardCommit(c),
         client[c].seen.id \in DOMAIN db.players
  PROVE  Inv'
<1> DEFINE id == client[c].seen.id
           row == Changed(db.players[id], client[c].seen.row, client[c].req.profile)
<1>1. /\ client[c].pc = "commit" /\ ClientInv(c) /\ DbInv /\ ChatsInv
      /\ UNCHANGED <<seed, seeds, now, aurora, chats, ratings>>
  BY DEF OnboardCommit, Inv
<1>2. /\ DOMAIN db'.players = DOMAIN db.players /\ DOMAIN db' = DOMAIN db
      /\ db'.players[id] = row
      /\ \A i \in DOMAIN db.players \ {id} : db'.players[i] = db.players[i]
      /\ db'.users = db.users /\ db'.games = db.games /\ db'.lines = db.lines
  BY <1>1 DEF OnboardCommit, DbInv
<1>3. /\ IsRow(row)
      /\ db.players[id] = client[c].seen.row => row = Wanted(c)
  <2>1. IsRow(db.players[id])
    BY <1>1 DEF DbInv
  <2> QED
    BY <2>1, ChangedRow DEF Wanted
<1>4. /\ DOMAIN client' = Clients /\ DOMAIN client'[c] = ClientFields
      /\ client'[c].pc = "refresh" /\ client'[c].seen = client[c].seen
      /\ client'[c].n = client[c].n /\ client'[c].email = client[c].email
      /\ client'[c].access = client[c].access /\ client'[c].rate = client[c].rate
      /\ client'[c].req = client[c].req /\ client'[c].calm = client[c].calm
      /\ client'[c].status = client[c].status /\ client'[c].alone = client[c].alone
  BY Shapes DEF OnboardCommit, ClientFields
<1>5. ASSUME NEW d \in Clients \ {c}
      PROVE  /\ DOMAIN client'[d] = ClientFields
             /\ client'[d].pc = client[d].pc /\ client'[d].seen = client[d].seen
             /\ client'[d].n = client[d].n /\ client'[d].email = client[d].email
             /\ client'[d].access = client[d].access /\ client'[d].rate = client[d].rate
             /\ client'[d].req = client[d].req /\ client'[d].calm = client[d].calm
             /\ client'[d].status = client[d].status /\ client'[d].body = client[d].body
             /\ client[d].pc \in {"commit", "refresh"} =>
                  IF client[d].seen.id = id THEN ~client'[d].alone
                                            ELSE client'[d].alone = client[d].alone
             /\ client[d].pc \notin {"commit", "refresh"} => client'[d].alone = client[d].alone
  <2>1. client'[d] = IF client[d].pc \in {"commit", "refresh"} /\ client[d].seen.id = id
                     THEN [client[d] EXCEPT !.alone = FALSE] ELSE client[d]
    BY DEF OnboardCommit
  <2>2. DOMAIN client[d] = ClientFields
    BY Shapes
  <2> QED
    BY <2>1, <2>2 DEF ClientFields
<1>6. db # Empty /\ db' # Empty
  BY <1>2 DEF Empty, NoRows
<1> HIDE DEF id, row
<1>7. DbInv'
  BY <1>1, <1>2, <1>3, <1>6 DEF DbInv
<1>8. ClientInv(c)'
  <2>1. ShapeOk(c)'
    BY <1>1, <1>4 DEF ClientInv, ShapeOk, States
  <2>2. AccessOk(c)' /\ RateOk(c)'
    BY <1>1, <1>4 DEF ClientInv, AccessOk, RateOk, Holder
  <2>3. RequestOk(c)'
    BY <1>1, <1>4 DEF ClientInv, RequestOk
  <2>4. SeenOk(c)'
    BY <1>1, <1>2, <1>4, <1>6 DEF ClientInv, SeenOk, Holder
  <2>5. OnboardOk(c)'
    BY <1>1, <1>2, <1>3, <1>4 DEF id, ClientInv, OnboardOk, Wanted
  <2>6. AnswerOk(c)'
    BY <1>1, <1>4 DEF ClientInv, ShapeOk, AnswerOk, Answered
  <2> QED
    BY <2>1, <2>2, <2>3, <2>4, <2>5, <2>6 DEF ClientInv
<1>9. ASSUME NEW d \in Clients \ {c} PROVE ClientInv(d)'
  <2>0. ClientInv(d)
    BY Shapes
  <2>1. ShapeOk(d)'
    BY <1>5, <2>0 DEF ClientInv, ShapeOk, States
  <2>2. AccessOk(d)' /\ RateOk(d)'
    BY <1>1, <1>5, <2>0 DEF ClientInv, AccessOk, RateOk, Holder
  <2>3. RequestOk(d)'
    BY <1>1, <1>5, <2>0 DEF ClientInv, RequestOk
  <2>4. SeenOk(d)'
    BY <1>1, <1>2, <1>5, <1>6, <2>0 DEF ClientInv, SeenOk, Holder
  <2>5. OnboardOk(d)'
    <3> SUFFICES ASSUME client[d].pc \in {"commit", "refresh"}, client'[d].alone,
                        client[d].seen.id \in DOMAIN db.players
                 PROVE  /\ client[d].pc = "commit" =>
                             db'.players[client[d].seen.id] = client[d].seen.row
                        /\ client[d].pc = "refresh" =>
                             db'.players[client[d].seen.id] = Wanted(d)'
      BY <1>2, <1>5 DEF OnboardOk
    <3>1. client[d].seen.id # id /\ client'[d].alone = client[d].alone
      BY <1>5
    <3>2. db'.players[client[d].seen.id] = db.players[client[d].seen.id] /\ client[d].alone
      BY <1>2, <3>1
    <3> QED
      BY <1>5, <2>0, <3>2 DEF ClientInv, OnboardOk, Wanted
  <2>6. AnswerOk(d)'
    <3>1. CASE client[d].pc = "idle"
      <4>1. client'[d].alone = client[d].alone
        BY <1>5, <3>1
      <4>2. Wanted(d)' = Wanted(d) /\ Holder(d)' = Holder(d) /\ (Answered(d)' <=> Answered(d))
        BY <1>5 DEF Wanted, Holder, Answered
      <4>3. /\ client'[d].status = client[d].status /\ client'[d].body = client[d].body
            /\ client'[d].req = client[d].req /\ client'[d].calm = client[d].calm
        BY <1>5
      <4>4. AnswerOk(d)
        BY <2>0 DEF ClientInv
      <4> QED
        BY <4>1, <4>2, <4>3, <4>4 DEF AnswerOk
    <3>2. CASE client[d].pc # "idle"
      <4>1. client'[d].pc # "idle" /\ client'[d].status \notin {200, 500}
        BY <1>5, <2>0, <3>2 DEF ClientInv, ShapeOk
      <4> QED
        BY <4>1 DEF AnswerOk, Answered
    <3> QED
      BY <3>1, <3>2
  <2> QED
    BY <2>1, <2>2, <2>3, <2>4, <2>5, <2>6 DEF ClientInv
<1>10. ChatsInv'
  BY <1>1, <1>4, <1>5 DEF ChatsInv
<1>11. \A d \in Clients : ClientInv(d)'
  BY <1>8, <1>9
<1> QED
  BY <1>1, <1>4, <1>7, <1>10, <1>11 DEF Inv

\* onboard commits, or finds its player wiped.
LEMMA OnboardCommitStep == ASSUME Inv, NEW c \in Clients, OnboardCommit(c) PROVE Inv'
<1>1. CASE client[c].seen.id \in DOMAIN db.players
  BY <1>1, Committed
<1>2. CASE client[c].seen.id \notin DOMAIN db.players
  <2>1. /\ client[c].pc = "commit" /\ Answer(c, 500)
        /\ UNCHANGED <<importVars, now, aurora, chats, ratings>>
    BY <1>2 DEF OnboardCommit, importVars
  <2>2. client[c].req.what = "onboard" /\ ~client[c].req.old /\ ~client[c].calm
    BY <1>2, <2>1, Shapes DEF ClientInv, RequestOk, SeenOk
  <2> QED
    BY <2>1, <2>2, TurnedDown
<1> QED
  BY <1>1, <1>2

\* onboard reads the row again for its answer.
LEMMA OnboardRefreshStep == ASSUME Inv, NEW c \in Clients, OnboardRefresh(c) PROVE Inv'
<1> DEFINE id == client[c].seen.id
<1>1. /\ client[c].pc = "refresh" /\ UNCHANGED <<importVars, now, aurora, chats, ratings>>
      /\ client[c].req.what = "onboard" /\ ~client[c].req.old /\ id[2] = Holder(c)
  BY Shapes DEF OnboardRefresh, ClientInv, RequestOk, SeenOk
<1>2. CASE id \in DOMAIN db.players
  <2>1. Show(c, id) /\ (client[c].alone => db.players[id] = Wanted(c))
    BY <1>1, <1>2, Shapes DEF OnboardRefresh, ClientInv, OnboardOk
  <2>2. /\ client[c].pc # "idle"
        /\ UNCHANGED <<importVars, now, aurora, chats>>
        /\ \A r \in ratings' : r \in ratings \/ (r[1] \in DOMAIN chats /\ chats[r[1]] = r[2])
    BY <1>1
  <2> QED
    BY <1>1, <2>1, <2>2, Shown
<1>3. CASE id \notin DOMAIN db.players
  <2>1. Answer(c, 500) /\ ~client[c].calm
    BY <1>1, <1>3, Shapes DEF OnboardRefresh, ClientInv, SeenOk
  <2> QED
    BY <1>1, <2>1, TurnedDown
<1> QED
  BY <1>2, <1>3

-----------------------------------------------------------------------------
(* Around the requests.                                                    *)

\* The wipe: what was read before it is of an earlier run, and no request under
\* way is calm.
LEMMA WipeStep ==
  ASSUME Inv, SeedWipe,
         client' = [c \in Clients |-> [client[c] EXCEPT !.calm = @ /\ client[c].pc = "idle"]],
         UNCHANGED <<now, aurora, chats, ratings>>
  PROVE  Inv'
<1>1. /\ seeds \in 0 .. MaxSeeds /\ seeds' = seeds + 1 /\ seeds' \in 0 .. MaxSeeds
      /\ db' = Empty /\ seed' = "wiped"
  BY SeasonImportAssumption DEF SeedWipe, Inv, DbInv
<1>2. /\ DOMAIN Empty = {"players", "users", "games", "lines"}
      /\ DOMAIN Empty.players = {} /\ DOMAIN Empty.users = {} /\ DOMAIN Empty.lines = {}
  BY DEF Empty, NoRows
<1>3. DbInv'
  BY <1>1, <1>2 DEF DbInv
<1>4. ASSUME NEW c \in Clients
      PROVE  /\ DOMAIN client'[c] = ClientFields
             /\ client'[c].pc = client[c].pc /\ client'[c].seen = client[c].seen
             /\ client'[c].n = client[c].n /\ client'[c].email = client[c].email
             /\ client'[c].access = client[c].access /\ client'[c].rate = client[c].rate
             /\ client'[c].req = client[c].req /\ client'[c].status = client[c].status
             /\ client'[c].body = client[c].body /\ client'[c].alone = client[c].alone
             /\ client[c].pc # "idle" => ~client'[c].calm
             /\ client'[c].calm => client[c].calm
  BY Shapes DEF ClientFields
<1>5. DOMAIN client' = Clients
  OBVIOUS
<1>6. ASSUME NEW c \in Clients PROVE ClientInv(c)'
  <2>0. ClientInv(c)
    BY Shapes
  <2>1. ShapeOk(c)'
    BY <1>4, <2>0 DEF ClientInv, ShapeOk
  <2>2. AccessOk(c)' /\ RateOk(c)'
    BY <1>4, <2>0 DEF ClientInv, AccessOk, RateOk, Holder
  <2>3. RequestOk(c)'
    <3>1. client[c].req.bearer # NoToken /\ client[c].pc \in {"sent", "retry"} =>
            client[c].req.bearer.of[1] \in Nat
      BY <2>0 DEF ClientInv, RequestOk, AccessOk, RateOk
    <3> QED
      BY <1>1, <1>4, <2>0, <3>1 DEF ClientInv, RequestOk
  <2>4. SeenOk(c)'
    BY <1>1, <1>4, <2>0 DEF ClientInv, SeenOk, Holder
  <2>5. OnboardOk(c)'
    BY <1>1, <1>2 DEF OnboardOk
  <2>6. AnswerOk(c)'
    <3>1. Wanted(c)' = Wanted(c) /\ Holder(c)' = Holder(c) /\ (Answered(c)' <=> Answered(c))
      BY <1>4 DEF Wanted, Holder, Answered
    <3>2. AnswerOk(c)
      BY <2>0 DEF ClientInv
    <3> QED
      BY <1>4, <3>1, <3>2 DEF AnswerOk
  <2> QED
    BY <2>1, <2>2, <2>3, <2>4, <2>5, <2>6 DEF ClientInv
<1>7. ChatsInv'
  BY <1>4 DEF Inv, ChatsInv
<1> QED
  BY <1>3, <1>5, <1>6, <1>7 DEF Inv

\* The load: the database was empty, so nothing that was read is of this run.
LEMMA LoadStep == ASSUME Inv, SeedLoad, UNCHANGED accountVars PROVE Inv'
<1>1. seed = "wiped" /\ db = Empty /\ UNCHANGED <<seeds, client, chats, ratings, now, aurora>>
  BY DEF SeedLoad, Inv, DbInv, accountVars
<1>2. DbInv'
  BY SeedLoadDb DEF Inv
<1>3. DOMAIN db.players = {}
  BY <1>1 DEF Empty, NoRows
<1>4. ASSUME NEW c \in Clients PROVE ClientInv(c)'
  <2>0. ClientInv(c)
    BY Shapes
  <2>1. ShapeOk(c)' /\ AccessOk(c)' /\ RateOk(c)' /\ RequestOk(c)' /\ AnswerOk(c)'
    BY <1>1, <2>0 DEF ClientInv, ShapeOk, AccessOk, RateOk, RequestOk, AnswerOk, Holder,
                      Wanted, Answered
  <2>2. /\ client[c].pc \in {"login", "commit", "refresh"} => client[c].seen.id[1] # seeds
        /\ client[c].pc # "idle" => ~client[c].calm
    BY <1>1, <1>3, <2>0 DEF ClientInv, SeenOk
  <2>3. SeenOk(c)'
    BY <1>1, <2>0, <2>2 DEF ClientInv, SeenOk, Holder
  <2>4. OnboardOk(c)'
    BY <1>1, <1>2, <2>2 DEF OnboardOk, DbInv
  <2> QED
    BY <2>1, <2>3, <2>4 DEF ClientInv
<1>5. ChatsInv'
  BY <1>1 DEF Inv, ChatsInv
<1> QED
  BY <1>1, <1>2, <1>4, <1>5 DEF Inv

\* What leaves the devices and the database alone.
LEMMA Around ==
  ASSUME Inv, UNCHANGED <<db, seeds, client, chats, ratings>>, DbInv',
         aurora' \in {"up", "paused", "resuming"}, now' \in 0 .. MaxNow
  PROVE  Inv'
<1>1. \A c \in Clients : ClientInv(c)'
  BY DeviceKept DEF Inv
<1>2. ChatsInv'
  BY DEF Inv, ChatsInv
<1> QED
  BY <1>1, <1>2 DEF Inv

\* Every step of a seed.
LEMMA ImportStep == ASSUME Inv, Import PROVE Inv'
<1>1. CASE SeedLoad /\ UNCHANGED accountVars
  BY <1>1, LoadStep
<1>2. CASE SeedExits /\ UNCHANGED accountVars
  <2>1. DbInv'
    BY <1>2 DEF SeedExits, Inv, DbInv, IsRow
  <2> QED
    BY <1>2, <2>1, Around DEF SeedExits, accountVars, Inv
<1>3. CASE /\ SeedWipe
           /\ client' = [c \in Clients |->
                           [client[c] EXCEPT !.calm = @ /\ client[c].pc = "idle"]]
           /\ UNCHANGED <<now, aurora, chats, ratings>>
  BY <1>3, WipeStep
<1> QED
  BY <1>1, <1>2, <1>3 DEF Import

\* Aurora's pauses and the passing of days change no row.
LEMMA QuietStep ==
  ASSUME Inv, Pause \/ Resumed \/ Tick \/ UNCHANGED vars
  PROVE  Inv'
<1>1. /\ UNCHANGED <<importVars, client, chats, ratings>>
      /\ aurora' \in {"up", "paused", "resuming"} /\ now' \in 0 .. MaxNow
  BY AccountsAssumption DEF Inv, Pause, Resumed, Tick, vars, accountVars
<1>2. DbInv'
  BY <1>1, DbKept DEF Inv
<1> QED
  BY <1>1, <1>2, Around DEF importVars

-----------------------------------------------------------------------------
\* Nothing is loaded and nobody has logged in.
LEMMA InitInv == Init => Inv
<1> SUFFICES ASSUME Init PROVE Inv
  OBVIOUS
<1>1. /\ DOMAIN Empty = {"players", "users", "games", "lines"}
      /\ DOMAIN Empty.players = {} /\ DOMAIN Empty.users = {} /\ DOMAIN Empty.lines = {}
  BY DEF Empty, NoRows
<1>2. DbInv
  BY <1>1, SeasonImportAssumption DEF Init, ImportInit, DbInv
<1>3. ASSUME NEW c \in Clients PROVE ClientInv(c)
  <2>1. client[c] = Idle
    BY DEF Init
  <2>2. ShapeOk(c)
    BY <2>1 DEF ShapeOk, Idle, ClientFields, States
  <2>3. AccessOk(c) /\ RateOk(c) /\ RequestOk(c) /\ SeenOk(c) /\ OnboardOk(c) /\ AnswerOk(c)
    BY <2>1 DEF AccessOk, RateOk, RequestOk, SeenOk, OnboardOk, AnswerOk, Answered, Idle
  <2> QED
    BY <2>2, <2>3 DEF ClientInv
<1>4. ChatsInv
  BY DEF Init, ChatsInv, NoRows
<1> QED
  BY <1>2, <1>3, <1>4, AccountsAssumption DEF Init, Inv

\* Every state has a sound database, chats of their own traces, and devices whose
\* tokens, request and answer belong together.
THEOREM Invariance == Spec => []Inv
<1>1. Inv /\ [Next]_vars => Inv'
  <2> SUFFICES ASSUME Inv, [Next]_vars PROVE Inv'
    OBVIOUS
  <2>1. ASSUME NEW c \in Clients,
               \/ Request(c) \/ Retry(c)
               \/ FindUser(c) \/ FindPlayer(c) \/ GetCurrentPlayer(c)
               \/ OnboardCommit(c) \/ OnboardRefresh(c)
        PROVE  Inv'
    BY <2>1, RequestStep, RetryStep, FindUserStep, FindPlayerStep, GetCurrentPlayerStep,
       OnboardCommitStep, OnboardRefreshStep
  <2> QED
    BY <2>1, ImportStep, QuietStep DEF Next
<1> QED
  BY <1>1, InitInv, PTL DEF Spec

\* Every state has its type; the ids in the database are those of the last seed.
THEOREM TypeCorrect == Spec => []TypeOK
<1>1. Inv => TypeOK
  <2> SUFFICES ASSUME Inv PROVE TypeOK
    OBVIOUS
  <2>1. \A id \in Ids : id[1] = seeds /\ id \in DOMAIN db.players
    BY DEF Inv, DbInv, Ids
  <2>2. \A t \in Tokens \ {NoToken} : t.exp \in Nat
    BY DEF Inv, ClientInv, AccessOk, RateOk, Tokens
  <2>3. \A c \in Clients :
          /\ client[c].pc \in {"idle", "sent", "retry", "login", "commit", "refresh"}
          /\ client[c].status \in {0, 200, 400, 401, 403, 500, 503}
    BY DEF Inv, ClientInv, ShapeOk, States
  <2> QED
    BY <2>1, <2>2, <2>3 DEF Inv, DbInv, TypeOK
<1> QED
  BY <1>1, Invariance, PTL

\* Nobody acts or rates for anybody else, whoever shares the device.
THEOREM NobodyActsForOthers == Spec => []OwnPlayer
<1>1. Inv => OwnPlayer
  BY DEF Inv, ClientInv, AnswerOk, ChatsInv, OwnPlayer, ActsOnHolder, FeedbackBinds
<1> QED
  BY <1>1, Invariance, PTL

\* A device whose player is gone is sent to its login, and the right password
\* works as soon as there are users.
THEOREM LoginAlwaysHeals == Spec => []LoginHeals
<1>1. Inv => LoginHeals
  BY DEF Inv, ClientInv, AnswerOk, LoginHeals, OldTokens401, LoginWorks
<1> QED
  BY <1>1, Invariance, PTL

\* No request fails with 500 unless a seed wiped the database under it.
THEOREM ServerErrorsAreWipes == Spec => []ServerErrorsAreReal
<1>1. Inv => ServerErrorsAreReal
  BY DEF Inv, ClientInv, AnswerOk, ServerErrorsAreReal
<1> QED
  BY <1>1, Invariance, PTL

\* An onboarding nobody else's came between is answered what was sent.
THEOREM OnboardingKept == Spec => []OnboardKept
<1>1. Inv => OnboardKept
  BY DEF Inv, ClientInv, AnswerOk, OnboardKept, Wanted
<1> QED
  BY <1>1, Invariance, PTL

\* The season of the invariant: that of a site, whole but for the last game, under
\* ids whose names tell the players apart.
SeasonInv == site \in Sites /\ SeasonTrue /\ OnlyLastCut /\ NamesInv

\* What is no seed changes at most rows of players.
LEMMA SeasonKept ==
  ASSUME SeasonInv, site' = site, db'.games = db.games, db'.lines = db.lines,
         DOMAIN db'.players = DOMAIN db.players
  PROVE  SeasonInv'
<1>1. SeasonTrue'
  BY DEF SeasonInv, SeasonTrue
<1>2. OnlyLastCut'
  BY DEF SeasonInv, OnlyLastCut
<1>3. NamesInv'
  BY DEF SeasonInv, NamesInv
<1> QED
  BY <1>1, <1>2, <1>3 DEF SeasonInv

\* Every step leaves a season of the site or none.
LEMMA SeasonStep == ASSUME Inv, SeasonInv, [Next]_vars PROVE SeasonInv'
<1>1. CASE SeedLoad
  <2>1. Publishable(site) /\ site' = site
    BY <1>1, SeasonImportAssumption DEF SeasonInv, SeedLoad
  <2> QED
    BY <1>1, <2>1, LoadTrue, LoadWhole, LoadNames DEF SeasonInv
<1>2. CASE SeedWipe
  <2>1. site' = site /\ db' = Empty
    BY <1>2 DEF SeedWipe
  <2>2. DOMAIN db'.games = {} /\ DOMAIN db'.lines = {} /\ DOMAIN db'.players = {}
    BY <2>1 DEF Empty, NoRows
  <2> QED
    BY <2>1, <2>2 DEF SeasonInv, SeasonTrue, OnlyLastCut, NamesInv
<1>3. CASE site' = site /\ db' = db
  BY <1>3, SeasonKept
<1>4. ASSUME NEW c \in Clients, OnboardCommit(c) PROVE SeasonInv'
  <2>1. site' = site
    BY <1>4 DEF OnboardCommit
  <2>2. /\ db'.games = db.games /\ db'.lines = db.lines
        /\ DOMAIN db'.players = DOMAIN db.players
    <3>1. \/ db' = db
          \/ \E row : db' = [db EXCEPT !.players[client[c].seen.id] = row]
      BY <1>4 DEF OnboardCommit
    <3>2. DOMAIN db = {"players", "users", "games", "lines"}
      BY DEF Inv, DbInv
    <3> QED
      BY <3>1, <3>2
  <2> QED
    BY <2>1, <2>2, SeasonKept
<1>5. ASSUME NEW c \in Clients,
             \/ Request(c) \/ Retry(c)
             \/ FindUser(c) \/ FindPlayer(c) \/ GetCurrentPlayer(c) \/ OnboardRefresh(c)
      PROVE  site' = site /\ db' = db
  BY <1>5 DEF Request, Retry, FindUser, FindPlayer, GetCurrentPlayer, OnboardRefresh,
              Resuming, importVars
<1>6. CASE SeedExits \/ Pause \/ Resumed \/ Tick \/ UNCHANGED vars
  BY <1>3, <1>6 DEF SeedExits, Pause, Resumed, Tick, vars, importVars
<1> QED
  BY <1>1, <1>2, <1>3, <1>4, <1>5, <1>6 DEF Next, Import

\* What is in the database is nothing, or what the site published of some of its
\* matches, with everybody of SEED_USERS among its players: every loaded game with
\* the right score and side, a match that misspells the team left out, and all of
\* the team's players in every loaded game but the last, which a file that was cut
\* may leave with part of them. For whichever pages could be fetched, wherever the
\* file was cut, whichever seed failed.
THEOREM SeasonsAreHonest == Spec => []SeasonHonest
<1>1. Init => SeasonInv
  <2> SUFFICES ASSUME Init PROVE SeasonInv
    OBVIOUS
  <2>1. site \in Sites /\ db = Empty
    BY DEF Init, ImportInit
  <2>2. DOMAIN db.games = {} /\ DOMAIN db.lines = {} /\ DOMAIN db.players = {}
    BY <2>1 DEF Empty, NoRows
  <2> QED
    BY <2>1, <2>2 DEF SeasonInv, SeasonTrue, OnlyLastCut, NamesInv
<1>2. Inv /\ SeasonInv /\ [Next]_vars => SeasonInv'
  BY SeasonStep
<1>3. Spec => []SeasonInv
  BY <1>1, <1>2, Invariance, PTL DEF Spec
<1>4. Inv /\ SeasonInv => SeasonHonest
  <2> SUFFICES ASSUME Inv, SeasonInv PROVE SeasonHonest
    OBVIOUS
  <2>1. DbInv
    BY DEF Inv
  <2>2. ASSUME NEW p \in DOMAIN db.players, NEW q \in DOMAIN db.players,
               p[2].name = q[2].name
        PROVE  p = q
    <3>1. p[1] = q[1]
      BY <2>1 DEF DbInv
    <3>2. /\ p = <<p[1], [name |-> p[2].name, loose |-> FALSE, nfd |-> FALSE]>>
          /\ q = <<q[1], [name |-> q[2].name, loose |-> FALSE, nfd |-> FALSE]>>
      BY DEF SeasonInv, NamesInv
    <3> QED
      BY <2>2, <3>1, <3>2
  <2>3. AllOrNothing
    BY <2>1, <2>2 DEF DbInv, AllOrNothing
  <2> QED
    BY <2>3 DEF SeasonInv, SeasonHonest
<1> QED
  BY <1>3, <1>4, Invariance, PTL
=============================================================================
