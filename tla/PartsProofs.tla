------------------------------ MODULE PartsProofs ------------------------------
(***************************************************************************)
(* Proofs about the smaller parts of Parts.                                *)
(***************************************************************************)
EXTENDS Parts, FiniteSetTheorems, SequenceTheorems, WellFoundedInduction, TLAPS

(***************************************************************************)
(* Pages.                                                                  *)
(***************************************************************************)

Whats == {"load", "write"} \cup Page!Logins
Requests == [what : Whats, week : {1, 2}, reply : Nat, ok : BOOLEAN]
Kind(what) == IF what \in Page!Logins THEN "login" ELSE what

PageTypes ==
  /\ site \in {"status", "scores", "phorum", "mystatus", "barbershop", "yp"}
  /\ data \in Nat /\ data > 0
  /\ board \in Nat /\ board <= data /\ serving \in BOOLEAN
  /\ session \in BOOLEAN /\ user \in BOOLEAN /\ clear \in BOOLEAN
  /\ ajax \in Seq(Requests)
  /\ monday \in {1, 2} /\ (site \notin {"barbershop", "yp"} => monday = 1)
  /\ fades \in Seq({1, 2}) /\ (site # "yp" => fades = << >>)
  /\ view \in [week : {1, 2}, data : Nat]
  /\ mine \in Nat /\ mine <= data /\ (site = "scores" => mine = 0)
  /\ \A i \in DOMAIN ajax : ajax[i].reply <= data

\* No two requests of a kind.
One(rs) == \A i, j \in DOMAIN rs : Kind(rs[i].what) = Kind(rs[j].what) => i = j

\* What is loaded is for the week that is shown, and not older than the user's change.
Loads(rs, s, week, change) ==
  \A i \in DOMAIN rs :
    /\ rs[i].what = "load" \/ s = "yp" => rs[i].week = week
    /\ rs[i].what = "load" /\ rs[i].reply # 0 => rs[i].reply >= change

\* What the answer to a login or a logout will tell is so, and without one under way
\* both agree on who is logged in.  LeetPhorum may know more than its page.
Agreed(rs, s, here, known) ==
  /\ s = "phorum" =>
       /\ \A i \in DOMAIN rs : rs[i].what = "login" /\ rs[i].ok => here
       /\ (\A i \in DOMAIN rs : rs[i].what = "logout" => ~rs[i].ok) => (known => here)
  /\ s # "phorum" =>
       /\ \A i \in DOMAIN rs : rs[i].what \in Page!Logins =>
            ~known /\ (here <=> rs[i].reply # 0 /\ rs[i].ok)
       /\ (\A i \in DOMAIN rs : rs[i].what \notin Page!Logins) => (known <=> here)

\* Without a load under way the page shows what it should.
Loading(rs) == \E i \in DOMAIN rs : rs[i].what = "load"
Shown(rs, s, known, week, v, change) ==
  /\ (s = "yp" \/ ~Loading(rs)) /\ v.data > 0 => v.week = week
  /\ ~Loading(rs) /\ s # "yp" /\ ~(s = "mystatus" /\ ~known) => v.data > 0 /\ v.data >= change

\* What a page that is clear keeps.
Good(rs, s, here, known, week, v, change) ==
  /\ One(rs) /\ Loads(rs, s, week, change) /\ Agreed(rs, s, here, known)
  /\ Shown(rs, s, known, week, v, change)

PageInv ==
  /\ PageTypes
  /\ clear => /\ Good(ajax, site, session, user, monday, view, mine)
              /\ fades # << >> => ajax = << >> /\ view.data = 0
-----------------------------------------------------------------------------
\* One more request.
Query(what, week) == [what |-> what, week |-> week, reply |-> 0, ok |-> FALSE]

Longer(r, rs, q) ==
  /\ \A j \in DOMAIN r : \/ j \in DOMAIN rs /\ r[j] = rs[j]
                         \/ j = Len(rs) + 1 /\ r[j] = q
  /\ \A j \in DOMAIN rs : j \in DOMAIN r
  /\ Len(rs) + 1 \in DOMAIN r /\ Len(rs) + 1 \notin DOMAIN rs
  /\ r[Len(rs) + 1] = q

LEMMA OneMore ==
  ASSUME NEW rs \in Seq(Requests), NEW what \in Whats, NEW week \in {1, 2},
         NEW r, r = Page!Sent(rs, what, week)
  PROVE  r \in Seq(Requests) /\ Longer(r, rs, Query(what, week))
<1>1. PICK q \in Requests : q = Query(what, week)
  BY DEF Requests, Query
<1>2. r = Append(rs, q)
  BY <1>1 DEF Page!Sent, Page!Unread, Query
<1>3. /\ r \in Seq(Requests) /\ Len(rs) \in Nat
      /\ DOMAIN rs = 1 .. Len(rs) /\ DOMAIN r = 1 .. Len(rs) + 1
      /\ \A j \in 1 .. Len(rs) : r[j] = rs[j]
      /\ r[Len(rs) + 1] = q
  BY <1>2, AppendProperties
<1> QED BY <1>1, <1>3 DEF Longer

\* Two sequences, one after the other.
LEMMA Joined ==
  ASSUME NEW S, NEW s \in Seq(S), NEW t \in Seq(S)
  PROVE  /\ s \o t \in Seq(S) /\ Len(s \o t) = Len(s) + Len(t)
         /\ \A j \in 1 .. Len(s) : (s \o t)[j] = s[j]
         /\ \A j \in Len(s) + 1 .. Len(s) + Len(t) : (s \o t)[j] = t[j - Len(s)]
BY ConcatProperties

\* One request less.
LEMMA OneLess ==
  ASSUME ajax \in Seq(Requests), NEW i \in DOMAIN ajax, NEW w, w = Page!Without(i)
  PROVE  /\ w \in Seq(Requests)
         /\ \A j \in DOMAIN w : \E k \in DOMAIN ajax : k # i /\ w[j] = ajax[k]
         /\ \A k \in DOMAIN ajax : k # i => \E j \in DOMAIN w : w[j] = ajax[k]
         /\ One(ajax) => One(w)
<1>1. PICK n \in Nat : n = Len(ajax) /\ DOMAIN ajax = 1 .. n
  OBVIOUS
<1>2. i \in Int /\ 1 <= i /\ i <= n
  BY <1>1
<1>3. PICK s : s = SubSeq(ajax, 1, i - 1)
  OBVIOUS
<1>4. PICK t : t = SubSeq(ajax, i + 1, n)
  OBVIOUS
<1>5. /\ s \in Seq(Requests) /\ Len(s) = i - 1
      /\ \A j \in 1 .. i - 1 : s[j] = ajax[j]
  <2>1. \A j \in 1 .. i - 1 : j \in DOMAIN ajax /\ ajax[j] \in Requests
    BY <1>1, <1>2
  <2>2. /\ SubSeq(ajax, 1, i - 1) \in Seq(Requests)
        /\ Len(SubSeq(ajax, 1, i - 1)) = (IF 1 <= i - 1 THEN (i - 1) - 1 + 1 ELSE 0)
        /\ \A j \in 1 .. (i - 1) - 1 + 1 : SubSeq(ajax, 1, i - 1)[j] = ajax[1 + j - 1]
    BY <1>2, <2>1
  <2>3. Len(s) = i - 1
    <3>1. CASE i = 1
      BY <1>3, <2>2, <3>1
    <3>2. CASE i # 1
      BY <1>2, <1>3, <2>2, <3>2
    <3> QED BY <3>1, <3>2
  <2>4. ASSUME NEW j \in 1 .. i - 1
        PROVE  s[j] = ajax[j]
    <3>1. j \in 1 .. (i - 1) - 1 + 1 /\ 1 + j - 1 = j
      BY <1>2
    <3> QED BY <1>3, <2>2, <3>1
  <2> QED BY <1>3, <2>2, <2>3, <2>4
<1>6. /\ t \in Seq(Requests) /\ Len(t) = n - i
      /\ \A j \in 1 .. n - i : t[j] = ajax[i + j]
  <2>1. \A j \in i + 1 .. n : j \in DOMAIN ajax /\ ajax[j] \in Requests
    BY <1>1, <1>2
  <2>2. /\ SubSeq(ajax, i + 1, n) \in Seq(Requests)
        /\ Len(SubSeq(ajax, i + 1, n)) = (IF i + 1 <= n THEN n - (i + 1) + 1 ELSE 0)
        /\ \A j \in 1 .. n - (i + 1) + 1 : SubSeq(ajax, i + 1, n)[j] = ajax[(i + 1) + j - 1]
    BY <1>2, <2>1
  <2>3. Len(t) = n - i
    <3>1. CASE i = n
      BY <1>4, <2>2, <3>1
    <3>2. CASE i # n
      BY <1>2, <1>4, <2>2, <3>2
    <3> QED BY <3>1, <3>2
  <2>4. ASSUME NEW j \in 1 .. n - i
        PROVE  t[j] = ajax[i + j]
    <3>1. j \in 1 .. n - (i + 1) + 1 /\ (i + 1) + j - 1 = i + j
      BY <1>2
    <3> QED BY <1>4, <2>2, <3>1
  <2> QED BY <1>4, <2>2, <2>3, <2>4
<1>7. w = s \o t
  BY <1>1, <1>3, <1>4 DEF Page!Without
<1>8. /\ w \in Seq(Requests) /\ Len(w) = n - 1
      /\ \A j \in 1 .. i - 1 : w[j] = s[j]
      /\ \A j \in i .. n - 1 : w[j] = t[j - (i - 1)]
  <2>1. /\ s \o t \in Seq(Requests) /\ Len(s \o t) = Len(s) + Len(t)
        /\ \A j \in 1 .. Len(s) : (s \o t)[j] = s[j]
        /\ \A j \in Len(s) + 1 .. Len(s) + Len(t) : (s \o t)[j] = t[j - Len(s)]
    <3>1. s \in Seq(Requests) /\ t \in Seq(Requests)
      BY <1>5, <1>6
    <3> QED BY <3>1, Joined
  <2>2. (i - 1) + (n - i) = n - 1 /\ (i - 1) + 1 = i
    BY <1>2
  <2> QED BY <1>5, <1>6, <1>7, <2>1, <2>2
<1>9. DOMAIN w = 1 .. n - 1
  BY <1>8
<1> DEFINE From(j) == IF j < i THEN j ELSE j + 1
<1>10. \A j \in DOMAIN w : From(j) \in DOMAIN ajax /\ From(j) # i /\ w[j] = ajax[From(j)]
  <2> SUFFICES ASSUME NEW j \in DOMAIN w
               PROVE  From(j) \in DOMAIN ajax /\ From(j) # i /\ w[j] = ajax[From(j)]
    OBVIOUS
  <2>1. CASE j < i
    BY <1>1, <1>2, <1>5, <1>8, <1>9, <2>1
  <2>2. CASE ~(j < i)
    <3>1. j \in i .. n - 1 /\ j - (i - 1) \in 1 .. n - i /\ i + (j - (i - 1)) = j + 1
      BY <1>2, <1>9, <2>2
    <3>2. w[j] = ajax[j + 1]
      BY <1>6, <1>8, <3>1
    <3> QED BY <1>1, <1>2, <2>2, <3>1, <3>2
  <2> QED BY <2>1, <2>2
<1>11. \A j, k \in DOMAIN w : From(j) = From(k) => j = k
  BY <1>2, <1>9
<1>12. \A k \in DOMAIN ajax : k # i => \E j \in DOMAIN w : From(j) = k
  <2> SUFFICES ASSUME NEW k \in DOMAIN ajax, k # i
               PROVE  \E j \in DOMAIN w : From(j) = k
    OBVIOUS
  <2>1. CASE k < i
    BY <1>1, <1>2, <1>9, <2>1
  <2>2. CASE ~(k < i)
    <3>1. k - 1 \in DOMAIN w /\ ~(k - 1 < i) /\ (k - 1) + 1 = k
      BY <1>1, <1>2, <1>9, <2>2
    <3> QED BY <3>1
  <2> QED BY <2>1, <2>2
<1> HIDE DEF From
<1>13. One(ajax) => One(w)
  BY <1>10, <1>11 DEF One
<1> QED BY <1>8, <1>10, <1>12, <1>13

LEMMA Asked ==
  ASSUME NEW rs \in Seq(Requests), NEW what \in Whats, NEW w \in {1, 2},
         NEW r, r = Page!Sent(rs, what, w),
         NEW s, NEW here, NEW known, NEW week, NEW v, NEW change \in Nat,
         what \in Page!Logins /\ s # "phorum" => ~known,
         Good(rs, s, here, known, week, v, change),
         \A i \in DOMAIN rs : Kind(rs[i].what) # Kind(what),
         NEW other, what = "load" \/ s = "yp" => w = other,
         other = week \/ (what = "load" /\ s # "yp"),
         NEW v2, v2 = v \/ (what = "load" /\ ~(v2.data > 0))
  PROVE  Good(r, s, here, known, other, v2, change)
<1>1. Longer(r, rs, Query(what, w))
  BY OneMore
<1>2. PICK n : n = Len(rs) + 1
  OBVIOUS
<1>3. /\ n \in DOMAIN r /\ n \notin DOMAIN rs
      /\ r[n].what = what /\ r[n].week = w /\ r[n].reply = 0 /\ ~r[n].ok
      /\ \A j \in DOMAIN r : j = n \/ (j \in DOMAIN rs /\ r[j] = rs[j])
      /\ \A j \in DOMAIN rs : j \in DOMAIN r /\ r[j] = rs[j]
  BY <1>1, <1>2 DEF Longer, Query
<1>4. One(r)
  BY <1>3 DEF Good, One
<1>5. Loads(r, s, other, change)
  <2>1. CASE other = week
    BY <1>3, <2>1 DEF Good, Loads
  <2>2. CASE what = "load" /\ s # "yp"
    <3>1. \A j \in DOMAIN rs : rs[j].what # "load"
      BY <2>2
    <3> QED BY <1>3, <2>2, <3>1 DEF Loads
  <2> QED BY <2>1, <2>2
<1>6. Agreed(r, s, here, known)
  <2>1. CASE s = "phorum"
    <3>1. \A j \in DOMAIN r : r[j].what = "login" /\ r[j].ok => here
      BY <1>3, <2>1 DEF Good, Agreed
    <3>2. ASSUME \A j \in DOMAIN r : r[j].what = "logout" => ~r[j].ok, known
          PROVE  here
      BY <1>3, <2>1, <3>2 DEF Good, Agreed
    <3> QED BY <2>1, <3>1, <3>2 DEF Agreed
  <2>2. CASE s # "phorum"
    <3>1. CASE what \in Page!Logins
      <4>1. \A j \in DOMAIN rs : rs[j].what \notin Page!Logins
        BY <3>1 DEF Kind
      <4>2. ~known /\ ~here
        BY <2>2, <3>1, <4>1 DEF Good, Agreed
      <4> QED BY <1>3, <2>2, <3>1, <4>1, <4>2 DEF Agreed
    <3>2. CASE what \notin Page!Logins
      <4>1. \A j \in DOMAIN r : r[j].what \in Page!Logins =>
              ~known /\ (here <=> r[j].reply # 0 /\ r[j].ok)
        BY <1>3, <2>2, <3>2 DEF Good, Agreed
      <4>2. ASSUME \A j \in DOMAIN r : r[j].what \notin Page!Logins
            PROVE  known <=> here
        BY <1>3, <2>2, <4>2 DEF Good, Agreed
      <4> QED BY <2>2, <4>1, <4>2 DEF Agreed
    <3> QED BY <3>1, <3>2
  <2> QED BY <2>1, <2>2
<1>7. Shown(r, s, known, other, v2, change)
  <2>1. CASE what = "load"
    <3>1. Loading(r)
      BY <1>3, <2>1 DEF Loading
    <3>2. s = "yp" /\ v2.data > 0 => v2.week = other
      BY <2>1 DEF Good, Shown
    <3> QED BY <3>1, <3>2 DEF Shown
  <2>2. CASE what # "load"
    <3>1. Loading(rs) => Loading(r)
      BY <1>3 DEF Loading
    <3> QED BY <2>2, <3>1 DEF Good, Shown
  <2> QED BY <2>1, <2>2
<1> QED BY <1>4, <1>5, <1>6, <1>7 DEF Good

\* A timer or a click.
LEMMA AsksKeeps ==
  ASSUME PageInv, NEW what \in Whats, NEW week \in {1, 2}, Page!Asks(what, week),
         monday' \in {1, 2}, site \notin {"barbershop", "yp"} => monday' = 1,
         view' \in [week : {1, 2}, data : Nat],
         what = "load" \/ site = "yp" => week = monday',
         monday' = monday \/ (what = "load" /\ site # "yp"),
         view' = view \/ (what = "load" /\ ~(view'.data > 0)),
         what \in Page!Logins /\ site # "phorum" => ~user
  PROVE  PageInv'
<1> USE DEF PageInv
<1>1. /\ ajax' = Page!Sent(ajax, what, week)
      /\ clear' = (clear /\ Page!Alone(ajax, IF what \in Page!Logins THEN Page!Logins ELSE {what})
                         /\ fades = << >>)
      /\ UNCHANGED <<site, data, session, board, serving, fades, user, mine>>
  BY DEF Page!Asks, Page!serverVars
<1>2. PICK rs \in Seq(Requests) : rs = ajax
  BY DEF PageTypes
<1>3. PICK r : r = ajax'
  OBVIOUS
<1>4. r \in Seq(Requests) /\ Longer(r, rs, Query(what, week))
  BY <1>1, <1>2, <1>3, OneMore
<1>5. PageTypes'
  <2>1. clear' \in BOOLEAN
    BY <1>1, Zenon DEF PageTypes
  <2>2. \A j \in DOMAIN r : r[j].reply <= data
    BY <1>2, <1>4 DEF Longer, Query, PageTypes
  <2> QED BY <1>1, <1>3, <1>4, <2>1, <2>2 DEF PageTypes
<1>6. ASSUME clear'
      PROVE  Good(r, site, session, user, monday', view', mine) /\ fades = << >>
  <2>1. /\ clear /\ Page!Alone(ajax, IF what \in Page!Logins THEN Page!Logins ELSE {what})
        /\ fades = << >>
    BY <1>1, <1>6
  <2>2. Good(rs, site, session, user, monday, view, mine)
    BY <1>2, <2>1
  <2>3. \A i \in DOMAIN rs : Kind(rs[i].what) # Kind(what)
    BY <1>2, <2>1 DEF Page!Alone, Kind, Whats, Page!Logins
  <2>4. mine \in Nat /\ r = Page!Sent(rs, what, week)
    BY <1>1, <1>2, <1>3 DEF PageTypes
  <2> QED BY <2>1, <2>2, <2>3, <2>4, Asked
<1> QED BY <1>1, <1>3, <1>5, <1>6

\* The answer of a server.
LEMMA ReplyKeeps ==
  ASSUME PageInv, NEW i, NEW what \in Whats, NEW d \in Nat, NEW ok \in BOOLEAN,
         Page!Reply(i, what, d, ok),
         data' \in {data, data + 1}, d > 0, d <= data', d >= mine,
         board' \in Nat, board' <= data', session' \in BOOLEAN,
         what \notin Page!Logins => session' = session,
         site = "phorum" =>
           /\ what # "logout" => (session => session')
           /\ what = "login" /\ ok => session'
           /\ what = "logout" => ok,
         what \in Page!Logins /\ site # "phorum" /\ ~session => (session' <=> ok)
  PROVE  PageInv'
<1> USE DEF PageInv
<1>1. /\ i \in DOMAIN ajax /\ ajax[i].reply = 0 /\ ajax[i].what = what
      /\ ajax' = [ajax EXCEPT ![i].reply = d, ![i].ok = ok]
      /\ UNCHANGED <<site, serving, user, monday, fades, view, mine, clear>>
  BY DEF Page!Reply, Page!Unread
<1>2. data' \in Nat /\ data' >= data /\ data' > 0
  BY DEF PageTypes
<1>3. PICK rs \in Seq(Requests) : rs = ajax
  BY DEF PageTypes
<1>4. PICK r : r = ajax'
  OBVIOUS
<1>5. rs[i] \in [what : Whats, week : {1, 2}, reply : Nat, ok : BOOLEAN]
  <2>1. rs[i] \in Requests
    BY <1>1, <1>3
  <2> QED BY <2>1 DEF Requests
<1>6. PICK q : q = [[rs[i] EXCEPT !.reply = d] EXCEPT !.ok = ok]
  OBVIOUS
<1>7. /\ q \in Requests /\ q.what = rs[i].what /\ q.week = rs[i].week
      /\ q.reply = d /\ q.ok = ok
  BY <1>5, <1>6, Zenon DEF Requests
<1>8. r = [rs EXCEPT ![i] = q]
  BY <1>1, <1>3, <1>4, <1>6, Zenon
<1>9. /\ r \in Seq(Requests) /\ DOMAIN r = DOMAIN rs
      /\ \A j \in DOMAIN rs : /\ r[j].what = rs[j].what /\ r[j].week = rs[j].week
                              /\ j # i => r[j].reply = rs[j].reply /\ r[j].ok = rs[j].ok
      /\ r[i].reply = d /\ r[i].ok = ok
  <2>1. r \in Seq(Requests) /\ DOMAIN r = DOMAIN rs
    <3>1. i \in 1 .. Len(rs)
      BY <1>1, <1>3
    <3> QED BY <1>7, <1>8, <3>1, ExceptSeq
  <2>2. i \in DOMAIN rs
    BY <1>1, <1>3
  <2>3. r[i] = q /\ \A j \in DOMAIN rs : j # i => r[j] = rs[j]
    BY <1>8, <2>2
  <2> QED BY <1>7, <2>1, <2>2, <2>3
<1>10. PageTypes'
  <2>1. \A j \in DOMAIN r : r[j].reply <= data'
    <3>1. \A j \in DOMAIN rs : rs[j].reply \in Nat
      <4>1. \A j \in DOMAIN rs : rs[j] \in Requests
        OBVIOUS
      <4> QED BY <4>1 DEF Requests
    <3>2. \A j \in DOMAIN rs : rs[j].reply <= data
      BY <1>3 DEF PageTypes
    <3>3. data \in Nat
      BY DEF PageTypes
    <3> QED BY <1>2, <1>9, <3>1, <3>2, <3>3
  <2>2. mine <= data'
    BY <1>2 DEF PageTypes
  <2> QED BY <1>1, <1>2, <1>4, <1>9, <2>1, <2>2 DEF PageTypes
<1>11. ASSUME clear
       PROVE  Good(r, site, session', user, monday, view, mine) /\ fades = << >>
  <2>1. Good(rs, site, session, user, monday, view, mine)
    BY <1>3, <1>11
  <2>2. One(r)
    BY <1>9, <2>1 DEF Good, One
  <2>3. Loads(r, site, monday, mine)
    BY <1>9, <2>1 DEF Good, Loads
  <2>4. Shown(r, site, user, monday, view, mine)
    <3>1. Loading(r) <=> Loading(rs)
      BY <1>9 DEF Loading
    <3> QED BY <2>1, <3>1 DEF Good, Shown
  <2>5. ASSUME what \in Page!Logins
        PROVE  \A j \in DOMAIN rs : rs[j].what \in Page!Logins => j = i
    BY <1>1, <1>3, <2>1, <2>5 DEF Good, One, Kind
  <2>6. rs[i].what = what /\ r[i].what = what /\ i \in DOMAIN r /\ i \in DOMAIN rs
    BY <1>1, <1>3, <1>9
  <2>7. {"login", "create", "logout"} = Page!Logins
    BY DEF Page!Logins
  <2>8. CASE site = "phorum"
    <3>1. /\ \A j \in DOMAIN rs : rs[j].what = "login" /\ rs[j].ok => session
          /\ (\A j \in DOMAIN rs : rs[j].what = "logout" => ~rs[j].ok) => (user => session)
      BY <2>1, <2>8 DEF Good, Agreed
    <3>2. ASSUME NEW j \in DOMAIN r, r[j].what = "login", r[j].ok
          PROVE  session'
      <4>1. CASE j = i
        BY <1>9, <2>6, <2>8, <3>2, <4>1
      <4>2. CASE j # i
        <5>1. rs[j].what = "login" /\ rs[j].ok /\ j \in DOMAIN rs
          BY <1>9, <3>2, <4>2
        <5>2. what \notin Page!Logins
          BY <2>5, <2>7, <4>2, <5>1
        <5> QED BY <3>1, <5>1, <5>2
      <4> QED BY <4>1, <4>2
    <3>3. ASSUME \A j \in DOMAIN r : r[j].what = "logout" => ~r[j].ok, user
          PROVE  session'
      <4>1. what # "logout"
        BY <1>9, <2>6, <2>8, <3>3
      <4>2. \A j \in DOMAIN rs : rs[j].what = "logout" => ~rs[j].ok
        <5> SUFFICES ASSUME NEW j \in DOMAIN rs, rs[j].what = "logout" PROVE ~rs[j].ok
          OBVIOUS
        <5>1. j # i
          BY <2>6, <4>1
        <5> QED BY <1>9, <3>3, <5>1
      <4> QED BY <2>8, <3>1, <3>3, <4>1, <4>2
    <3>4. Agreed(r, site, session', user)
      BY <2>8, <3>2, <3>3 DEF Agreed
    <3> QED BY <1>11, <1>1, <2>2, <2>3, <2>4, <3>4 DEF Good
  <2>9. CASE site # "phorum"
    <3>1. /\ \A j \in DOMAIN rs : rs[j].what \in Page!Logins =>
               ~user /\ (session <=> rs[j].reply # 0 /\ rs[j].ok)
          /\ (\A j \in DOMAIN rs : rs[j].what \notin Page!Logins) => (user <=> session)
      BY <2>1, <2>9 DEF Good, Agreed
    <3>2. CASE what \in Page!Logins
      <4>1. rs[i].reply = 0 /\ r[i].reply # 0
        BY <1>1, <1>3, <1>9
      <4>2. ~user /\ ~session
        BY <2>6, <3>1, <3>2, <4>1
      <4>3. session' <=> ok
        BY <2>9, <3>2, <4>2
      <4>4. \A j \in DOMAIN r : r[j].what \in Page!Logins => j = i
        BY <1>9, <2>5, <3>2
      <4>5. Agreed(r, site, session', user)
        BY <1>9, <2>6, <2>9, <3>2, <4>2, <4>3, <4>4 DEF Agreed
      <4> QED BY <1>1, <1>11, <2>2, <2>3, <2>4, <4>5 DEF Good
    <3>3. CASE what \notin Page!Logins
      <4>1. session' = session
        BY <3>3
      <4>2. \A j \in DOMAIN r : r[j].what \in Page!Logins => j # i /\ r[j].ok = rs[j].ok
        BY <1>9, <2>6, <3>3
      <4>3. Agreed(r, site, session, user)
        BY <1>9, <2>9, <3>1, <4>2 DEF Agreed
      <4>4. Agreed(r, site, session', user)
        BY <4>1, <4>3
      <4> QED BY <1>1, <1>11, <2>2, <2>3, <2>4, <4>4 DEF Good
    <3> QED BY <3>2, <3>3
  <2> QED BY <2>8, <2>9
<1> QED BY <1>1, <1>4, <1>10, <1>11

LEMMA ReadKeeps ==
  ASSUME PageInv, NEW i, NEW what \in {"load", "write"}, NEW d \in Nat, NEW ok \in BOOLEAN,
         Page!Reply(i, what, d, ok),
         data' \in {data, data + 1}, d > 0, d <= data', d >= mine,
         board' \in Nat, board' <= data', session' = session
  PROVE  PageInv'
<1>1. what \in Whats /\ what \notin Page!Logins /\ what \notin {"login", "logout"}
  BY DEF Whats, Page!Logins
<1>2. session \in BOOLEAN
  BY DEF PageInv, PageTypes
<1>3. session' \in BOOLEAN
  BY <1>2
<1>4. site = "phorum" => /\ what # "logout" => (session => session')
                         /\ what = "login" /\ ok => session'
                         /\ what = "logout" => ok
  BY <1>1, Zenon
<1> QED BY <1>1, <1>3, <1>4, ReplyKeeps

LEMMA ServeKeeps ==
  ASSUME PageInv, NEW i, Page!Serve(i)
  PROVE  PageInv'
<1>1. /\ data \in Nat /\ data > 0 /\ board \in Nat /\ board <= data /\ session \in BOOLEAN
      /\ mine \in Nat /\ mine <= data /\ (site = "scores" => mine = 0)
  BY DEF PageInv, PageTypes
<1>2. /\ Page!Logins = {"login", "create", "logout"} /\ Page!Logins \subseteq Whats
      /\ "load" \in {"load", "write"} /\ "write" \in {"load", "write"}
  BY DEF Whats, Page!Logins
<1>3. ASSUME NEW what \in {"load", "write"}, NEW d \in Nat, Page!Reply(i, what, d, TRUE),
             /\ data' \in {data, data + 1} /\ d > 0 /\ d <= data' /\ d >= mine
             /\ board' \in Nat /\ board' <= data' /\ session' = session
      PROVE  PageInv'
  <2>1. PICK ok \in BOOLEAN : ok = TRUE
    OBVIOUS
  <2>2. Page!Reply(i, what, d, ok)
    BY <1>3, <2>1
  <2> HIDE <2>1
  <2>3. /\ data' \in {data, data + 1} /\ d > 0 /\ d <= data' /\ d >= mine
        /\ board' \in Nat /\ board' <= data' /\ session' = session
    BY <1>3
  <2> QED BY <2>2, <2>3, ReadKeeps, Zenon
<1>4. CASE Page!Reads(i) \/ Page!ServeStatus(i)
  <2>1. Page!Reply(i, "load", data, TRUE) /\ UNCHANGED <<data, session, board>>
    BY <1>4 DEF Page!Reads, Page!ServeStatus
  <2>2. /\ data' \in {data, data + 1} /\ data > 0 /\ data <= data' /\ data >= mine
        /\ board' \in Nat /\ board' <= data' /\ session' = session
    BY <1>1, <2>1
  <2> QED BY <1>1, <1>2, <1>3, <2>1, <2>2, Zenon
<1>5. ASSUME NEW may, Page!Writes(i, may)
      PROVE  PageInv'
  <2>1. /\ data' \in {data, data + 1} /\ Page!Reply(i, "write", data', TRUE)
        /\ UNCHANGED <<session, board>>
    BY <1>5 DEF Page!Writes
  <2>2. PICK d \in Nat : d = data'
    BY <1>1, <2>1
  <2>3. Page!Reply(i, "write", d, TRUE)
    BY <2>1, <2>2 DEF Page!Reply
  <2>4. /\ data' \in {data, data + 1} /\ d > 0 /\ d <= data' /\ d >= mine
        /\ board' \in Nat /\ board' <= data' /\ session' = session
    BY <1>1, <2>1, <2>2
  <2> QED BY <1>2, <1>3, <2>3, <2>4, Zenon
<1>6. CASE Page!ServeScores(i)
  <2>1. /\ site = "scores" /\ board' = (IF board = 0 THEN data ELSE board)
        /\ Page!Reply(i, "load", board', TRUE) /\ UNCHANGED <<data, session>>
    BY <1>6 DEF Page!ServeScores, Page!Unread
  <2>2. PICK d \in Nat : d = board'
    BY <1>1, <2>1
  <2>3. Page!Reply(i, "load", d, TRUE)
    BY <2>1, <2>2 DEF Page!Reply
  <2>4. /\ data' \in {data, data + 1} /\ d > 0 /\ d <= data' /\ d >= mine
        /\ board' \in Nat /\ board' <= data' /\ session' = session
    BY <1>1, <2>1, <2>2
  <2> QED BY <1>2, <1>3, <2>3, <2>4, Zenon
<1>7. ASSUME NEW what \in Page!Logins, NEW is \in BOOLEAN, NEW ok \in BOOLEAN,
             Page!SetsSession(i, what, is, ok),
             site = "phorum" => /\ what # "logout" => (session => is)
                                /\ what = "login" /\ ok => is
                                /\ what = "logout" => ok,
             site # "phorum" /\ ~session => (is <=> ok)
      PROVE  PageInv'
  <2>1. session' = is /\ Page!Reply(i, what, data, ok) /\ UNCHANGED <<data, board>>
    BY <1>7 DEF Page!SetsSession
  <2>2. what \in Whats /\ session' \in BOOLEAN
    BY <1>2, <1>7, <2>1
  <2> QED BY <1>1, <1>7, <2>1, <2>2, ReplyKeeps
<1>8. CASE Page!ServePhorum(i)
  <2>1. site = "phorum"
    BY <1>8 DEF Page!ServePhorum
  <2>2. CASE Page!SetsSession(i, "logout", FALSE, TRUE)
    BY <1>2, <1>7, <2>1, <2>2
  <2>3. ASSUME NEW right \in BOOLEAN, NEW what \in {"login", "create"},
               Page!SetsSession(i, what, session \/ right, session \/ right)
        PROVE  PageInv'
    <3>1. PICK is \in BOOLEAN : is = (session \/ right)
      BY Zenon
    <3>2. session => is
      BY <3>1, Zenon
    <3>3. Page!SetsSession(i, what, is, is)
      BY <2>3, <3>1
    <3> QED BY <1>2, <1>7, <2>1, <3>2, <3>3
  <2> QED BY <1>4, <1>5, <1>8, <2>2, <2>3 DEF Page!ServePhorum
<1>9. CASE Page!ServeMyStatus(i)
  <2>1. site = "mystatus"
    BY <1>9 DEF Page!ServeMyStatus
  <2>2. ASSUME NEW right \in BOOLEAN, Page!SetsSession(i, "login", right, right)
        PROVE  PageInv'
    BY <1>2, <1>7, <2>1, <2>2
  <2>3. ASSUME NEW new \in BOOLEAN, Page!SetsSession(i, "create", session \/ new, new)
        PROVE  PageInv'
    <3>1. PICK is \in BOOLEAN : is = (session \/ new)
      BY Zenon
    <3>2. ~session => (is <=> new)
      BY <3>1, Zenon
    <3>3. Page!SetsSession(i, "create", is, new)
      BY <2>3, <3>1
    <3> QED BY <1>2, <1>7, <2>1, <3>2, <3>3
  <2> QED BY <1>4, <1>5, <1>9, <2>2, <2>3 DEF Page!ServeMyStatus
<1>10. CASE Page!ServeBarbershop(i) \/ Page!ServeYellowPages(i)
  BY <1>4, <1>5, <1>10 DEF Page!ServeBarbershop, Page!ServeYellowPages
<1> QED BY <1>4, <1>6, <1>8, <1>9, <1>10 DEF Page!Serve

\* The score page.
LEMMA ExpireKeeps ==
  ASSUME PageInv, Page!Expire
  PROVE  PageInv'
<1>1. /\ board' = 0
      /\ UNCHANGED <<site, data, session, serving, ajax, user, monday, fades, view, mine, clear>>
  BY DEF Page!Expire, Page!Unread
<1> QED BY <1>1 DEF PageInv, PageTypes

LEMMA CursorErrorKeeps ==
  ASSUME PageInv, NEW i, Page!CursorError(i)
  PROVE  PageInv'
<1>1. /\ serving' = FALSE
      /\ UNCHANGED <<site, data, session, board, ajax, user, monday, fades, view, mine, clear>>
  BY DEF Page!CursorError
<1> QED BY <1>1 DEF PageInv, PageTypes

LEMMA LoseKeeps ==
  ASSUME PageInv, NEW i, Page!Lose(i)
  PROVE  PageInv'
<1>1. /\ i \in DOMAIN ajax /\ ajax' = Page!Without(i) /\ clear' = FALSE
      /\ UNCHANGED <<site, data, session, board, serving, user, monday, fades, view, mine>>
  BY DEF Page!Lose, Page!serverVars
<1>2. PICK w : w = ajax'
  OBVIOUS
<1>3. /\ w \in Seq(Requests)
      /\ \A j \in DOMAIN w : \E k \in DOMAIN ajax : k # i /\ w[j] = ajax[k]
  BY <1>1, <1>2, OneLess DEF PageInv, PageTypes
<1> QED BY <1>1, <1>2, <1>3 DEF PageInv, PageTypes

LEMMA ChangeKeeps ==
  ASSUME PageInv, Page!Change
  PROVE  PageInv'
<1>1. /\ data' = data + 1
      /\ UNCHANGED <<site, session, board, serving, ajax, user, monday, fades, view, mine, clear>>
  BY DEF Page!Change
<1>2. PageTypes'
  <2>1. \A j \in DOMAIN ajax : ajax[j].reply <= data + 1
    <3>1. \A j \in DOMAIN ajax : ajax[j] \in Requests /\ ajax[j].reply <= data
      BY DEF PageInv, PageTypes
    <3>2. \A j \in DOMAIN ajax : ajax[j].reply \in Nat
      BY <3>1 DEF Requests
    <3> QED BY <3>1, <3>2 DEF PageInv, PageTypes
  <2> QED BY <1>1, <2>1 DEF PageInv, PageTypes
<1> QED BY <1>1, <1>2 DEF PageInv

\* What the pages may make of the answer to a login or logout.
Told(what, ok, known) == ~known \/ (what # "logout" /\ user) \/ (what = "login" /\ ok)
LoggedIn(w, what, ok) ==
  /\ site = "phorum" =>
       \A known : Told(what, ok, known) => Agreed(w, site, session, known)
  /\ site # "phorum" =>
       /\ ~user /\ (session <=> ok)
       /\ \A known : (known <=> ok) => Agreed(w, site, session, known)

\* What an answer leaves of the requests.
LEMMA Left ==
  ASSUME PageInv, NEW i \in DOMAIN ajax, NEW w, w = Page!Without(i)
  PROVE  /\ w \in Seq(Requests)
         /\ \A j \in DOMAIN w : w[j].reply <= data
         /\ clear => /\ One(w) /\ Loads(w, site, monday, mine)
                     /\ \A j \in DOMAIN w : Kind(w[j].what) # Kind(ajax[i].what)
                     /\ ajax[i].what # "load" => (Loading(ajax) <=> Loading(w))
                     /\ fades = << >>
                     /\ ajax[i].what \notin Page!Logins => Agreed(w, site, session, user)
                     /\ ajax[i].what \in Page!Logins /\ ajax[i].reply # 0 =>
                          LoggedIn(w, ajax[i].what, ajax[i].ok)
<1> USE DEF PageInv
<1>1. /\ w \in Seq(Requests)
      /\ \A j \in DOMAIN w : \E k \in DOMAIN ajax : k # i /\ w[j] = ajax[k]
      /\ \A k \in DOMAIN ajax : k # i => \E j \in DOMAIN w : w[j] = ajax[k]
      /\ One(ajax) => One(w)
  BY OneLess DEF PageTypes
<1>2. \A j \in DOMAIN w : w[j].reply <= data
  BY <1>1 DEF PageTypes
<1>3. ASSUME clear
      PROVE  /\ One(w) /\ Loads(w, site, monday, mine)
             /\ \A j \in DOMAIN w : Kind(w[j].what) # Kind(ajax[i].what)
             /\ ajax[i].what # "load" => (Loading(ajax) <=> Loading(w))
             /\ fades = << >>
             /\ ajax[i].what \notin Page!Logins => Agreed(w, site, session, user)
             /\ ajax[i].what \in Page!Logins /\ ajax[i].reply # 0 => LoggedIn(w, ajax[i].what, ajax[i].ok)
  <2>1. One(w) /\ One(ajax)
    BY <1>1, <1>3 DEF Good
  <2>2. Loads(w, site, monday, mine)
    BY <1>1, <1>3 DEF Good, Loads
  <2>3. \A j \in DOMAIN w : Kind(w[j].what) # Kind(ajax[i].what)
    BY <1>1, <2>1 DEF One
  <2>4. ajax[i].what # "load" => (Loading(ajax) <=> Loading(w))
    BY <1>1 DEF Loading
  <2>5. fades = << >>
    BY <1>3
  <2>6. Agreed(ajax, site, session, user)
    BY <1>3 DEF Good
  <2>7. {"login", "create", "logout"} = Page!Logins
    BY DEF Page!Logins
  <2>8. ASSUME ajax[i].what \notin Page!Logins
        PROVE  Agreed(w, site, session, user)
    <3>1. CASE site = "phorum"
      <4>1. \A j \in DOMAIN w : w[j].what = "login" /\ w[j].ok => session
        BY <1>1, <2>6, <3>1 DEF Agreed
      <4>2. ASSUME \A j \in DOMAIN w : w[j].what = "logout" => ~w[j].ok, user
            PROVE  session
        <5>1. \A k \in DOMAIN ajax : ajax[k].what = "logout" => ~ajax[k].ok
          BY <1>1, <2>7, <2>8, <4>2
        <5> QED BY <2>6, <3>1, <4>2, <5>1 DEF Agreed
      <4> QED BY <3>1, <4>1, <4>2 DEF Agreed
    <3>2. CASE site # "phorum"
      <4>1. \A j \in DOMAIN w : w[j].what \in Page!Logins =>
              ~user /\ (session <=> w[j].reply # 0 /\ w[j].ok)
        BY <1>1, <2>6, <3>2 DEF Agreed
      <4>2. ASSUME \A j \in DOMAIN w : w[j].what \notin Page!Logins
            PROVE  user <=> session
        <5>1. \A k \in DOMAIN ajax : ajax[k].what \notin Page!Logins
          BY <1>1, <2>8, <4>2
        <5> QED BY <2>6, <3>2, <5>1 DEF Agreed
      <4> QED BY <3>2, <4>1, <4>2 DEF Agreed
    <3> QED BY <3>1, <3>2
  <2>9. ASSUME ajax[i].what \in Page!Logins, ajax[i].reply # 0
        PROVE  LoggedIn(w, ajax[i].what, ajax[i].ok)
    <3>1. \A j \in DOMAIN w : w[j].what \notin Page!Logins
      BY <2>3, <2>9 DEF Kind
    <3>2. CASE site = "phorum"
      <4> SUFFICES ASSUME NEW known,
                          Told(ajax[i].what, ajax[i].ok, known)
                   PROVE  Agreed(w, site, session, known)
        BY <3>2 DEF LoggedIn
      <4>1. \A j \in DOMAIN w : w[j].what = "login" /\ w[j].ok => session
        BY <2>7, <3>1
      <4>2. ASSUME known PROVE session
        <5>1. CASE ajax[i].what = "login" /\ ajax[i].ok
          BY <2>6, <3>2, <5>1 DEF Agreed
        <5>2. CASE ajax[i].what # "logout" /\ user
          <6>1. \A k \in DOMAIN ajax : ajax[k].what # "logout"
            BY <1>1, <2>7, <3>1, <5>2
          <6> QED BY <2>6, <3>2, <5>2, <6>1 DEF Agreed
        <5> QED BY <4>2, <5>1, <5>2 DEF Told
      <4> QED BY <3>2, <4>1, <4>2 DEF Agreed
    <3>3. CASE site # "phorum"
      <4>1. ~user /\ (session <=> ajax[i].ok)
        BY <2>6, <2>9, <3>3 DEF Agreed
      <4>2. ASSUME NEW known, known <=> ajax[i].ok
            PROVE  Agreed(w, site, session, known)
        BY <3>1, <3>3, <4>1, <4>2 DEF Agreed
      <4> QED BY <3>3, <4>1, <4>2 DEF LoggedIn
    <3> QED BY <3>2, <3>3
  <2> QED BY <2>1, <2>2, <2>3, <2>4, <2>5, <2>8, <2>9
<1> QED BY <1>1, <1>2, <1>3

\* A load after an answer.
LEMMA LoadAgain ==
  ASSUME NEW w \in Seq(Requests), NEW s, s # "yp", NEW here, NEW known, NEW week \in {1, 2},
         NEW v, NEW change,
         One(w), \A j \in DOMAIN w : w[j].what # "load", Agreed(w, s, here, known),
         NEW r, r = Page!Sent(w, "load", week)
  PROVE  Good(r, s, here, known, week, v, change)
<1>1. "load" \in Whats
  BY DEF Whats
<1>2. Longer(r, w, Query("load", week))
  BY <1>1, OneMore
<1>3. PICK n : n = Len(w) + 1
  OBVIOUS
<1>4. /\ n \in DOMAIN r /\ n \notin DOMAIN w
      /\ r[n].what = "load" /\ r[n].week = week /\ r[n].reply = 0
      /\ \A j \in DOMAIN r : j = n \/ (j \in DOMAIN w /\ r[j] = w[j])
      /\ \A j \in DOMAIN w : j \in DOMAIN r /\ r[j] = w[j]
  BY <1>2, <1>3 DEF Longer, Query
<1>5. Kind("load") = "load" /\ "load" \notin Page!Logins
  BY DEF Kind, Page!Logins
<1>6. \A j \in DOMAIN w : Kind(w[j].what) # "load"
  BY DEF Kind
<1>7. One(r)
  BY <1>4, <1>5, <1>6 DEF One
<1>8. Loads(r, s, week, change)
  BY <1>4 DEF Loads
<1>9. Agreed(r, s, here, known)
  <2>1. r[n].what \notin Page!Logins /\ r[n].what # "login" /\ r[n].what # "logout"
    BY <1>4, <1>5
  <2>2. CASE s = "phorum"
    BY <1>4, <2>1, <2>2 DEF Agreed
  <2>3. CASE s # "phorum"
    BY <1>4, <2>1, <2>3 DEF Agreed
  <2> QED BY <2>2, <2>3
<1>10. Loading(r)
  BY <1>4 DEF Loading
<1> QED BY <1>7, <1>8, <1>9, <1>10 DEF Good, Shown

\* A load that is shown.
LEMMA ShowKeeps ==
  ASSUME PageInv, NEW i \in DOMAIN ajax, NEW what,
         Page!Answered(i, what, "none"), what = "load" \/ (what = "write" /\ site = "yp"),
         Page!Show(i), UNCHANGED <<user, mine>>
  PROVE  PageInv'
<1> USE DEF PageInv
<1>1. /\ ajax[i].what = what /\ ajax[i].reply # 0
      /\ ajax' = Page!Without(i)
      /\ UNCHANGED <<site, data, session, board, serving, monday, fades>>
      /\ view' = [week |-> ajax[i].week, data |-> ajax[i].reply]
  BY DEF Page!Answered, Page!Show, Page!Unread, Page!serverVars
<1>2. clear' = clear
  BY Zenon DEF Page!Answered, PageTypes
<1>3. PICK w : w = ajax' /\ w = Page!Without(i)
  BY <1>1
<1>4. /\ w \in Seq(Requests)
      /\ \A j \in DOMAIN w : w[j].reply <= data
      /\ clear => /\ One(w) /\ Loads(w, site, monday, mine)
                  /\ \A j \in DOMAIN w : Kind(w[j].what) # Kind(ajax[i].what)
                  /\ fades = << >>
                  /\ ajax[i].what \notin Page!Logins => Agreed(w, site, session, user)
  BY <1>3, Left
<1>5. PICK q \in Requests : q = ajax[i]
  BY DEF PageTypes
<1>6. PICK v : v = view' /\ v = [week |-> q.week, data |-> q.reply]
  BY <1>1, <1>5
<1>7. v \in [week : {1, 2}, data : Nat] /\ v.week = q.week /\ v.data = q.reply /\ v.data \in Nat
  BY <1>5, <1>6 DEF Requests
<1>8. PageTypes'
  BY <1>1, <1>2, <1>3, <1>4, <1>6, <1>7 DEF PageTypes
<1>9. ASSUME clear
      PROVE  Good(w, site, session, user, monday, v, mine) /\ fades = << >>
  <2>1. ajax[i].what \notin Page!Logins
    BY <1>1 DEF Page!Logins
  <2>2. v.week = monday
    BY <1>1, <1>5, <1>7, <1>9 DEF Good, Loads
  <2>3. site # "yp" => v.data > 0 /\ v.data >= mine
    <3>1. q.reply \in Nat /\ q.reply # 0
      BY <1>1, <1>5, <1>7
    <3>2. site # "yp" => q.reply >= mine
      BY <1>1, <1>5, <1>9 DEF Good, Loads
    <3> QED BY <1>7, <3>1, <3>2
  <2>4. Shown(w, site, user, monday, v, mine)
    BY <2>2, <2>3 DEF Shown
  <2> QED BY <1>4, <1>9, <2>1, <2>4 DEF Good
<1> QED BY <1>1, <1>2, <1>3, <1>6, <1>8, <1>9 DEF Good

\* The answer to a change of the user's own: what it changed is loaded.
LEMMA WrittenKeeps ==
  ASSUME PageInv, NEW i \in DOMAIN ajax, site \notin {"yp", "scores"},
         Page!Answered(i, "write", "load"), mine' = ajax[i].reply, UNCHANGED <<user, view>>
  PROVE  PageInv'
<1> USE DEF PageInv
<1>1. /\ ajax[i].what = "write" /\ ajax[i].reply # 0
      /\ ajax' = Page!Sent(Page!Without(i), "load", monday)
      /\ UNCHANGED <<site, data, session, board, serving, monday, fades>>
  BY DEF Page!Answered, Page!Unread, Page!serverVars
<1>2. clear' = (clear /\ Page!Alone(Page!Without(i), {"load"}))
  BY Zenon DEF Page!Answered, PageTypes
<1>3. PICK w : w = Page!Without(i)
  OBVIOUS
<1>4. /\ w \in Seq(Requests)
      /\ \A j \in DOMAIN w : w[j].reply <= data
      /\ clear => /\ One(w) /\ fades = << >>
                  /\ ajax[i].what \notin Page!Logins => Agreed(w, site, session, user)
  BY <1>3, Left
<1>5. PICK r : r = ajax' /\ r = Page!Sent(w, "load", monday)
  BY <1>1, <1>3
<1>6. r \in Seq(Requests) /\ \A j \in DOMAIN r : r[j].reply <= data
  <2>1. "load" \in Whats /\ monday \in {1, 2}
    BY DEF Whats, PageTypes
  <2>2. r \in Seq(Requests) /\ Longer(r, w, Query("load", monday))
    BY <1>4, <1>5, <2>1, OneMore
  <2>3. Query("load", monday).reply <= data
    BY DEF Query, PageTypes
  <2> QED BY <1>4, <2>2, <2>3 DEF Longer
<1>7. mine' \in Nat /\ mine' <= data
  <2>1. ajax[i] \in Requests
    BY DEF PageTypes
  <2>2. ajax[i].reply \in Nat
    BY <2>1 DEF Requests
  <2> QED BY <2>2 DEF PageTypes
<1>8. clear' \in BOOLEAN
  BY <1>2, Zenon DEF PageTypes
<1>9. PageTypes'
  BY <1>1, <1>5, <1>6, <1>7, <1>8 DEF PageTypes
<1>10. ASSUME clear'
       PROVE  Good(r, site, session, user, monday, view, mine') /\ fades = << >>
  <2>1. clear /\ \A j \in DOMAIN w : w[j].what # "load"
    BY <1>2, <1>3, <1>10 DEF Page!Alone
  <2>2. ajax[i].what \notin Page!Logins
    BY <1>1 DEF Page!Logins
  <2>3. One(w) /\ Agreed(w, site, session, user) /\ fades = << >>
    BY <1>4, <2>1, <2>2
  <2>4. monday \in {1, 2}
    BY DEF PageTypes
  <2> QED BY <1>4, <1>5, <2>1, <2>3, <2>4, LoadAgain
<1> QED BY <1>1, <1>5, <1>9, <1>10 DEF Good

\* LeetPhorum: the answer to a login, to creating a user or to a logout.
LEMMA LoginKeeps ==
  ASSUME PageInv, NEW i \in DOMAIN ajax, site = "phorum", NEW what \in Page!Logins,
         Page!Answered(i, what, "none"),
         NEW known \in BOOLEAN, user' = known, Told(what, ajax[i].ok, known),
         UNCHANGED <<view, mine>>
  PROVE  PageInv'
<1> USE DEF PageInv
<1>1. /\ ajax[i].what = what /\ ajax[i].reply # 0
      /\ ajax' = Page!Without(i)
      /\ UNCHANGED <<site, data, session, board, serving, monday, fades>>
  BY DEF Page!Answered, Page!Unread, Page!serverVars
<1>2. clear' = clear
  BY Zenon DEF Page!Answered, PageTypes
<1>3. PICK w : w = ajax' /\ w = Page!Without(i)
  BY <1>1
<1>4. /\ w \in Seq(Requests)
      /\ \A j \in DOMAIN w : w[j].reply <= data
      /\ clear => /\ One(w) /\ Loads(w, site, monday, mine) /\ fades = << >>
                  /\ ajax[i].what # "load" => (Loading(ajax) <=> Loading(w))
                  /\ ajax[i].what \in Page!Logins /\ ajax[i].reply # 0 => LoggedIn(w, ajax[i].what, ajax[i].ok)
  BY <1>3, Left
<1>5. PageTypes'
  BY <1>1, <1>2, <1>3, <1>4 DEF PageTypes
<1>6. ASSUME clear
      PROVE  Good(w, site, session, known, monday, view, mine) /\ fades = << >>
  <2>1. ajax[i].what # "load"
    BY <1>1 DEF Page!Logins
  <2>2. LoggedIn(w, what, ajax[i].ok)
    BY <1>1, <1>4, <1>6
  <2>3. Agreed(w, site, session, known)
    BY <2>2 DEF LoggedIn
  <2>4. Shown(w, site, known, monday, view, mine)
    BY <1>4, <1>6, <2>1 DEF Good, Shown
  <2> QED BY <1>4, <1>6, <2>3, <2>4 DEF Good
<1> QED BY <1>1, <1>2, <1>3, <1>5, <1>6

\* MyStatus: the answer to a login shows an empty list, which is loaded.
LEMMA EnterKeeps ==
  ASSUME PageInv, NEW i \in DOMAIN ajax, Page!EnterStatuses(i)
  PROVE  PageInv'
<1> USE DEF PageInv
<1>1. /\ site = "mystatus" /\ ajax[i].what \in Page!Logins /\ ajax[i].reply # 0 /\ ajax[i].ok
      /\ ajax' = Page!Sent(Page!Without(i), "load", monday)
      /\ user' = TRUE /\ view' = [week |-> 1, data |-> 0]
      /\ UNCHANGED <<site, data, session, board, serving, monday, fades, mine>>
  BY DEF Page!EnterStatuses, Page!Answered, Page!Unread, Page!serverVars, Page!Logins
<1>2. clear' = (clear /\ Page!Alone(Page!Without(i), {"load"}))
  <2>1. PICK what \in {"login", "create"} : Page!Answered(i, what, "load")
    BY DEF Page!EnterStatuses
  <2> QED BY <2>1, Zenon DEF Page!Answered, PageTypes
<1>3. PICK w : w = Page!Without(i)
  OBVIOUS
<1>4. /\ w \in Seq(Requests)
      /\ \A j \in DOMAIN w : w[j].reply <= data
      /\ clear => /\ One(w) /\ fades = << >>
                  /\ ajax[i].what \in Page!Logins /\ ajax[i].reply # 0 => LoggedIn(w, ajax[i].what, ajax[i].ok)
  BY <1>3, Left
<1>5. PICK r : r = ajax' /\ r = Page!Sent(w, "load", monday)
  BY <1>1, <1>3
<1>6. r \in Seq(Requests) /\ \A j \in DOMAIN r : r[j].reply <= data
  <2>1. "load" \in Whats /\ monday \in {1, 2}
    BY DEF Whats, PageTypes
  <2>2. r \in Seq(Requests) /\ Longer(r, w, Query("load", monday))
    BY <1>4, <1>5, <2>1, OneMore
  <2>3. Query("load", monday).reply <= data
    BY DEF Query, PageTypes
  <2> QED BY <1>4, <2>2, <2>3 DEF Longer
<1>7. clear' \in BOOLEAN
  BY <1>2, Zenon DEF PageTypes
<1>8. PageTypes'
  BY <1>1, <1>5, <1>6, <1>7 DEF PageTypes
<1>9. ASSUME clear'
      PROVE  Good(r, site, session, TRUE, monday, view', mine) /\ fades = << >>
  <2>1. clear /\ \A j \in DOMAIN w : w[j].what # "load"
    BY <1>2, <1>3, <1>9 DEF Page!Alone
  <2>2. One(w) /\ LoggedIn(w, ajax[i].what, ajax[i].ok) /\ fades = << >>
    BY <1>1, <1>4, <2>1
  <2>3. Agreed(w, site, session, TRUE)
    BY <1>1, <2>2 DEF LoggedIn
  <2>4. monday \in {1, 2} /\ site # "yp"
    BY <1>1 DEF PageTypes
  <2> QED BY <1>4, <1>5, <2>1, <2>2, <2>3, <2>4, LoadAgain
<1> QED BY <1>1, <1>5, <1>8, <1>9

\* MyStatus: wrong credentials, or a name that is taken.
LEMMA RefusedKeeps ==
  ASSUME PageInv, NEW i \in DOMAIN ajax, Page!Refused(i)
  PROVE  PageInv'
<1> USE DEF PageInv
<1>1. PICK what \in {"login", "create"} : Page!Answered(i, what, "none")
  BY DEF Page!Refused
<1>2. /\ site = "mystatus" /\ ajax[i].what = what /\ what \in Page!Logins
      /\ ajax[i].reply # 0 /\ ~ajax[i].ok
      /\ ajax' = Page!Without(i)
      /\ UNCHANGED <<site, data, session, board, serving, monday, fades, user, view, mine>>
  BY <1>1 DEF Page!Refused, Page!Answered, Page!Unread, Page!serverVars, Page!Logins
<1>3. clear' = clear
  BY <1>1, Zenon DEF Page!Answered, PageTypes
<1>4. PICK w : w = ajax' /\ w = Page!Without(i)
  BY <1>2
<1>5. /\ w \in Seq(Requests)
      /\ \A j \in DOMAIN w : w[j].reply <= data
      /\ clear => /\ One(w) /\ Loads(w, site, monday, mine) /\ fades = << >>
                  /\ ajax[i].what # "load" => (Loading(ajax) <=> Loading(w))
                  /\ ajax[i].what \in Page!Logins /\ ajax[i].reply # 0 => LoggedIn(w, ajax[i].what, ajax[i].ok)
  BY <1>4, Left
<1>6. PageTypes'
  BY <1>2, <1>3, <1>4, <1>5 DEF PageTypes
<1>7. ASSUME clear
      PROVE  Good(w, site, session, user, monday, view, mine) /\ fades = << >>
  <2>1. ajax[i].what # "load"
    BY <1>2 DEF Page!Logins
  <2>2. LoggedIn(w, what, ajax[i].ok)
    BY <1>2, <1>5, <1>7
  <2>3. Agreed(w, site, session, user)
    BY <1>2, <2>2 DEF LoggedIn
  <2>4. Shown(w, site, user, monday, view, mine)
    BY <1>5, <1>7, <2>1 DEF Good, Shown
  <2> QED BY <1>5, <1>7, <2>3, <2>4 DEF Good
<1> QED BY <1>2, <1>3, <1>4, <1>6, <1>7

\* The yellow pages: the other form is chosen, and shown when the fade has ended.
LEMMA ChooseKeeps ==
  ASSUME PageInv, Page!Choose
  PROVE  PageInv'
<1> USE DEF PageInv
<1>1. /\ site = "yp" /\ view' = [view EXCEPT !.data = 0]
      /\ UNCHANGED <<site, data, session, board, serving, ajax, user, monday, mine>>
  BY DEF Page!Choose, Page!Hides, Page!serverVars
<1>2. clear' = (clear /\ ajax = << >> /\ fades = << >>)
  BY Zenon DEF Page!Choose
<1>3. clear' \in BOOLEAN
  BY <1>2, Zenon
<1>4. PICK form \in {1, 2} : fades' = Append(fades, form)
  BY DEF Page!Choose
<1>5. fades' \in Seq({1, 2})
  BY <1>4 DEF PageTypes
<1>6. view' \in [week : {1, 2}, data : Nat] /\ view'.data = 0
  BY <1>1 DEF PageTypes
<1>7. PageTypes'
  BY <1>1, <1>3, <1>5, <1>6 DEF PageTypes
<1>8. ASSUME clear'
      PROVE  Good(ajax, site, session, user, monday, view', mine) /\ ajax = << >>
  <2>1. clear /\ ajax = << >>
    BY <1>2, <1>8
  <2>2. \A j : j \notin DOMAIN ajax
    BY <2>1
  <2>3. Agreed(ajax, site, session, user)
    BY <2>1 DEF Good
  <2> QED BY <1>1, <1>6, <2>1, <2>2, <2>3 DEF Good, One, Loads, Shown
<1> QED BY <1>1, <1>6, <1>7, <1>8

\* One fade less.
LEMMA FadeLess ==
  ASSUME NEW S, NEW f \in Seq(S), NEW i \in DOMAIN f
  PROVE  SubSeq(f, 1, i - 1) \o SubSeq(f, i + 1, Len(f)) \in Seq(S)
<1>1. PICK n \in Nat : n = Len(f) /\ DOMAIN f = 1 .. n
  OBVIOUS
<1>2. i \in Int /\ 1 <= i /\ i <= n /\ \A j \in 1 .. n : f[j] \in S
  BY <1>1
<1>3. SubSeq(f, 1, i - 1) \in Seq(S)
  <2>1. \A j \in 1 .. i - 1 : f[j] \in S
    BY <1>2
  <2> QED BY <1>2, <2>1
<1>4. SubSeq(f, i + 1, Len(f)) \in Seq(S)
  <2>1. \A j \in i + 1 .. n : f[j] \in S
    BY <1>2
  <2> QED BY <1>1, <1>2, <2>1
<1> QED BY <1>3, <1>4, ConcatProperties

LEMMA FadedKeeps ==
  ASSUME PageInv, NEW i, Page!Faded(i)
  PROVE  PageInv'
<1> USE DEF PageInv
<1>1. /\ i \in DOMAIN fades /\ monday' = fades[i]
      /\ fades' = SubSeq(fades, 1, i - 1) \o SubSeq(fades, i + 1, Len(fades))
      /\ UNCHANGED <<site, data, session, board, serving, ajax, user, view, mine, clear>>
  BY DEF Page!Faded, Page!serverVars
<1>2. PICK f \in Seq({1, 2}) : f = fades
  BY DEF PageTypes
<1>3. fades # << >> /\ monday' \in {1, 2} /\ fades' \in Seq({1, 2})
  BY <1>1, <1>2, FadeLess
<1>4. PageTypes'
  BY <1>1, <1>3 DEF PageTypes
<1>5. ASSUME clear
      PROVE  Good(ajax, site, session, user, monday', view, mine) /\ ajax = << >> /\ view.data = 0
  <2>1. ajax = << >> /\ view.data = 0 /\ site = "yp"
    BY <1>3, <1>5 DEF PageTypes
  <2>2. \A j : j \notin DOMAIN ajax
    BY <2>1
  <2>3. Agreed(ajax, site, session, user)
    BY <1>5 DEF Good
  <2> QED BY <2>1, <2>2, <2>3 DEF Good, One, Loads, Shown
<1> QED BY <1>1, <1>4, <1>5

LEMMA AnswerKeeps ==
  ASSUME PageInv, NEW i, Page!Answer(i)
  PROVE  PageInv'
<1>1. i \in DOMAIN ajax
  BY DEF Page!Answer
<1>2. CASE Page!SetData(i) \/ Page!ShowData(i) \/ Page!LoadPhorum(i) \/ Page!LoadStatuses(i)
           \/ Page!HandleWeekData(i)
  <2>1. Page!Answered(i, "load", "none") /\ Page!Show(i) /\ UNCHANGED <<user, mine>>
    BY <1>2 DEF Page!SetData, Page!ShowData, Page!LoadPhorum, Page!LoadStatuses,
                Page!HandleWeekData
  <2> QED BY <1>1, <2>1, ShowKeeps
<1>3. CASE Page!Result(i)
  <2>1. /\ site = "yp" /\ Page!Show(i) /\ UNCHANGED <<user, mine>>
        /\ \E what \in {"load", "write"} : Page!Answered(i, what, "none")
    BY <1>3 DEF Page!Result
  <2>2. PICK what \in {"load", "write"} : Page!Answered(i, what, "none")
    BY <2>1
  <2> QED BY <1>1, <2>1, <2>2, ShowKeeps
<1>4. CASE Page!Posted(i) \/ Page!StatusChanged(i) \/ Page!Appointed(i)
  <2>1. /\ site \notin {"yp", "scores"} /\ Page!Answered(i, "write", "load") /\ mine' = ajax[i].reply
        /\ UNCHANGED <<user, view>>
    BY <1>4 DEF Page!Posted, Page!StatusChanged, Page!Appointed
  <2> QED BY <1>1, <2>1, WrittenKeeps
<1>5. CASE Page!LoggedIn(i)
  <2>1. /\ site = "phorum" /\ Page!Answered(i, "login", "none") /\ UNCHANGED <<view, mine>>
        /\ "login" \in Page!Logins /\ user' = (user \/ ajax[i].ok)
    BY <1>5 DEF Page!LoggedIn, Page!Logins
  <2>2. PICK known \in BOOLEAN : known = (user \/ ajax[i].ok)
    BY Zenon
  <2>3. Told("login", ajax[i].ok, known)
    BY <2>2, Zenon DEF Told
  <2> QED BY <1>1, <2>1, <2>2, <2>3, LoginKeeps
<1>6. CASE Page!UserCreated(i)
  <2>1. /\ site = "phorum" /\ Page!Answered(i, "create", "none") /\ UNCHANGED <<user, view, mine>>
        /\ "create" \in Page!Logins
    BY <1>6 DEF Page!UserCreated, Page!Logins
  <2>2. user \in BOOLEAN /\ user' = user /\ Told("create", ajax[i].ok, user)
    BY <2>1 DEF PageInv, PageTypes, Told
  <2> QED BY <1>1, <2>1, <2>2, LoginKeeps
<1>7. CASE Page!NotLoggedIn(i)
  <2>1. /\ site = "phorum" /\ Page!Answered(i, "logout", "none") /\ UNCHANGED <<view, mine>>
        /\ "logout" \in Page!Logins /\ user' = FALSE /\ Told("logout", ajax[i].ok, FALSE)
    BY <1>7 DEF Page!NotLoggedIn, Page!Logins, Told
  <2> QED BY <1>1, <2>1, LoginKeeps
<1>8. CASE Page!EnterStatuses(i)
  BY <1>1, <1>8, EnterKeeps
<1>9. CASE Page!Refused(i)
  BY <1>1, <1>9, RefusedKeeps
<1> QED BY <1>2, <1>3, <1>4, <1>5, <1>6, <1>7, <1>8, <1>9 DEF Page!Answer

LEMMA ClicksKeep ==
  ASSUME PageInv,
         \/ Page!Timer
         \/ Page!NewPost \/ Page!LogIn \/ Page!CreateUser \/ Page!LogOut
         \/ Page!Authenticate \/ Page!NewStatus
         \/ Page!ChangeWeek \/ Page!MakeAppointment
         \/ Page!Search \/ Page!Add
  PROVE  PageInv'
<1>1. {"load", "write", "login", "create", "logout"} \subseteq Whats
  BY DEF Whats, Page!Logins
<1>2. monday \in {1, 2} /\ view \in [week : {1, 2}, data : Nat]
      /\ (site \notin {"barbershop", "yp"} => monday = 1)
  BY DEF PageInv, PageTypes
<1>3. CASE Page!Timer \/ Page!NewPost \/ Page!LogIn \/ Page!CreateUser \/ Page!LogOut
           \/ Page!Authenticate \/ Page!NewStatus \/ Page!MakeAppointment \/ Page!Add
  <2>1. PICK what \in Whats, week \in {1, 2} :
          /\ Page!Asks(what, week) /\ UNCHANGED <<view, monday>>
          /\ what = "load" \/ site = "yp" => week = monday
          /\ what \in Page!Logins /\ site # "phorum" => ~user
    <3>1. CASE Page!Timer
      <4>1. Page!Asks("load", 1) /\ UNCHANGED <<view, monday>> /\ monday = 1
        BY <1>2, <3>1 DEF Page!Timer, Page!StatusTimer, Page!ScoresTimer, Page!Sends
      <4> QED BY <1>1, <4>1 DEF Page!Logins
    <3>2. CASE Page!NewPost \/ Page!NewStatus
      <4>1. Page!Asks("write", 1) /\ UNCHANGED <<view, monday>> /\ site # "yp"
        BY <3>2 DEF Page!NewPost, Page!NewStatus, Page!Sends
      <4> QED BY <1>1, <4>1 DEF Page!Logins
    <3>3. CASE Page!LogIn \/ Page!CreateUser \/ Page!LogOut
      <4>1. PICK what \in {"login", "create", "logout"} : Page!Asks(what, 1)
        BY <3>3 DEF Page!LogIn, Page!CreateUser, Page!LogOut, Page!Sends
      <4>2. UNCHANGED <<view, monday>> /\ site = "phorum"
        BY <3>3 DEF Page!LogIn, Page!CreateUser, Page!LogOut, Page!Sends
      <4> QED BY <1>1, <4>1, <4>2
    <3>4. CASE Page!Authenticate
      <4>1. PICK what \in {"login", "create"} : Page!Asks(what, 1)
        BY <3>4 DEF Page!Authenticate, Page!Sends
      <4>2. UNCHANGED <<view, monday>> /\ site = "mystatus" /\ ~user
        BY <3>4 DEF Page!Authenticate, Page!Sends
      <4> QED BY <1>1, <4>1, <4>2
    <3>5. CASE Page!MakeAppointment
      BY <1>1, <1>2, <3>5 DEF Page!MakeAppointment, Page!Sends, Page!Logins
    <3>6. CASE Page!Add
      BY <1>1, <1>2, <3>6 DEF Page!Add, Page!Sends, Page!Logins
    <3> QED BY <1>3, <3>1, <3>2, <3>3, <3>4, <3>5, <3>6
  <2> QED BY <1>2, <2>1, AsksKeeps
<1>4. CASE Page!ChangeWeek
  <2>1. /\ site = "barbershop" /\ monday' \in {1, 2} /\ UNCHANGED view
        /\ Page!Asks("load", monday')
    BY <1>4 DEF Page!ChangeWeek, Page!Sends
  <2>2. PICK week \in {1, 2} : week = monday'
    BY <2>1
  <2>3. Page!Asks("load", week) /\ "load" \notin Page!Logins
    BY <2>1, <2>2 DEF Page!Logins
  <2> QED BY <1>1, <1>2, <2>1, <2>2, <2>3, AsksKeeps
<1>5. CASE Page!Search
  <2>1. /\ site = "yp" /\ monday = 1 /\ Page!Asks("load", 1) /\ UNCHANGED monday
        /\ view' = [view EXCEPT !.data = 0] /\ "load" \notin Page!Logins
    BY <1>5 DEF Page!Search, Page!Hides, Page!Logins
  <2>2. view' \in [week : {1, 2}, data : Nat] /\ view'.data = 0
    BY <1>2, <2>1
  <2> QED BY <1>1, <1>2, <2>1, <2>2, AsksKeeps
<1> QED BY <1>3, <1>4, <1>5

LEMMA PagesInitially ==
  ASSUME Page!Init
  PROVE  PageInv
<1>1. /\ site \in {"status", "scores", "phorum", "mystatus", "barbershop", "yp"}
      /\ data = 1 /\ mine = 0 /\ clear = TRUE /\ monday = 1
      /\ session \in BOOLEAN /\ user = session
      /\ board = 0 /\ serving = TRUE /\ fades = << >>
      /\ view = [week |-> 1, data |-> 0]
      /\ ajax = IF site = "yp" \/ (site = "mystatus" /\ ~user)
                THEN << >> ELSE Page!Sent(<< >>, "load", 1)
  BY DEF Page!Init, Page!Unread
<1>2. << >> \in Seq(Requests) /\ << >> \in Seq({1, 2}) /\ \A j : j \notin DOMAIN << >>
  BY EmptySeq
<1>3. view \in [week : {1, 2}, data : Nat] /\ view.week = 1 /\ view.data = 0
  BY <1>1
<1>4. CASE site = "yp" \/ (site = "mystatus" /\ ~user)
  <2>1. ajax = << >>
    BY <1>1, <1>4
  <2>2. PageTypes
    <3>1. PICK r \in Seq(Requests) : r = ajax /\ \A j \in DOMAIN r : r[j].reply <= 1
      BY <1>2, <2>1
    <3> QED BY <1>1, <1>2, <1>3, <3>1 DEF PageTypes
  <2>3. One(ajax) /\ Loads(ajax, site, monday, mine) /\ Agreed(ajax, site, session, user)
    BY <1>1, <1>2, <2>1 DEF One, Loads, Agreed
  <2>4. Shown(ajax, site, user, monday, view, mine)
    BY <1>1, <1>3, <1>4 DEF Shown
  <2> QED BY <1>1, <2>2, <2>3, <2>4 DEF PageInv, Good
<1>5. CASE ~(site = "yp" \/ (site = "mystatus" /\ ~user))
  <2>1. PICK r : r = ajax /\ r = Page!Sent(<< >>, "load", 1)
    BY <1>1, <1>5
  <2>2. "load" \in Whats
    BY DEF Whats
  <2>3. r \in Seq(Requests) /\ Longer(r, << >>, Query("load", 1))
    BY <1>2, <2>1, <2>2, OneMore
  <2>4. Query("load", 1).reply <= 1
    BY DEF Query
  <2>5. \A j \in DOMAIN r : r[j].reply <= 1
    BY <1>2, <2>3, <2>4 DEF Longer
  <2>6. PageTypes
    BY <1>1, <1>2, <1>3, <2>1, <2>3, <2>5 DEF PageTypes
  <2>7. One(<< >>) /\ Agreed(<< >>, site, session, user) /\ \A j \in DOMAIN << >> : << >>[j].what # "load"
    BY <1>1, <1>2 DEF One, Agreed
  <2>8. Good(r, site, session, user, monday, view, mine)
    BY <1>1, <1>2, <1>5, <2>1, <2>7, LoadAgain
  <2> QED BY <1>1, <2>1, <2>6, <2>8 DEF PageInv
<1> QED BY <1>4, <1>5

PagesRight == which = "Pages" => PageInv

LEMMA PagesHold == PartsSpec => []PagesRight
<1>1. PartsInit => PagesRight
  BY PagesInitially DEF PartsInit, PagesRight
<1>2. PagesRight /\ [PartsNext]_partVars => PagesRight'
  <2> SUFFICES ASSUME PagesRight, [PartsNext]_partVars, which' = "Pages"
               PROVE  PageInv'
    BY DEF PagesRight
  <2>1. which = "Pages"
    BY DEF PartsNext, partVars
  <2>2. PageInv
    BY <2>1 DEF PagesRight
  <2>3. CASE Page!Next
    <3>1. ASSUME NEW i, \/ Page!Serve(i) \/ Page!CursorError(i) \/ Page!Lose(i)
                        \/ Page!Answer(i) \/ Page!Faded(i)
          PROVE  PageInv'
      BY <2>2, <3>1, ServeKeeps, CursorErrorKeeps, LoseKeeps, AnswerKeeps, FadedKeeps
    <3> QED BY <2>2, <2>3, <3>1, ClicksKeep, ChooseKeeps, ChangeKeeps, ExpireKeeps DEF Page!Next
  <2>4. CASE UNCHANGED pageVars
    BY <2>2, <2>4 DEF pageVars, PageInv, PageTypes
  <2> QED BY <2>1, <2>3, <2>4 DEF PartsNext, partVars
<1> QED BY <1>1, <1>2, PTL DEF PartsSpec

\* The pages that ask a server with $.ajax (LeetPhorum, MyStatus, Barbershop and the
\* others): when nothing is under way and no form fades, a page shows what its user
\* changed, the week or form that it says it shows, and whom the server has logged in,
\* although logins are refused, unless a request failed, two of a kind were under way
\* together or something was asked for during a fade.  For any number of requests,
\* clicks and changes.
THEOREM PagesShowOwn == PartsSpec => []ShowsOwn
<1>1. PagesRight => ShowsOwn
  <2> SUFFICES ASSUME PageInv, clear, ajax = << >>, fades = << >>
               PROVE  /\ user => session
                      /\ site # "phorum" => user = session
                      /\ view.data > 0 => view.week = monday
                      /\ site = "yp" \/ (site = "mystatus" /\ ~user)
                           \/ (view.data > 0 /\ view.data >= mine)
    BY DEF PagesRight, ShowsOwn, Page!ShowsOwn
  <2>1. \A j : j \notin DOMAIN ajax
    OBVIOUS
  <2>2. Agreed(ajax, site, session, user) /\ Shown(ajax, site, user, monday, view, mine)
    BY DEF PageInv, Good
  <2>3. user \in BOOLEAN /\ session \in BOOLEAN
    BY DEF PageInv, PageTypes
  <2>4. (user => session) /\ (site # "phorum" => user = session)
    BY <2>1, <2>2, <2>3 DEF Agreed
  <2> QED BY <2>1, <2>2, <2>4 DEF Shown, Loading
<1> QED BY <1>1, PagesHold, PTL
-----------------------------------------------------------------------------
(***************************************************************************)
(* JabbaRoom.                                                              *)
(***************************************************************************)

\* Somebody is there under the name.
Inside(n) == \E c \in there : c[1] = n

RoomTypes ==
  /\ there \subseteq Visitors
  /\ DOMAIN roomChatters \subseteq Room!Persons
  /\ roomChatters = [n \in DOMAIN roomChatters |-> roomChatters[n]]
  /\ \A n \in DOMAIN roomChatters :
       roomChatters[n] \in [id : Nat, connections : [Room!JidsOf(n) -> Nat]]
  /\ pendingChats \in Seq(Room!Persons)

\* A number belongs to one person.
Ids == \A m, n \in DOMAIN roomChatters : roomChatters[m].id = roomChatters[n].id => m = n

\* The page counts the connections: too many of those that sent another presence.
Connections ==
  /\ \A n \in DOMAIN roomChatters : \A j : <<n, j>> \in there => roomChatters[n].connections[j] > 0
  /\ \A n \in DOMAIN roomChatters \ updated : \A j \in Room!JidsOf(n) :
       roomChatters[n].connections[j] = IF <<n, j>> \in there THEN 1 ELSE 0

\* Who is there is among the chatters, and the others among them are gone but for
\* those that sent another presence.
Present ==
  /\ \A c \in there : c[1] \in DOMAIN roomChatters
  /\ \A n \in DOMAIN roomChatters \ updated : Inside(n)

\* Who is in the list is there.  When nobody is being looked up and everybody has a
\* name, all are known, in the list, and heard.  Who has none is never known.
LookedUpAll ==
  /\ DOMAIN roomChatters \ Nameless \subseteq chatterInfo \cup asked
  /\ chatterInfo \cap Nameless = {}
  /\ asked \cap Nameless \subseteq DOMAIN roomChatters
  /\ roomUsers \subseteq {<<roomChatters[n].id, n>> : n \in DOMAIN roomChatters}
  /\ asked = {} /\ DOMAIN roomChatters \cap Nameless = {} =>
       /\ {<<roomChatters[n].id, n>> : n \in DOMAIN roomChatters} \subseteq roomUsers
       /\ pendingChats # << >> => Head(pendingChats) \notin DOMAIN roomChatters

RoomInv ==
  "OnUser" \notin deaf => RoomTypes /\ Ids /\ Connections /\ Present /\ LookedUpAll

\* A set of numbers has a first one.
LEMMA FirstOf ==
  ASSUME NEW S \in SUBSET Nat, S # {}
  PROVE  \E i \in S : \A j \in S : i <= j
<1> DEFINE R == OpToRel(<, Nat)
<1>1. \E i \in S : \A j \in S : ~(<<j, i>> \in R)
  BY NatLessThanWellFounded, WFMin
<1>2. \A i, j \in Nat : j < i => <<j, i>> \in R
  BY DEF OpToRel
<1> HIDE DEF R
<1>3. PICK i \in S : \A j \in S : ~(<<j, i>> \in R)
  BY <1>1
<1>4. \A j \in S : ~(j < i)
  BY <1>2, <1>3
<1>5. i \in Int /\ \A j \in S : j \in Int
  OBVIOUS
<1> QED BY <1>4, <1>5

\* The image of a finite set.
LEMMA FiniteImage ==
  ASSUME NEW S, IsFiniteSet(S), NEW f, f = [x \in S |-> f[x]], NEW T, T = {f[x] : x \in S}
  PROVE  IsFiniteSet(T) /\ Cardinality(T) <= Cardinality(S)
<1>1. f \in [S -> T] /\ \A t \in T : \E x \in S : f[x] = t
  OBVIOUS
<1>2. f \in Surjection(S, T)
  BY <1>1 DEF Surjection
<1> QED BY <1>2, FS_Surjection

LEMMA PersonsFinite == IsFiniteSet(Room!Persons)
<1>1. PICK f : f = [c \in Visitors |-> c[1]]
  OBVIOUS
<1>2. f = [c \in Visitors |-> f[c]] /\ Room!Persons = {f[c] : c \in Visitors}
  BY <1>1 DEF Room!Persons
<1>3. IsFiniteSet(Visitors)
  BY PartsAssumption
<1> QED BY <1>2, <1>3, FiniteImage

LEMMA RoomCardinality == \A S : Room!Cardinality(S) = Cardinality(S)
BY DEF Room!Cardinality, Cardinality

\* There is a number left for somebody new.
LEMMA FreeNumber ==
  ASSUME RoomTypes, NEW n \in Room!Persons \ DOMAIN roomChatters
  PROVE  /\ Room!FreeId \in Nat
         /\ \A m \in DOMAIN roomChatters : roomChatters[m].id # Room!FreeId
<1>1. PICK D : D = DOMAIN roomChatters
  OBVIOUS
<1>2. PICK P : P = Room!Persons
  OBVIOUS
<1>3. PICK ids : ids = {roomChatters[m].id : m \in D}
  OBVIOUS
<1>4. PICK f : f = [m \in D |-> roomChatters[m].id]
  OBVIOUS
<1>5. IsFiniteSet(P) /\ IsFiniteSet(D) /\ Cardinality(P) \in Nat /\ Cardinality(D) \in Nat
  BY <1>1, <1>2, PersonsFinite, FS_Subset, FS_CardinalityType DEF RoomTypes
<1>6. Cardinality(D) < Cardinality(P)
  <2>1. D \in SUBSET P /\ D # P
    BY <1>1, <1>2 DEF RoomTypes
  <2>2. Cardinality(D) <= Cardinality(P) /\ Cardinality(D) # Cardinality(P)
    BY <1>5, <2>1, FS_Subset
  <2> QED BY <1>5, <2>2
<1>7. IsFiniteSet(ids) /\ Cardinality(ids) <= Cardinality(D) /\ Cardinality(ids) \in Nat
  <2>1. f = [m \in D |-> f[m]] /\ ids = {f[m] : m \in D}
    BY <1>3, <1>4
  <2>2. IsFiniteSet(ids) /\ Cardinality(ids) <= Cardinality(D)
    BY <1>5, <2>1, FiniteImage
  <2> QED BY <2>2, FS_CardinalityType
<1>8. PICK k \in Nat : k = Cardinality(P)
  BY <1>5
<1>9. IsFiniteSet(0 .. k) /\ Cardinality(0 .. k) = k + 1
  <2>1. 0 \in Int /\ k \in Int
    OBVIOUS
  <2> QED BY <2>1, FS_Interval
<1>10. ~(0 .. k \subseteq ids)
  <2> SUFFICES ASSUME 0 .. k \subseteq ids PROVE FALSE
    OBVIOUS
  <2>1. Cardinality(0 .. k) <= Cardinality(ids)
    BY <1>7, FS_Subset
  <2> QED BY <1>5, <1>6, <1>7, <1>8, <1>9, <2>1
<1>11. PICK left : left = (0 .. k) \ ids
  OBVIOUS
<1>12. left \in SUBSET Nat /\ left # {}
  BY <1>10, <1>11
<1>13. Room!Min(left) \in left
  <2>1. \E i \in left : \A j \in left : i <= j
    BY <1>12, FirstOf
  <2> QED BY <2>1 DEF Room!Min
<1>14. Room!FreeId = Room!Min(left)
  BY <1>1, <1>2, <1>3, <1>8, <1>11, RoomCardinality DEF Room!FreeId
<1>15. Room!FreeId \in Nat /\ Room!FreeId \notin ids
  BY <1>11, <1>12, <1>13, <1>14
<1> QED BY <1>1, <1>3, <1>15

LEMMA Pairs ==
  ASSUME NEW c \in Visitors
  PROVE  /\ c = <<c[1], c[2]>> /\ c[1] \in Room!Persons /\ c[2] \in Room!JidsOf(c[1])
BY PartsAssumption DEF Room!Persons, Room!JidsOf

LEMMA UserConnectKeeps ==
  ASSUME RoomInv, NEW c \in Visitors, Room!UserConnect(c[1], c[2])
  PROVE  RoomInv'
<1> SUFFICES ASSUME "OnUser" \notin deaf'
             PROVE  (RoomTypes /\ Ids /\ Connections /\ Present /\ LookedUpAll)'
  BY DEF RoomInv
<1>1. PICK n, j :
        n \in Room!Persons /\ n = c[1] /\ j = c[2] /\ c = <<n, j>> /\ j \in Room!JidsOf(n)
  BY Pairs
<1>2. /\ there' = there \cup {<<n, j>>}
      /\ updated' = IF <<n, j>> \in there THEN updated \cup {n} ELSE updated
      /\ UNCHANGED <<deaf, chatterInfo, pendingChats, roomUsers>>
  BY <1>1 DEF Room!UserConnect
<1>3. "OnUser" \notin deaf
  BY <1>2
<1> USE <1>3 DEF RoomInv
<1>4. PICK D : D = DOMAIN roomChatters /\ D \subseteq Room!Persons
  BY DEF RoomTypes
<1>5. PICK usr : usr = IF n \in D THEN roomChatters[n]
                       ELSE [id |-> Room!FreeId, connections |-> [k \in Room!JidsOf(n) |-> 0]]
  OBVIOUS
<1>6. /\ roomChatters' = [m \in D \cup {n} |->
                            IF m = n THEN [usr EXCEPT !.connections[j] = @ + 1] ELSE roomChatters[m]]
      /\ asked' = IF n \in D THEN asked ELSE asked \cup {n}
  BY <1>1, <1>4, <1>5 DEF Room!UserConnect
<1>7. /\ usr \in [id : Nat, connections : [Room!JidsOf(n) -> Nat]]
      /\ n \in D => usr = roomChatters[n]
      /\ n \notin D => /\ \A m \in D : roomChatters[m].id # usr.id
                       /\ \A k \in Room!JidsOf(n) : usr.connections[k] = 0
  <2>1. CASE n \in D
    BY <1>4, <1>5, <2>1 DEF RoomTypes
  <2>2. CASE n \notin D
    <3>1. /\ Room!FreeId \in Nat
          /\ \A m \in D : roomChatters[m].id # Room!FreeId
      BY <1>1, <1>4, <2>2, FreeNumber
    <3> QED BY <1>5, <2>2, <3>1
  <2> QED BY <2>1, <2>2
<1>8. PICK u : u = [usr EXCEPT !.connections[j] = @ + 1]
  OBVIOUS
<1>9. /\ u \in [id : Nat, connections : [Room!JidsOf(n) -> Nat]] /\ u.id = usr.id
      /\ \A k \in Room!JidsOf(n) :
           u.connections[k] = IF k = j THEN usr.connections[j] + 1 ELSE usr.connections[k]
  <2>1. PICK g \in [Room!JidsOf(n) -> Nat] : g = usr.connections
    BY <1>7
  <2>2. PICK f : f = [g EXCEPT ![j] = g[j] + 1]
    OBVIOUS
  <2>3. /\ f \in [Room!JidsOf(n) -> Nat]
        /\ \A k \in Room!JidsOf(n) : f[k] = IF k = j THEN g[j] + 1 ELSE g[k]
    BY <1>1, <2>2
  <2>4. u = [usr EXCEPT !.connections = f]
    BY <1>7, <1>8, <2>1, <2>2
  <2>5. /\ u.id = usr.id /\ u.connections = f
        /\ u \in [id : Nat, connections : [Room!JidsOf(n) -> Nat]]
    BY <1>7, <2>3, <2>4
  <2> QED BY <2>1, <2>3, <2>5
<1>10. PICK rc : rc = roomChatters'
  OBVIOUS
<1>11. /\ DOMAIN rc = D \cup {n} /\ rc[n] = u
       /\ \A m \in D : m # n => rc[m] = roomChatters[m]
       /\ rc = [m \in DOMAIN rc |-> rc[m]]
  BY <1>6, <1>8, <1>10
<1>12. RoomTypes'
  <2>1. there' \subseteq Visitors
    BY <1>1, <1>2 DEF RoomTypes
  <2>2. \A m \in DOMAIN rc : rc[m] \in [id : Nat, connections : [Room!JidsOf(m) -> Nat]]
    <3>1. \A m \in D : m # n => rc[m] \in [id : Nat, connections : [Room!JidsOf(m) -> Nat]]
      BY <1>4, <1>11 DEF RoomTypes
    <3> QED BY <1>9, <1>11, <3>1
  <2>3. DOMAIN rc \subseteq Room!Persons
    BY <1>1, <1>4, <1>11
  <2> QED BY <1>2, <1>10, <1>11, <2>1, <2>2, <2>3 DEF RoomTypes
<1>13. Ids'
  <2>1. \A m \in D : m # n => rc[m].id # rc[n].id
    <3>1. ASSUME NEW m \in D, m # n
          PROVE  roomChatters[m].id # usr.id
      BY <1>4, <1>7, <3>1 DEF Ids
    <3> QED BY <1>9, <1>11, <3>1
  <2>2. \A m, k \in D : m # n /\ k # n /\ rc[m].id = rc[k].id => m = k
    BY <1>4, <1>11 DEF Ids
  <2>3. \A m, k \in DOMAIN rc : rc[m].id = rc[k].id => m = k
    BY <1>11, <2>1, <2>2
  <2> QED BY <1>10, <2>3 DEF Ids
<1>14. Connections'
  <2>1. ASSUME NEW m \in D \cup {n}, NEW k, <<m, k>> \in there'
        PROVE  rc[m].connections[k] > 0
    <3>1. CASE m # n
      BY <1>2, <1>4, <1>11, <2>1, <3>1 DEF Connections
    <3>2. CASE m = n /\ k = j
      BY <1>1, <1>7, <1>9, <1>11, <3>2
    <3>3. CASE m = n /\ k # j
      <4>1. <<n, k>> \in there
        BY <1>2, <2>1, <3>3
      <4>2. n \in D /\ k \in Room!JidsOf(n)
        BY <1>4, <4>1, Pairs DEF Present, RoomTypes
      <4>3. usr.connections[k] > 0
        BY <1>4, <1>7, <4>1, <4>2 DEF Connections
      <4> QED BY <1>9, <1>11, <3>3, <4>2, <4>3
    <3> QED BY <3>1, <3>2, <3>3
  <2>2. ASSUME NEW m \in (D \cup {n}) \ updated', NEW k \in Room!JidsOf(m)
        PROVE  rc[m].connections[k] = IF <<m, k>> \in there' THEN 1 ELSE 0
    <3>1. m \notin updated /\ (m = n => <<n, j>> \notin there)
      BY <1>2, <2>2
    <3>2. CASE m # n
      <4>1. <<m, k>> \in there' <=> <<m, k>> \in there
        BY <1>2, <3>2
      <4>2. roomChatters[m].connections[k] = IF <<m, k>> \in there THEN 1 ELSE 0
        BY <1>4, <2>2, <3>1, <3>2 DEF Connections
      <4> QED BY <1>11, <3>2, <4>1, <4>2
    <3>3. CASE m = n /\ n \in D
      <4>1. \A x \in Room!JidsOf(n) : usr.connections[x] = IF <<n, x>> \in there THEN 1 ELSE 0
        BY <1>4, <1>7, <3>1, <3>3 DEF Connections
      <4>2. usr.connections[j] = 0
        BY <1>1, <3>1, <3>3, <4>1
      <4>3. <<n, k>> \in there' <=> k = j \/ <<n, k>> \in there
        BY <1>2
      <4> QED BY <1>9, <1>11, <2>2, <3>3, <4>1, <4>2, <4>3
    <3>4. CASE m = n /\ n \notin D
      <4>1. \A x : <<n, x>> \notin there
        BY <1>4, <3>4 DEF Present
      <4>2. <<n, k>> \in there' <=> k = j
        BY <1>2, <4>1
      <4> QED BY <1>7, <1>9, <1>11, <2>2, <3>4, <4>2
    <3> QED BY <2>2, <3>2, <3>3, <3>4
  <2> QED BY <1>10, <1>11, <2>1, <2>2 DEF Connections
<1>15. Present'
  <2>1. \A d \in there' : d[1] \in D \cup {n}
    BY <1>2, <1>4 DEF Present
  <2>2. \A m : Inside(m) => Inside(m)'
    BY <1>2 DEF Inside
  <2>3. <<n, j>> \in there' /\ <<n, j>>[1] = n
    BY <1>2
  <2>4. Inside(n)'
    BY <2>3 DEF Inside
  <2>5. \A m \in (D \cup {n}) \ updated' : Inside(m)'
    BY <1>2, <1>4, <2>2, <2>4 DEF Present
  <2> QED BY <1>10, <1>11, <2>1, <2>5 DEF Present
<1>16. LookedUpAll'
  <2>1. /\ DOMAIN rc \ Nameless \subseteq chatterInfo \cup asked'
        /\ chatterInfo \cap Nameless = {}
        /\ asked' \cap Nameless \subseteq DOMAIN rc
    BY <1>4, <1>6, <1>11 DEF LookedUpAll
  <2>2. \A m \in D : rc[m].id = roomChatters[m].id
    BY <1>7, <1>9, <1>11
  <2>3. roomUsers \subseteq {<<rc[m].id, m>> : m \in DOMAIN rc}
    <3> SUFFICES ASSUME NEW v \in roomUsers
                 PROVE  \E m \in DOMAIN rc : v = <<rc[m].id, m>>
      OBVIOUS
    <3>1. PICK m \in D : v = <<roomChatters[m].id, m>>
      BY <1>4 DEF LookedUpAll
    <3> QED BY <1>11, <2>2, <3>1
  <2>4. ASSUME asked' = {}, DOMAIN rc \cap Nameless = {}
        PROVE  /\ {<<rc[m].id, m>> : m \in DOMAIN rc} \subseteq roomUsers
               /\ pendingChats # << >> => Head(pendingChats) \notin DOMAIN rc
    <3>1. n \in D /\ asked = {}
      BY <1>6, <2>4
    <3>2. DOMAIN rc = D
      BY <1>11, <3>1
    <3> QED BY <1>4, <2>2, <2>4, <3>1, <3>2 DEF LookedUpAll
  <2> QED BY <1>2, <1>10, <2>1, <2>3, <2>4 DEF LookedUpAll
<1> QED BY <1>12, <1>13, <1>14, <1>15, <1>16

LEMMA UserDisconnectKeeps ==
  ASSUME RoomInv, NEW c \in Visitors, Room!UserDisconnect(c[1], c[2])
  PROVE  RoomInv'
<1> SUFFICES ASSUME "OnUser" \notin deaf'
             PROVE  (RoomTypes /\ Ids /\ Connections /\ Present /\ LookedUpAll)'
  BY DEF RoomInv
<1>1. PICK n, j :
        n \in Room!Persons /\ n = c[1] /\ j = c[2] /\ c = <<n, j>> /\ j \in Room!JidsOf(n)
  BY Pairs
<1>2. /\ <<n, j>> \in there
      /\ there' = there \ {<<n, j>>}
      /\ UNCHANGED <<updated, asked, pendingChats>>
  BY <1>1 DEF Room!UserDisconnect
<1>3. "OnUser" \notin deaf
  BY DEF Room!UserDisconnect
<1> USE <1>3 DEF RoomInv
<1>4. PICK D : D = DOMAIN roomChatters /\ D \subseteq Room!Persons
  BY DEF RoomTypes
<1>5. n \in D
  BY <1>2, <1>4 DEF Present
<1>6. PICK conn \in [Room!JidsOf(n) -> Nat] : conn = roomChatters[n].connections
  BY <1>4, <1>5 DEF RoomTypes
<1>7. PICK left : left = [conn EXCEPT ![j] = IF @ > 0 THEN @ - 1 ELSE 0]
  OBVIOUS
<1>8. PICK gone \in BOOLEAN : gone = \A k \in Room!JidsOf(n) : left[k] = 0
  OBVIOUS
<1>9. /\ gone => n \in chatterInfo
      /\ roomUsers' = IF gone THEN roomUsers \ {<<roomChatters[n].id, n>>} ELSE roomUsers
      /\ chatterInfo' = IF gone THEN chatterInfo \ {n} ELSE chatterInfo
      /\ roomChatters' = IF gone THEN [m \in D \ {n} |-> roomChatters[m]]
                         ELSE [roomChatters EXCEPT ![n].connections = left]
  BY <1>1, <1>4, <1>5, <1>6, <1>7, <1>8 DEF Room!UserDisconnect
<1>10. conn[j] > 0 /\ \A k : <<n, k>> \in there => k \in Room!JidsOf(n) /\ conn[k] > 0
  <2>1. ASSUME NEW k, <<n, k>> \in there
        PROVE  k \in Room!JidsOf(n) /\ conn[k] > 0
    <3>1. <<n, k>> \in Visitors /\ <<n, k>>[1] = n /\ <<n, k>>[2] = k
      BY <2>1 DEF RoomTypes
    <3>2. k \in Room!JidsOf(n)
      BY <3>1, Pairs
    <3> QED BY <1>4, <1>5, <1>6, <2>1, <3>2 DEF Connections
  <2> QED BY <1>2, <2>1
<1>11. /\ left \in [Room!JidsOf(n) -> Nat] /\ left[j] = conn[j] - 1
       /\ \A k \in Room!JidsOf(n) : k # j => left[k] = conn[k]
  BY <1>1, <1>7, <1>10
<1>12. PICK rc : rc = roomChatters'
  OBVIOUS
<1>13. there' \subseteq Visitors
  BY <1>2 DEF RoomTypes
<1>14. CASE gone
  <2>1. /\ DOMAIN rc = D \ {n} /\ rc = [m \in DOMAIN rc |-> rc[m]]
        /\ \A m \in D \ {n} : rc[m] = roomChatters[m]
    BY <1>9, <1>12, <1>14
  <2>2. RoomTypes'
    <3>1. \A m \in DOMAIN rc : rc[m] \in [id : Nat, connections : [Room!JidsOf(m) -> Nat]]
      BY <1>4, <2>1 DEF RoomTypes
    <3>2. pendingChats' \in Seq(Room!Persons)
      BY <1>2 DEF RoomTypes
    <3> QED BY <1>4, <1>12, <1>13, <2>1, <3>1, <3>2 DEF RoomTypes
  <2>3. Ids'
    BY <1>4, <1>12, <2>1 DEF Ids
  <2>4. Connections'
    <3>1. ASSUME NEW m \in D \ {n}, NEW k
          PROVE  <<m, k>> \in there' <=> <<m, k>> \in there
      BY <1>2, <3>1
    <3>2. \A m \in D \ {n} : \A k : <<m, k>> \in there' => rc[m].connections[k] > 0
      BY <1>4, <2>1, <3>1 DEF Connections
    <3>3. ASSUME NEW m \in (D \ {n}) \ updated, NEW k \in Room!JidsOf(m)
          PROVE  rc[m].connections[k] = IF <<m, k>> \in there' THEN 1 ELSE 0
      BY <1>4, <2>1, <3>1 DEF Connections
    <3> QED BY <1>2, <1>12, <2>1, <3>2, <3>3 DEF Connections
  <2>5. Present'
    <3>1. ASSUME NEW d \in there' PROVE d[1] \in D \ {n}
      <4>1. d \in there /\ d # <<n, j>> /\ d \in Visitors
        BY <1>2 DEF RoomTypes
      <4>2. d = <<d[1], d[2]>>
        BY <4>1, Pairs
      <4>3. ASSUME d[1] = n PROVE FALSE
        <5>1. <<n, d[2]>> \in there /\ d[2] # j
          BY <4>1, <4>2, <4>3
        <5>2. d[2] \in Room!JidsOf(n) /\ conn[d[2]] > 0
          BY <1>10, <5>1
        <5>3. PICK k \in Room!JidsOf(n) : k # j /\ conn[k] > 0
          BY <5>1, <5>2
        <5>4. left[k] = 0
          BY <1>8, <1>14
        <5> QED BY <1>11, <5>3, <5>4
      <4> QED BY <1>4, <4>1, <4>3 DEF Present
    <3>2. ASSUME NEW m \in (D \ {n}) \ updated PROVE Inside(m)'
      <4>1. PICK d \in there : d[1] = m
        BY <1>4 DEF Present, Inside
      <4>2. d # <<n, j>>
        BY <4>1
      <4> QED BY <1>2, <4>1, <4>2 DEF Inside
    <3> QED BY <1>2, <1>12, <2>1, <3>1, <3>2 DEF Present
  <2>6. LookedUpAll'
    <3>1. /\ DOMAIN rc \ Nameless \subseteq chatterInfo' \cup asked'
          /\ chatterInfo' \cap Nameless = {} /\ n \notin Nameless
          /\ asked' \cap Nameless \subseteq DOMAIN rc
      BY <1>2, <1>4, <1>9, <1>14, <2>1 DEF LookedUpAll
    <3>2. ASSUME NEW v \in roomUsers'
          PROVE  \E m \in DOMAIN rc : v = <<rc[m].id, m>>
      <4>1. v \in roomUsers /\ v # <<roomChatters[n].id, n>>
        BY <1>9, <1>14
      <4>2. PICK m \in D : v = <<roomChatters[m].id, m>>
        BY <1>4, <4>1 DEF LookedUpAll
      <4> QED BY <2>1, <4>1, <4>2
    <3>3. ASSUME asked' = {}, DOMAIN rc \cap Nameless = {}
          PROVE  /\ {<<rc[m].id, m>> : m \in DOMAIN rc} \subseteq roomUsers'
                 /\ pendingChats' # << >> => Head(pendingChats') \notin DOMAIN rc
      <4>1. D \cap Nameless = {} /\ asked = {}
        BY <1>2, <2>1, <3>1, <3>3
      <4>2. /\ {<<roomChatters[m].id, m>> : m \in D} \subseteq roomUsers
            /\ pendingChats # << >> => Head(pendingChats) \notin D
        BY <1>4, <4>1 DEF LookedUpAll
      <4>3. \A m \in D \ {n} : <<rc[m].id, m>> \in roomUsers'
        BY <1>9, <1>14, <2>1, <4>2
      <4> QED BY <1>2, <2>1, <4>2, <4>3
    <3> QED BY <1>12, <3>1, <3>2, <3>3 DEF LookedUpAll
  <2> QED BY <2>2, <2>3, <2>4, <2>5, <2>6
<1>15. CASE ~gone
  <2>1. PICK usr : usr = roomChatters[n]
    OBVIOUS
  <2>2. usr \in [id : Nat, connections : [Room!JidsOf(n) -> Nat]]
    BY <1>4, <1>5, <2>1 DEF RoomTypes
  <2>3. PICK u : u = [usr EXCEPT !.connections = left]
    OBVIOUS
  <2>4. /\ u \in [id : Nat, connections : [Room!JidsOf(n) -> Nat]]
        /\ u.id = usr.id /\ u.connections = left
    BY <1>11, <2>2, <2>3
  <2>5. rc = [roomChatters EXCEPT ![n] = u]
    BY <1>9, <1>12, <1>15, <2>1, <2>3
  <2>6. /\ DOMAIN rc = D /\ rc = [m \in DOMAIN rc |-> rc[m]] /\ rc[n] = u
        /\ \A m \in D : m # n => rc[m] = roomChatters[m]
    BY <1>4, <1>5, <2>5
  <2>7. \A m \in D : rc[m].id = roomChatters[m].id
    BY <1>5, <2>1, <2>4, <2>6
  <2>8. RoomTypes'
    <3>1. ASSUME NEW m \in D
          PROVE  rc[m] \in [id : Nat, connections : [Room!JidsOf(m) -> Nat]]
      <4>1. CASE m = n
        BY <2>4, <2>6, <4>1
      <4>2. CASE m # n
        BY <1>4, <2>6, <4>2 DEF RoomTypes
      <4> QED BY <4>1, <4>2
    <3>2. pendingChats' \in Seq(Room!Persons)
      BY <1>2 DEF RoomTypes
    <3> QED BY <1>4, <1>12, <1>13, <2>6, <3>1, <3>2 DEF RoomTypes
  <2>9. Ids'
    BY <1>4, <1>12, <2>6, <2>7 DEF Ids
  <2>10. Connections'
    <3>1. ASSUME NEW m \in D, NEW k, <<m, k>> \in there'
          PROVE  rc[m].connections[k] > 0
      <4>1. CASE m # n
        BY <1>2, <1>4, <2>6, <3>1, <4>1 DEF Connections
      <4>2. CASE m = n
        <5>1. <<n, k>> \in there /\ k # j
          BY <1>2, <3>1, <4>2
        <5>2. k \in Room!JidsOf(n) /\ conn[k] > 0
          BY <1>10, <5>1
        <5> QED BY <1>11, <2>4, <2>6, <4>2, <5>1, <5>2
      <4> QED BY <4>1, <4>2
    <3>2. ASSUME NEW m \in D \ updated, NEW k \in Room!JidsOf(m)
          PROVE  rc[m].connections[k] = IF <<m, k>> \in there' THEN 1 ELSE 0
      <4>1. roomChatters[m].connections[k] = IF <<m, k>> \in there THEN 1 ELSE 0
        BY <1>4 DEF Connections
      <4>2. CASE m # n
        <5>1. <<m, k>> \in there' <=> <<m, k>> \in there
          BY <1>2, <4>2
        <5> QED BY <2>6, <4>1, <4>2, <5>1
      <4>3. CASE m = n /\ k # j
        <5>1. <<m, k>> \in there' <=> <<m, k>> \in there
          BY <1>2, <4>3
        <5> QED BY <1>6, <1>11, <2>4, <2>6, <4>1, <4>3, <5>1
      <4>4. CASE m = n /\ k = j
        <5>1. <<m, k>> \in there /\ <<m, k>> \notin there'
          BY <1>2, <4>4
        <5>2. conn[j] = 1
          BY <1>6, <4>1, <4>4, <5>1
        <5> QED BY <1>11, <2>4, <2>6, <4>4, <5>1, <5>2
      <4> QED BY <4>2, <4>3, <4>4
    <3> QED BY <1>2, <1>12, <2>6, <3>1, <3>2 DEF Connections
  <2>11. Present'
    <3>1. \A d \in there' : d[1] \in D
      BY <1>2, <1>4 DEF Present
    <3>2. ASSUME NEW m \in D \ updated PROVE Inside(m)'
      <4>1. CASE m # n
        <5>1. PICK d \in there : d[1] = m
          BY <1>4 DEF Present, Inside
        <5>2. d # <<n, j>>
          BY <4>1, <5>1
        <5> QED BY <1>2, <5>1, <5>2 DEF Inside
      <4>2. CASE m = n
        <5>1. PICK k \in Room!JidsOf(n) : left[k] # 0
          BY <1>8, <1>15
        <5>2. \A x \in Room!JidsOf(n) : conn[x] = IF <<n, x>> \in there THEN 1 ELSE 0
          BY <1>4, <1>5, <1>6, <4>2 DEF Connections
        <5>3. conn[j] = 1
          BY <1>1, <1>2, <5>2
        <5>4. k # j
          BY <1>11, <5>1, <5>3
        <5>5. <<n, k>> \in there' /\ <<n, k>>[1] = n
          BY <1>2, <1>11, <5>1, <5>2, <5>4
        <5> QED BY <4>2, <5>5 DEF Inside
      <4> QED BY <4>1, <4>2
    <3> QED BY <1>2, <1>12, <2>6, <3>1, <3>2 DEF Present
  <2>12. LookedUpAll'
    <3>1. /\ DOMAIN rc \ Nameless \subseteq chatterInfo' \cup asked'
          /\ chatterInfo' \cap Nameless = {} /\ asked' \cap Nameless \subseteq DOMAIN rc
      BY <1>2, <1>4, <1>9, <1>15, <2>6 DEF LookedUpAll
    <3>2. {<<rc[m].id, m>> : m \in DOMAIN rc} = {<<roomChatters[m].id, m>> : m \in D}
      BY <2>6, <2>7
    <3> QED BY <1>2, <1>4, <1>9, <1>12, <1>15, <2>6, <3>1, <3>2 DEF LookedUpAll
  <2> QED BY <2>8, <2>9, <2>10, <2>11, <2>12
<1> QED BY <1>14, <1>15

LEMMA ChatKeeps ==
  ASSUME RoomInv, NEW n \in Room!Persons, Room!Chat(n)
  PROVE  RoomInv'
<1> SUFFICES ASSUME "OnUser" \notin deaf
             PROVE  (RoomTypes /\ Ids /\ Connections /\ Present /\ LookedUpAll)'
  BY DEF RoomInv, Room!Chat
<1>1. /\ \/ pendingChats' = pendingChats
         \/ n \notin chatterInfo /\ pendingChats' = Append(pendingChats, n)
      /\ UNCHANGED <<there, updated, deaf, roomChatters, chatterInfo, asked, roomUsers>>
  BY DEF Room!Chat
<1>2. RoomTypes /\ Ids /\ Connections /\ Present /\ LookedUpAll
  BY DEF RoomInv
<1>3. /\ pendingChats \in Seq(Room!Persons) /\ pendingChats' \in Seq(Room!Persons)
      /\ \/ pendingChats' = pendingChats
         \/ /\ n \notin chatterInfo
            /\ Head(pendingChats') = IF pendingChats = << >> THEN n ELSE Head(pendingChats)
  BY <1>1, <1>2 DEF RoomTypes
<1>4. RoomTypes'
  BY <1>1, <1>2, <1>3 DEF RoomTypes
<1>5. Ids' /\ Connections' /\ Present'
  BY <1>1, <1>2 DEF Ids, Connections, Present, Inside
<1>6. LookedUpAll'
  <2> SUFFICES ASSUME asked = {}, DOMAIN roomChatters \cap Nameless = {}, pendingChats' # << >>
               PROVE  Head(pendingChats') \notin DOMAIN roomChatters
    BY <1>1, <1>2 DEF LookedUpAll
  <2>1. DOMAIN roomChatters \subseteq chatterInfo
    BY <1>2 DEF LookedUpAll
  <2>2. pendingChats # << >> => Head(pendingChats) \notin DOMAIN roomChatters
    BY <1>2 DEF LookedUpAll
  <2> QED BY <1>3, <2>1, <2>2
<1> QED BY <1>4, <1>5, <1>6

LEMMA NothingKeeps ==
  ASSUME RoomInv, Room!ChatOfNothing
  PROVE  RoomInv'
<1>1. /\ deaf \subseteq deaf'
      /\ UNCHANGED <<there, updated, roomChatters, chatterInfo, asked, pendingChats, roomUsers>>
  BY DEF Room!ChatOfNothing
<1> QED BY <1>1 DEF RoomInv, RoomTypes, Ids, Connections, Present, Inside, LookedUpAll

\* What is left of the messages begins with one by somebody who is not known.
LEMMA FlushedStops ==
  ASSUME NEW known, pendingChats \in Seq(Room!Persons)
  PROVE  /\ Room!Flushed(known) \in Seq(Room!Persons)
         /\ Room!Flushed(known) # << >> => Head(Room!Flushed(known)) \notin known
<1>1. PICK p \in Seq(Room!Persons) : p = pendingChats
  OBVIOUS
<1>2. PICK I : I = {i \in 1 .. Len(p) : p[i] \notin known}
  OBVIOUS
<1>3. PICK first : first = Room!SelectInSeq(pendingChats, LAMBDA n : n \notin known)
  OBVIOUS
<1>4. first = IF I # {} THEN Room!Min(I) ELSE 0
  BY <1>1, <1>2, <1>3 DEF Room!SelectInSeq
<1>5. Room!Flushed(known) = IF first = 0 THEN << >> ELSE SubSeq(p, first, Len(p))
  BY <1>1, <1>3 DEF Room!Flushed
<1>6. CASE I = {}
  BY <1>4, <1>5, <1>6
<1>7. CASE I # {}
  <2>1. I \in SUBSET Nat
    BY <1>2
  <2>2. \E i \in I : \A j \in I : i <= j
    BY <1>7, <2>1, FirstOf
  <2>3. Room!Min(I) \in I
    BY <2>2 DEF Room!Min
  <2>4. first \in 1 .. Len(p) /\ p[first] \notin known
    BY <1>2, <1>4, <1>7, <2>3
  <2>5. SubSeq(p, first, Len(p)) \in Seq(Room!Persons) /\ Head(SubSeq(p, first, Len(p))) = p[first]
    BY <2>4
  <2> QED BY <1>5, <2>4, <2>5
<1> QED BY <1>6, <1>7

LEMMA LookedUpKeeps ==
  ASSUME RoomInv, NEW n \in Room!Persons, Room!LookedUp(n)
  PROVE  RoomInv'
<1> SUFFICES ASSUME "OnUser" \notin deaf
             PROVE  (RoomTypes /\ Ids /\ Connections /\ Present /\ LookedUpAll)'
  BY DEF RoomInv, Room!LookedUp
<1>1. PICK known : known = chatterInfo \cup {n}
  OBVIOUS
<1>2. /\ asked' = asked \ {n} /\ chatterInfo' = known /\ n \notin Nameless
      /\ UNCHANGED <<there, updated, deaf, roomChatters>>
      /\ IF DOMAIN roomChatters \subseteq known
         THEN /\ roomUsers' = {<<roomChatters[m].id, m>> : m \in DOMAIN roomChatters}
              /\ pendingChats' = Room!Flushed(known)
         ELSE UNCHANGED <<roomUsers, pendingChats>>
  BY <1>1 DEF Room!LookedUp
<1>3. RoomTypes /\ Ids /\ Connections /\ Present /\ LookedUpAll
  BY DEF RoomInv
<1>4. /\ Room!Flushed(known) \in Seq(Room!Persons)
      /\ Room!Flushed(known) # << >> => Head(Room!Flushed(known)) \notin known
  BY <1>3, FlushedStops DEF RoomTypes
<1>5. RoomTypes'
  <2>1. pendingChats' \in Seq(Room!Persons)
    BY <1>2, <1>3, <1>4 DEF RoomTypes
  <2> QED BY <1>2, <1>3, <2>1 DEF RoomTypes
<1>6. Ids' /\ Connections' /\ Present'
  BY <1>2, <1>3 DEF Ids, Connections, Present, Inside
<1>7. LookedUpAll'
  <2>1. /\ DOMAIN roomChatters \ Nameless \subseteq chatterInfo' \cup asked'
        /\ chatterInfo' \cap Nameless = {}
        /\ asked' \cap Nameless \subseteq DOMAIN roomChatters
    BY <1>1, <1>2, <1>3 DEF LookedUpAll
  <2>2. roomUsers' \subseteq {<<roomChatters[m].id, m>> : m \in DOMAIN roomChatters}
    BY <1>2, <1>3 DEF LookedUpAll
  <2>3. ASSUME asked' = {}, DOMAIN roomChatters \cap Nameless = {}
        PROVE  /\ {<<roomChatters[m].id, m>> : m \in DOMAIN roomChatters} \subseteq roomUsers'
               /\ pendingChats' # << >> => Head(pendingChats') \notin DOMAIN roomChatters
    <3>1. DOMAIN roomChatters \subseteq known
      BY <1>2, <2>1, <2>3
    <3> QED BY <1>2, <1>4, <3>1
  <2> QED BY <1>2, <2>1, <2>2, <2>3 DEF LookedUpAll
<1> QED BY <1>5, <1>6, <1>7

LEMMA LookUpFailsKeeps ==
  ASSUME RoomInv, NEW n \in Room!Persons, Room!LookUpFails(n)
  PROVE  RoomInv'
<1> SUFFICES ASSUME "OnUser" \notin deaf
             PROVE  (RoomTypes /\ Ids /\ Connections /\ Present /\ LookedUpAll)'
  BY DEF RoomInv, Room!LookUpFails
<1>1. /\ n \in asked \cap Nameless /\ asked' = asked \ {n}
      /\ UNCHANGED <<there, updated, deaf, roomChatters, chatterInfo, pendingChats, roomUsers>>
  BY DEF Room!LookUpFails
<1>2. RoomTypes /\ Ids /\ Connections /\ Present /\ LookedUpAll
  BY DEF RoomInv
<1>3. RoomTypes' /\ Ids' /\ Connections' /\ Present'
  BY <1>1, <1>2 DEF RoomTypes, Ids, Connections, Present, Inside
<1>4. LookedUpAll'
  <2>1. n \in DOMAIN roomChatters \cap Nameless
    BY <1>1, <1>2 DEF LookedUpAll
  <2>2. /\ DOMAIN roomChatters \ Nameless \subseteq chatterInfo \cup asked'
        /\ asked' \cap Nameless \subseteq DOMAIN roomChatters
    BY <1>1, <1>2 DEF LookedUpAll
  <2> QED BY <1>1, <1>2, <2>1, <2>2 DEF LookedUpAll
<1> QED BY <1>3, <1>4

LEMMA RoomInitially == Room!Init => RoomInv
<1> SUFFICES ASSUME Room!Init PROVE RoomTypes /\ Ids /\ Connections /\ Present /\ LookedUpAll
  BY DEF RoomInv
<1>1. /\ there = {} /\ chatterInfo = {} /\ asked = {} /\ pendingChats = << >> /\ roomUsers = {}
      /\ roomChatters = [x \in {} |-> x]
  BY DEF Room!Init, Room!None
<1>2. DOMAIN roomChatters = {} /\ roomChatters = [x \in DOMAIN roomChatters |-> roomChatters[x]]
  BY <1>1
<1>3. RoomTypes
  BY <1>1, <1>2 DEF RoomTypes
<1>4. {<<roomChatters[n].id, n>> : n \in DOMAIN roomChatters} = {}
  BY <1>2
<1> QED BY <1>1, <1>2, <1>3, <1>4 DEF Ids, Connections, Present, LookedUpAll

RoomRight == which = "JabbaRoom" => RoomInv

LEMMA RoomHolds == PartsSpec => []RoomRight
<1>1. PartsInit => RoomRight
  BY RoomInitially DEF PartsInit, RoomRight
<1>2. RoomRight /\ [PartsNext]_partVars => RoomRight'
  <2> SUFFICES ASSUME RoomRight, [PartsNext]_partVars, which' = "JabbaRoom"
               PROVE  RoomInv'
    BY DEF RoomRight
  <2>1. which = "JabbaRoom"
    BY DEF PartsNext, partVars
  <2>2. RoomInv
    BY <2>1 DEF RoomRight
  <2>3. CASE UNCHANGED <<there, updated, stanzas, deaf, roomChatters, chatterInfo, asked,
                         pendingChats, roomUsers>>
    BY <2>2, <2>3
       DEF RoomInv, RoomTypes, Ids, Connections, Present, Inside, LookedUpAll
  <2>4. CASE Room!Next
    <3>1. CASE Room!LogIn \/ Room!Connected
      BY <2>3, <3>1 DEF Room!LogIn, Room!Connected, Room!roomVars
    <3>2. ASSUME NEW c \in Visitors,
                 Room!UserConnect(c[1], c[2]) \/ Room!UserDisconnect(c[1], c[2])
          PROVE  RoomInv'
      BY <2>2, <3>2, UserConnectKeeps, UserDisconnectKeeps
    <3>3. ASSUME NEW n \in Room!Persons,
                 Room!Chat(n) \/ Room!LookedUp(n) \/ Room!LookUpFails(n)
          PROVE  RoomInv'
      BY <2>2, <3>3, ChatKeeps, LookedUpKeeps, LookUpFailsKeeps
    <3> QED BY <2>2, <2>4, <3>1, <3>2, <3>3, NothingKeeps DEF Room!Next
  <2> QED BY <2>1, <2>3, <2>4 DEF PartsNext, partVars, roomVars
<1> QED BY <1>1, <1>2, PTL DEF PartsSpec

\* The page of JabbaChat: when the directory has answered every query and nobody left
\* before having been looked up, nobody is in the list beside the chat who has gone, but
\* for those who sent another presence, each has a number of his own, and unless
\* somebody without a real name is there all are listed who are there, and the messages
\* that wait begin with one by somebody who is not.  For any number of visitors,
\* connections and stanzas.
THEOREM RoomListsThoseThere == PartsSpec => []RoomAgrees
<1>1. RoomRight => RoomAgrees
  <2> SUFFICES ASSUME RoomInv, asked = {}, "OnUser" \notin deaf
               PROVE  /\ \A n \in Room!Persons \ updated :
                           (\E u \in roomUsers : u[2] = n) => \E c \in there : c[1] = n
                      /\ \A u, v \in roomUsers : u[1] = v[1] <=> u[2] = v[2]
                      /\ DOMAIN roomChatters \cap Nameless = {} =>
                           /\ \A c \in there : c[1] \in updated \/ \E u \in roomUsers : u[2] = c[1]
                           /\ pendingChats # << >> => Head(pendingChats) \notin DOMAIN roomChatters
    BY DEF RoomRight, RoomAgrees, Room!RoomAgrees
  <2>1. RoomTypes /\ Ids /\ Connections /\ Present /\ LookedUpAll
    BY DEF RoomInv
  <2>2. \A u \in roomUsers : \E n \in DOMAIN roomChatters : u = <<roomChatters[n].id, n>>
    BY <2>1 DEF LookedUpAll
  <2>3. ASSUME NEW n \in Room!Persons \ updated, NEW u \in roomUsers, u[2] = n
        PROVE  Inside(n)
    <3>1. n \in DOMAIN roomChatters
      BY <2>2, <2>3
    <3> QED BY <2>1, <3>1 DEF Present
  <2>4. ASSUME NEW u \in roomUsers, NEW v \in roomUsers
        PROVE  u[1] = v[1] <=> u[2] = v[2]
    BY <2>1, <2>2 DEF Ids
  <2>5. ASSUME DOMAIN roomChatters \cap Nameless = {}
        PROVE  /\ \A c \in there : \E u \in roomUsers : u[2] = c[1]
               /\ pendingChats # << >> => Head(pendingChats) \notin DOMAIN roomChatters
    <3>1. /\ \A n \in DOMAIN roomChatters : <<roomChatters[n].id, n>> \in roomUsers
          /\ pendingChats # << >> => Head(pendingChats) \notin DOMAIN roomChatters
      BY <2>1, <2>5 DEF LookedUpAll
    <3>2. ASSUME NEW c \in there
          PROVE  \E u \in roomUsers : u[2] = c[1]
      <4>1. c[1] \in DOMAIN roomChatters
        BY <2>1 DEF Present
      <4>2. <<roomChatters[c[1]].id, c[1]>>[2] = c[1]
        OBVIOUS
      <4> QED BY <3>1, <4>1, <4>2
    <3> QED BY <3>1, <3>2
  <2> QED BY <2>3, <2>4, <2>5 DEF Inside
<1> QED BY <1>1, RoomHolds, PTL
-----------------------------------------------------------------------------
(***************************************************************************)
(* Directory.                                                              *)
(***************************************************************************)

Digits == 0 .. Letters - 1

\* Of two numbers with as many digits, the lowest digit first: t is not above ids.
UpTo(t, ids) ==
  \A i \in 1 .. Len(ids) : (\A j \in 1 .. Len(ids) : i < j => t[j] = ids[j]) => t[i] <= ids[i]

\* The numbers that came up until ids did.
Counted(t, ids) ==
  /\ t # << >>
  /\ Len(t) < Len(ids) \/ (Len(t) = Len(ids) /\ UpTo(t, ids))

\* The ids of the pings are the numbers up to the present one, and as many as pings.
Issued ==
  /\ indices \in Seq(Digits)
  /\ issued \subseteq Seq(Digits)
  /\ \A s \in Seq(Digits) : s \in issued <=> Counted(Dir!Reverse(s), indices)
  /\ IsFiniteSet(issued)
  /\ Cardinality(issued) = pings

\* The highest place where two numbers differ.
LEMMA HighestPlace ==
  ASSUME NEW t \in Seq(Digits), NEW u \in Seq(Digits), Len(t) = Len(u), t # u
  PROVE  \E i \in 1 .. Len(u) : t[i] # u[i] /\ \A j \in 1 .. Len(u) : i < j => t[j] = u[j]
<1>1. PICK n \in Nat : n = Len(u) /\ n = Len(t)
  OBVIOUS
<1>2. PICK S : S = {d \in 0 .. n - 1 : t[n - d] # u[n - d]}
  OBVIOUS
<1>3. PICK k \in 1 .. n : t[k] # u[k]
  BY <1>1
<1>4. n - k \in S
  <2>1. n - k \in 0 .. n - 1 /\ n - (n - k) = k
    BY <1>1, <1>3
  <2> QED BY <1>2, <1>3, <2>1
<1>5. S \in SUBSET Nat /\ S # {}
  <2>1. 0 .. n - 1 \subseteq Nat
    OBVIOUS
  <2> QED BY <1>2, <1>4, <2>1
<1>6. PICK d \in S : \A e \in S : d <= e
  BY <1>5, FirstOf
<1>7. d \in 0 .. n - 1 /\ t[n - d] # u[n - d]
  BY <1>2, <1>6
<1>8. ASSUME NEW j \in 1 .. n, n - d < j
      PROVE  t[j] = u[j]
  <2>1. n - j \in 0 .. n - 1 /\ n - (n - j) = j /\ n - j < d
    BY <1>1, <1>7, <1>8
  <2>2. n - j \notin S
    BY <1>6, <1>7, <2>1
  <2> QED BY <1>2, <2>1, <2>2
<1>9. PICK i \in 1 .. n : i = n - d
  BY <1>1, <1>7
<1>10. t[i] # u[i] /\ \A j \in 1 .. n : i < j => t[j] = u[j]
  BY <1>7, <1>8, <1>9
<1> QED BY <1>1, <1>10

LEMMA Backwards ==
  ASSUME NEW D, NEW s \in Seq(D)
  PROVE  /\ Dir!Reverse(s) \in Seq(D)
         /\ Len(Dir!Reverse(s)) = Len(s)
         /\ Dir!Reverse(Dir!Reverse(s)) = s
<1>1. PICK n \in Nat : n = Len(s)
  OBVIOUS
<1>2. PICK r : r = Dir!Reverse(s)
  OBVIOUS
<1>3. r = [i \in 1 .. n |-> s[(n - i) + 1]]
  BY <1>1, <1>2 DEF Dir!Reverse
<1>4. \A i \in 1 .. n : (n - i) + 1 \in 1 .. n /\ (n - ((n - i) + 1)) + 1 = i
  BY <1>1
<1>5. r \in Seq(D) /\ Len(r) = n
  BY <1>1, <1>3, <1>4
<1>6. Dir!Reverse(r) = [i \in 1 .. n |-> r[(n - i) + 1]]
  BY <1>5 DEF Dir!Reverse
<1>7. \A i \in 1 .. n : r[(n - i) + 1] = s[i]
  BY <1>3, <1>4
<1>8. Dir!Reverse(r) \in Seq(D) /\ Len(Dir!Reverse(r)) = n /\ \A i \in 1 .. n : Dir!Reverse(r)[i] = s[i]
  BY <1>1, <1>6, <1>7
<1> QED BY <1>1, <1>2, <1>5, <1>8

\* NextId counts: the next number is a new one, and all that came up before, with it,
\* are the numbers up to it.
LEMMA NextIdCounts ==
  ASSUME NEW ids \in Seq(Digits), NEW next, next = Dir!NextId(ids)
  PROVE  /\ next \in Seq(Digits)
         /\ ~Counted(next, ids)
         /\ \A t \in Seq(Digits) : Counted(t, next) <=> Counted(t, ids) \/ t = next
<1>0. Letters \in Nat \ {0}
  BY PartsAssumption
<1> USE <1>0 DEF Digits
<1>1. PICK n \in Nat : n = Len(ids)
  OBVIOUS
<1>2. \A i \in 1 .. n : ids[i] \in 0 .. Letters - 1
  BY <1>1
<1>3. PICK I : I = {i \in 1 .. n : ids[i] # Letters - 1}
  OBVIOUS
<1>4. PICK k : k = Dir!SelectInSeq(ids, LAMBDA d : d # Letters - 1)
  OBVIOUS
<1>5. k = IF I # {} THEN Dir!Min(I) ELSE 0
  BY <1>1, <1>3, <1>4 DEF Dir!SelectInSeq
<1>6. DOMAIN ids = 1 .. n
  BY <1>1
<1>9. next = IF k = 0 THEN [i \in 1 .. n + 1 |-> 0]
             ELSE [i \in 1 .. n |-> IF i < k THEN 0 ELSE IF i = k THEN ids[i] + 1 ELSE ids[i]]
  BY <1>1, <1>4, <1>6 DEF Dir!NextId
<1>7. CASE I = {}
  <2>1. next \in Seq(Digits) /\ Len(next) = n + 1 /\ \A i \in 1 .. n + 1 : next[i] = 0
    <3>1. next = [i \in 1 .. n + 1 |-> 0]
      BY <1>5, <1>7, <1>9
    <3>2. 0 \in Digits /\ n + 1 \in Nat
      OBVIOUS
    <3>3. next \in [1 .. n + 1 -> Digits]
      BY <3>1, <3>2
    <3> QED BY <3>1, <3>2, <3>3
  <2>2. ~Counted(next, ids)
    BY <1>1, <2>1 DEF Counted
  <2>3. ASSUME NEW t \in Seq(Digits)
        PROVE  Counted(t, next) <=> Counted(t, ids) \/ t = next
    <3>1. Len(t) = n => UpTo(t, ids)
      <4> SUFFICES ASSUME Len(t) = n, NEW i \in 1 .. n PROVE t[i] <= ids[i]
        BY <1>1 DEF UpTo
      <4>1. ids[i] = Letters - 1
        BY <1>3, <1>7
      <4>2. DOMAIN t = 1 .. n
        OBVIOUS
      <4>3. t[i] \in 0 .. Letters - 1
        BY <4>2
      <4> QED BY <4>1, <4>3
    <3>2. ASSUME Len(t) = n + 1, UpTo(t, next), t # next
          PROVE  FALSE
      <4>1. PICK i \in 1 .. n + 1 : t[i] # next[i] /\ \A j \in 1 .. n + 1 : i < j => t[j] = next[j]
        <5>1. Len(t) = Len(next) /\ Len(next) = n + 1
          BY <2>1, <3>2
        <5>2. \E i \in 1 .. Len(next) :
                t[i] # next[i] /\ \A j \in 1 .. Len(next) : i < j => t[j] = next[j]
          <6> HIDE DEF Digits
          <6> QED BY <2>1, <3>2, <5>1, HighestPlace
        <5> QED BY <5>1, <5>2
      <4>2. t[i] <= 0 /\ t[i] # 0
        BY <2>1, <3>2, <4>1 DEF UpTo
      <4>3. t[i] \in 0 .. Letters - 1
        BY <3>2
      <4> QED BY <4>2, <4>3
    <3>3. UpTo(next, next)
      BY <2>1 DEF UpTo
    <3>4. Len(t) \in Nat
      OBVIOUS
    <3>5. ASSUME Counted(t, next)
          PROVE  Counted(t, ids) \/ t = next
      <4>1. t # << >> /\ (Len(t) < n + 1 \/ (Len(t) = n + 1 /\ UpTo(t, next)))
        BY <2>1, <3>5 DEF Counted
      <4>2. CASE Len(t) < n + 1
        <5>1. Len(t) < n \/ Len(t) = n
          BY <3>4, <4>2
        <5> QED BY <1>1, <3>1, <4>1, <5>1 DEF Counted
      <4>3. CASE Len(t) = n + 1 /\ UpTo(t, next)
        BY <3>2, <4>3
      <4> QED BY <4>1, <4>2, <4>3
    <3>6. ASSUME Counted(t, ids)
          PROVE  Counted(t, next)
      <4>1. t # << >> /\ Len(t) < n + 1
        BY <1>1, <3>4, <3>6 DEF Counted
      <4> QED BY <2>1, <4>1 DEF Counted
    <3>7. Counted(next, next)
      <4>1. next # << >>
        BY <2>1
      <4> QED BY <3>3, <4>1 DEF Counted
    <3> QED BY <3>5, <3>6, <3>7
  <2> QED BY <2>1, <2>2, <2>3
<1>8. CASE I # {}
  <2>1. k \in 1 .. n /\ ids[k] # Letters - 1 /\ \A i \in 1 .. n : i < k => ids[i] = Letters - 1
    <3>1. I \in SUBSET Nat
      BY <1>3
    <3>2. \E i \in I : \A j \in I : i <= j
      BY <1>8, <3>1, FirstOf
    <3>3. Dir!Min(I) \in I /\ \A j \in I : Dir!Min(I) <= j
      BY <3>2 DEF Dir!Min
    <3>4. k \in I /\ \A j \in I : k <= j
      BY <1>5, <1>8, <3>3
    <3> QED BY <1>3, <3>4
  <2>2. ids[k] \in 0 .. Letters - 2
    BY <1>2, <2>1
  <2>3. next = [i \in 1 .. n |-> IF i < k THEN 0 ELSE IF i = k THEN ids[i] + 1 ELSE ids[i]]
    BY <1>9, <2>1
  <2>4. \A i \in 1 .. n : /\ i < k => next[i] = 0
                          /\ i = k => next[i] = ids[k] + 1
                          /\ k < i => next[i] = ids[i]
    BY <2>1, <2>3
  <2>5. next \in Seq(Digits) /\ Len(next) = n
    <3>1. \A i \in 1 .. n : next[i] \in 0 .. Letters - 1
      <4> SUFFICES ASSUME NEW i \in 1 .. n PROVE next[i] \in 0 .. Letters - 1
        OBVIOUS
      <4>1. CASE i < k
        BY <2>4, <4>1
      <4>2. CASE i = k
        BY <2>2, <2>4, <4>2
      <4>3. CASE k < i
        BY <1>2, <2>4, <4>3
      <4> QED BY <2>1, <4>1, <4>2, <4>3
    <3>2. next \in [1 .. n -> Digits]
      BY <2>3, <3>1
    <3> QED BY <3>2
  <2>6. ~Counted(next, ids)
    <3>1. \A j \in 1 .. n : k < j => next[j] = ids[j]
      BY <2>1, <2>4
    <3>2. ~(next[k] <= ids[k])
      BY <2>1, <2>2, <2>4
    <3>3. ~UpTo(next, ids)
      BY <1>1, <2>1, <3>1, <3>2 DEF UpTo
    <3> QED BY <1>1, <2>5, <3>3 DEF Counted
  <2>7. ASSUME NEW t \in Seq(Digits), Len(t) = n
        PROVE  UpTo(t, next) <=> UpTo(t, ids) \/ t = next
    <3>1. \A i \in 1 .. n : t[i] \in 0 .. Letters - 1
      BY <2>7
    <3>2. UpTo(next, next)
      <4>1. \A i \in 1 .. n : next[i] \in Int
        BY <2>5
      <4> QED BY <2>5, <4>1 DEF UpTo
    <3>3. ASSUME UpTo(t, ids), NEW i \in 1 .. n, \A j \in 1 .. n : i < j => t[j] = next[j]
          PROVE  t[i] <= next[i]
      <4>1. CASE k < i
        <5>1. \A j \in 1 .. n : i < j => t[j] = ids[j]
          BY <2>1, <2>4, <3>3, <4>1
        <5> QED BY <1>1, <2>4, <3>3, <4>1, <5>1 DEF UpTo
      <4>2. CASE i <= k
        <5>1. \A j \in 1 .. n : k < j => t[j] = ids[j]
          BY <2>1, <2>4, <3>3, <4>2
        <5>2. t[k] <= ids[k]
          BY <1>1, <2>1, <3>3, <5>1 DEF UpTo
        <5>3. i = k
          <6>1. ASSUME i < k PROVE FALSE
            <7>1. t[k] = next[k]
              BY <2>1, <3>3, <6>1
            <7> QED BY <2>1, <2>2, <2>4, <5>2, <7>1
          <6> QED BY <2>1, <4>2, <6>1
        <5> QED BY <2>1, <2>2, <2>4, <3>1, <5>2, <5>3
      <4> QED BY <2>1, <4>1, <4>2
    <3>4. ASSUME UpTo(t, next), t # next, NEW i \in 1 .. n, \A j \in 1 .. n : i < j => t[j] = ids[j]
          PROVE  t[i] <= ids[i]
      <4>1. CASE i < k
        BY <2>1, <3>1, <4>1
      <4>2. CASE k < i
        <5>1. \A j \in 1 .. n : i < j => t[j] = next[j]
          BY <2>1, <2>4, <3>4, <4>2
        <5> QED BY <2>4, <2>5, <3>4, <4>2, <5>1 DEF UpTo
      <4>3. CASE i = k
        <5>1. \A j \in 1 .. n : k < j => t[j] = next[j]
          BY <2>1, <2>4, <3>4, <4>3
        <5>2. t[k] <= next[k]
          BY <2>1, <2>5, <3>4, <5>1 DEF UpTo
        <5>3. PICK m \in 1 .. n : t[m] # next[m] /\ \A j \in 1 .. n : m < j => t[j] = next[j]
          <6>1. next \in Seq(Digits) /\ Len(t) = Len(next) /\ t # next
            BY <2>5, <2>7, <3>4
          <6>2. \E x \in 1 .. Len(next) :
                  t[x] # next[x] /\ \A j \in 1 .. Len(next) : x < j => t[j] = next[j]
            <7> HIDE DEF Digits
            <7> QED BY <6>1, HighestPlace
          <6> QED BY <2>5, <6>2
        <5>4. t[m] <= next[m]
          BY <2>5, <3>4, <5>3 DEF UpTo
        <5>5. ~(m < k)
          <6>1. ASSUME m < k PROVE FALSE
            <7>1. next[m] = 0
              BY <2>4, <6>1
            <7> QED BY <3>1, <5>3, <5>4, <7>1
          <6> QED BY <6>1
        <5>6. ~(k < m)
          BY <2>1, <5>1, <5>3
        <5>7. m = k
          BY <2>1, <5>5, <5>6
        <5>8. next[k] = ids[k] + 1 /\ t[k] # next[k] /\ t[k] \in 0 .. Letters - 1
          BY <2>1, <2>4, <3>1, <5>3, <5>7
        <5> QED BY <2>2, <4>3, <5>2, <5>8
      <4> QED BY <2>1, <4>1, <4>2, <4>3
    <3>5. UpTo(t, ids) => UpTo(t, next)
      BY <2>5, <3>3 DEF UpTo
    <3>6. UpTo(t, next) /\ t # next => UpTo(t, ids)
      BY <1>1, <3>4 DEF UpTo
    <3> QED BY <3>2, <3>5, <3>6
  <2>8. next # << >>
    BY <2>1, <2>5
  <2>9. ASSUME NEW t \in Seq(Digits)
        PROVE  Counted(t, next) <=> Counted(t, ids) \/ t = next
    BY <1>1, <2>5, <2>7, <2>8 DEF Counted
  <2> QED BY <2>5, <2>6, <2>9
<1> QED BY <1>7, <1>8

LEMMA DirCardinality == \A S : Dir!Cardinality(S) = Cardinality(S)
BY DEF Dir!Cardinality, Cardinality

DirInv == pings \in Nat /\ Issued

LEMMA DirInitially == Dir!Init => DirInv
<1> SUFFICES ASSUME Dir!Init PROVE DirInv
  OBVIOUS
<1>1. indices = << >> /\ issued = {} /\ pings = 0
  BY DEF Dir!Init
<1>2. ASSUME NEW s \in Seq(Digits) PROVE ~Counted(Dir!Reverse(s), indices)
  <2>1. PICK t \in Seq(Digits) : t = Dir!Reverse(s)
    BY Backwards
  <2>2. Len(t) \in Nat /\ (Len(t) = 0 => t = << >>)
    OBVIOUS
  <2> QED BY <1>1, <2>1, <2>2 DEF Counted
<1>3. IsFiniteSet({}) /\ Cardinality({}) = 0
  BY FS_EmptySet
<1> QED BY <1>1, <1>2, <1>3 DEF DirInv, Issued

LEMMA PingKeeps ==
  ASSUME DirInv, Dir!Ping
  PROVE  DirInv'
<1>1. Issued /\ pings \in Nat
  BY DEF DirInv
<1>2. PICK ids \in Seq(Digits) : ids = indices
  BY <1>1 DEF Issued
<1>3. PICK next : next = Dir!NextId(ids)
  OBVIOUS
<1>4. /\ indices' = next /\ pings' = pings + 1
      /\ issued' = issued \cup {Dir!Reverse(next)}
  BY <1>2, <1>3 DEF Dir!Ping, Dir!Current
<1>5. /\ next \in Seq(Digits)
      /\ ~Counted(next, ids)
      /\ \A t \in Seq(Digits) : Counted(t, next) <=> Counted(t, ids) \/ t = next
  BY <1>3, NextIdCounts
<1>6. PICK id \in Seq(Digits) : id = Dir!Reverse(next) /\ Dir!Reverse(id) = next
  BY <1>5, Backwards
<1>7. id \notin issued
  BY <1>1, <1>2, <1>5, <1>6 DEF Issued
<1>8. ASSUME NEW s \in Seq(Digits)
      PROVE  s \in issued' <=> Counted(Dir!Reverse(s), next)
  <2>1. PICK t \in Seq(Digits) : t = Dir!Reverse(s) /\ Dir!Reverse(t) = s
    BY Backwards
  <2>2. s \in issued <=> Counted(t, ids)
    BY <1>1, <1>2, <2>1 DEF Issued
  <2>3. s = id <=> t = next
    BY <1>6, <2>1
  <2> QED BY <1>4, <1>5, <1>6, <2>1, <2>2, <2>3
<1>9. IsFiniteSet(issued') /\ Cardinality(issued') = pings'
  <2>1. IsFiniteSet(issued) /\ Cardinality(issued) = pings
    BY <1>1 DEF Issued
  <2>2. IsFiniteSet(issued \cup {id}) /\ Cardinality(issued \cup {id}) = Cardinality(issued) + 1
    BY <1>7, <2>1, FS_AddElement
  <2> QED BY <1>4, <1>6, <2>1, <2>2
<1>10. issued' \subseteq Seq(Digits)
  BY <1>1, <1>4, <1>6 DEF Issued
<1>11. Issued'
  BY <1>4, <1>5, <1>8, <1>9, <1>10 DEF Issued
<1> QED BY <1>1, <1>4, <1>11 DEF DirInv

DirRight == which = "Directory" => DirInv

LEMMA DirHolds == PartsSpec => []DirRight
<1>1. PartsInit => DirRight
  BY DirInitially DEF PartsInit, DirRight
<1>2. DirRight /\ [PartsNext]_partVars => DirRight'
  <2> SUFFICES ASSUME DirRight, [PartsNext]_partVars, which' = "Directory"
               PROVE  DirInv'
    BY DEF DirRight
  <2>1. which = "Directory"
    BY DEF PartsNext, partVars
  <2>2. DirInv
    BY <2>1 DEF DirRight
  <2>3. CASE UNCHANGED <<indices, issued, pings>>
    BY <2>2, <2>3 DEF DirInv, Issued
  <2>4. CASE Dir!Next
    BY <2>2, <2>3, <2>4, PingKeeps DEF Dir!Next, Dir!Online, Dir!Offline
  <2> QED BY <2>1, <2>3, <2>4 DEF PartsNext, partVars, dirVars
<1> QED BY <1>1, <1>2, PTL DEF PartsSpec

\* The directory's component/server.js: no two pings have the same id, however many
\* timers run, and an id has a digit more only when all shorter ones are used up.  For
\* an alphabet of any size, any number of pings and reconnects.
THEOREM PingsToldApart == PartsSpec => []PingsDistinct
<1>1. DirRight => PingsDistinct
  <2> SUFFICES ASSUME DirInv
               PROVE  /\ Cardinality(issued) = pings
                      /\ \A id \in issued : \A n \in 1 .. Len(id) - 1 :
                           \A shorter \in [1 .. n -> Digits] : shorter \in issued
    BY DirCardinality DEF DirRight, PingsDistinct, Dir!PingsDistinct, Digits
  <2>1. Issued
    BY DEF DirInv
  <2>2. ASSUME NEW id \in issued, NEW n \in 1 .. Len(id) - 1, NEW shorter \in [1 .. n -> Digits]
        PROVE  shorter \in issued
    <3>1. id \in Seq(Digits) /\ Counted(Dir!Reverse(id), indices)
      BY <2>1 DEF Issued
    <3>2. PICK k \in Nat : k = Len(id)
      BY <3>1
    <3>3. Len(Dir!Reverse(id)) = k
      BY <3>1, <3>2, Backwards
    <3>4. k <= Len(indices)
      BY <2>1, <3>1, <3>2, <3>3 DEF Counted, Issued
    <3>5. n \in Nat /\ n > 0 /\ n < k
      BY <3>2
    <3>6. shorter \in Seq(Digits) /\ Len(shorter) = n
      BY <3>5
    <3>7. PICK t \in Seq(Digits) : t = Dir!Reverse(shorter) /\ Len(t) = n
      BY <3>6, Backwards
    <3>8. t # << >>
      BY <3>5, <3>7
    <3>9. Len(t) < Len(indices)
      BY <2>1, <3>4, <3>5, <3>7 DEF Issued
    <3>10. Counted(t, indices)
      BY <3>8, <3>9 DEF Counted
    <3> QED BY <2>1, <3>6, <3>7, <3>10 DEF Issued
  <2> QED BY <2>1, <2>2 DEF Issued
<1> QED BY <1>1, DirHolds, PTL
-----------------------------------------------------------------------------
(***************************************************************************)
(* Lifecycle, for any number of teams and calls of start().                *)
(***************************************************************************)

LifeInv == TypeOK /\ LifecycleInv

LEMMA LifeInitially == Init => LifeInv
<1> SUFFICES ASSUME Init PROVE LifeInv
  OBVIOUS
<1>1. TypeOK
  BY DEF Init, TypeOK
<1>2. LifecycleInv
  BY DEF Init, LifecycleInv
<1> QED BY <1>1, <1>2 DEF LifeInv

LEMMA LifeKeeps == LifeInv /\ [Next]_vars => LifeInv'
<1> SUFFICES ASSUME LifeInv, [Next]_vars PROVE LifeInv'
  OBVIOUS
<1> USE DEF LifeInv, TypeOK, LifecycleInv
<1>1. ASSUME NEW t \in Teams, AddTeam(t) PROVE LifeInv'
  <2>1. TypeOK'
    <3>1. late' \in BOOLEAN
      BY <1>1, Zenon DEF AddTeam
    <3> QED BY <1>1, <3>1 DEF AddTeam
  <2>2. t \in teams \/ listeners = 0 \/ late'
    <3>1. listeners = 0 \/ listeners > 0
      OBVIOUS
    <3> QED BY <1>1, <3>1, Zenon DEF AddTeam
  <2>3. LifecycleInv'
    BY <1>1, <2>2 DEF AddTeam
  <2> QED BY <2>1, <2>3
<1>2. CASE Start
  <2>1. TypeOK'
    <3>1. alive' \in BOOLEAN
      BY <1>2, Zenon DEF Start
    <3>2. vizTeams' \subseteq Teams
      BY <1>2 DEF Start
    <3> QED BY <1>2, <3>1, <3>2 DEF Start
  <2>2. LifecycleInv'
    BY <1>2 DEF Start
  <2> QED BY <2>1, <2>2
<1>3. CASE Restored
  <2>1. listeners * listeners \in Nat /\ (listeners = 1 => listeners * listeners = 1)
    OBVIOUS
  <2>2. TypeOK'
    <3>1. alive' \in BOOLEAN
      BY <1>3, Zenon DEF Restored
    <3> QED BY <1>3, <2>1, <3>1 DEF Restored
  <2>3. listeners # 0
    BY <1>3 DEF Restored
  <2>4. LifecycleInv'
    <3>1. listeners * listeners > 0
      BY <2>3
    <3> QED BY <1>3, <2>1, <2>3, <3>1 DEF Restored
  <2> QED BY <2>2, <2>4
<1>4. CASE PlantFlags
  BY <1>4 DEF PlantFlags
<1>5. CASE StopFlags
  <2>1. /\ stored' = FALSE
        /\ stored => pairs' = pairs - 1
        /\ ~stored => pairs' = pairs
        /\ UNCHANGED <<conf, alive, listeners, restoring, teams, vizTeams, planted, late>>
    BY <1>5 DEF StopFlags
  <2>2. LifecycleInv'
    BY <2>1
  <2>3. pairs' \in Nat
    BY <2>1
  <2>4. TypeOK'
    BY <2>1, <2>3
  <2> QED BY <2>2, <2>4
<1>6. CASE UNCHANGED vars
  BY <1>6 DEF vars
<1> QED BY <1>1, <1>2, <1>3, <1>4, <1>5, <1>6 DEF Next

\* A daemon that was started once can be stopped, whenever that is, and its
\* visualisation knows every team it was given before.
THEOREM DaemonStaysInHand == Spec \/ PartsSpec => []DaemonInHand
<1>1. LifeInv => DaemonInHand
  BY DEF LifeInv, TypeOK, LifecycleInv, DaemonInHand
<1>2. PartsInit => LifeInv
  <2>1. NoLife => LifeInv
    <3> SUFFICES ASSUME NoLife PROVE LifeInv
      OBVIOUS
    <3>1. TypeOK
      BY DEF NoLife, TypeOK
    <3>2. LifecycleInv
      BY DEF NoLife, LifecycleInv
    <3> QED BY <3>1, <3>2 DEF LifeInv
  <2> QED BY <2>1, LifeInitially DEF PartsInit
<1>3. [PartsNext]_partVars => [Next]_vars
  BY DEF PartsNext, partVars
<1>4. Spec => []DaemonInHand
  BY LifeInitially, LifeKeeps, <1>1, PTL DEF Spec
<1>5. PartsSpec => []DaemonInHand
  BY LifeKeeps, <1>1, <1>2, <1>3, PTL DEF PartsSpec
<1> QED BY <1>4, <1>5
-----------------------------------------------------------------------------
(***************************************************************************)
(* Replay, for any collection, as long as the speed times the time between *)
(* two repaints is no longer than a frame (2 seconds).                     *)
(***************************************************************************)
\* A set of numbers that has a bound has a greatest one.
LEMMA LastUpTo ==
  ASSUME NEW b \in Nat, NEW S, S \subseteq 0 .. b, S # {}
  PROVE  \E i \in S : \A j \in S : j <= i
<1>1. PICK T : T = {b - i : i \in S}
  OBVIOUS
<1>2. T \in SUBSET Nat /\ T # {}
  <2>1. \A i \in S : b - i \in Nat
    OBVIOUS
  <2> QED BY <1>1, <2>1
<1>3. PICK t \in T : \A u \in T : t <= u
  BY <1>2, FirstOf
<1>4. PICK i \in S : t = b - i
  BY <1>1
<1>5. ASSUME NEW j \in S
      PROVE  j <= i
  <2>1. b - j \in T
    BY <1>1
  <2>2. t <= b - j /\ i \in Nat /\ j \in Nat
    BY <1>3, <2>1
  <2> QED BY <1>4, <2>2
<1> QED BY <1>5

\* A finite set of numbers has a bound.
LEMMA Bounded ==
  ASSUME NEW S \in SUBSET Nat, IsFiniteSet(S)
  PROVE  \E b \in Nat : S \subseteq 0 .. b
<1> DEFINE Unbounded(T) == ~ \E b \in Nat : T \subseteq 0 .. b
<1>1. SUFFICES ASSUME Unbounded(S)
               PROVE  FALSE
  OBVIOUS
<1>2. PICK bad : bad = {n \in Nat : \E T \in SUBSET S : Unbounded(T) /\ IsFiniteSet(T) /\ Cardinality(T) = n}
  OBVIOUS
<1> HIDE DEF Unbounded
<1>3. Cardinality(S) \in bad
  BY <1>1, <1>2, FS_CardinalityType
<1>4. PICK n \in bad : \A m \in bad : n <= m
  BY <1>2, <1>3, FirstOf
<1>5. PICK T \in SUBSET S : Unbounded(T) /\ IsFiniteSet(T) /\ Cardinality(T) = n
  BY <1>2, <1>4
<1>6. T # {}
  BY <1>5 DEF Unbounded
<1>7. PICK x \in T : TRUE
  BY <1>6
<1>8. IsFiniteSet(T \ {x}) /\ Cardinality(T \ {x}) = n - 1
  BY <1>5, <1>7, FS_RemoveElement
<1>9. ~Unbounded(T \ {x})
  <2>1. n - 1 \notin bad
    BY <1>2, <1>4
  <2>2. n - 1 \in Nat
    BY <1>8, FS_CardinalityType
  <2> QED BY <1>2, <1>8, <2>1, <2>2
<1>10. PICK b \in Nat : T \ {x} \subseteq 0 .. b
  BY <1>9 DEF Unbounded
<1>11. x \in Nat
  BY <1>5, <1>7
<1>12. ASSUME NEW y \in T
       PROVE  y \in 0 .. b + x
  BY <1>10, <1>11
<1>13. b + x \in Nat
  BY <1>11
<1>14. T \subseteq 0 .. b + x
  BY <1>12
<1> QED BY <1>5, <1>13, <1>14 DEF Unbounded

Kinds == {"deliver", "capture", "check"}

\* Events with times that have a bound.
Timed(es) ==
  /\ es # {}
  /\ \A e \in es : e.type \in Kinds /\ e.time \in Nat
  /\ \E b \in Nat : \A e \in es : e.time <= b

\* A frame is two seconds long, or longer.
LEMMA FramesLong ==
  ASSUME NEW es, Timed(es)
  PROVE  /\ Viz!Frames(es) # {}
         /\ \A f \in Viz!Frames(es) : f.from \in Nat /\ f.to \in Nat /\ f.to >= f.from + 2
         /\ \E b \in Nat : \A f \in Viz!Frames(es) : f.to <= b
<1>1. ASSUME NEW f \in Viz!Frames(es)
      PROVE  \E e \in es : f.from \in Nat /\ f.to \in Nat /\ f.to >= f.from + 2 /\ f.to <= e.time + 8
  <2>1. PICK e \in es : \E k \in 1 .. Len(Viz!Ends(e.type)) - 1 :
          f = [event |-> e, from |-> e.time + Viz!Ends(e.type)[k], to |-> e.time + Viz!Ends(e.type)[k + 1]]
    BY DEF Viz!Frames
  <2>2. PICK k \in 1 .. Len(Viz!Ends(e.type)) - 1 :
          f.from = e.time + Viz!Ends(e.type)[k] /\ f.to = e.time + Viz!Ends(e.type)[k + 1]
    BY <2>1
  <2>3. e.time \in Nat /\ e.type \in Kinds
    BY DEF Timed
  <2>4. CASE e.type = "deliver"
    <3>1. Viz!Ends(e.type) = <<0, 2, 4>>
      BY <2>4 DEF Viz!Ends
    <3>2. k = 1 \/ k = 2
      BY <3>1
    <3> QED BY <2>2, <2>3, <3>1, <3>2
  <2>5. CASE e.type = "capture"
    <3>1. Viz!Ends(e.type) = <<0, 2, 6, 8>>
      BY <2>5 DEF Viz!Ends
    <3>2. k = 1 \/ k = 2 \/ k = 3
      BY <3>1
    <3> QED BY <2>2, <2>3, <3>1, <3>2
  <2>6. CASE e.type = "check"
    <3>1. Viz!Ends(e.type) = <<0, 2, 4, 6>>
      BY <2>6 DEF Viz!Ends
    <3>2. k = 1 \/ k = 2 \/ k = 3
      BY <3>1
    <3> QED BY <2>2, <2>3, <3>1, <3>2
  <2> QED BY <2>3, <2>4, <2>5, <2>6 DEF Kinds
<1>2. Viz!Frames(es) # {}
  <2>1. PICK e \in es : e.type \in Kinds
    BY DEF Timed
  <2>2. 1 \in 1 .. Len(Viz!Ends(e.type)) - 1
    BY <2>1 DEF Kinds, Viz!Ends
  <2>3. [event |-> e, from |-> e.time + Viz!Ends(e.type)[1], to |-> e.time + Viz!Ends(e.type)[1 + 1]] \in Viz!Frames(es)
    BY <2>2 DEF Viz!Frames
  <2> QED BY <2>3
<1>3. PICK b \in Nat : \A e \in es : e.time \in Nat /\ e.time <= b
  BY DEF Timed
<1>4. \A f \in Viz!Frames(es) : f.to <= b + 8
  BY <1>1, <1>3
<1> QED BY <1>1, <1>2, <1>3, <1>4

\* The first and the last moment of the frames.
LEMMA EndsOfFrames ==
  ASSUME NEW es, Timed(es),
         NEW first, first = Viz!Min({f.from : f \in Viz!Frames(es)}),
         NEW last, last = Viz!Max({f.to : f \in Viz!Frames(es)})
  PROVE  /\ first \in Nat /\ \A f \in Viz!Frames(es) : first <= f.from
         /\ last \in Nat /\ \A f \in Viz!Frames(es) : f.to <= last
<1>1. PICK fs : fs = Viz!Frames(es)
  OBVIOUS
<1>2. /\ fs # {} /\ \A f \in fs : f.from \in Nat /\ f.to \in Nat
      /\ \E b \in Nat : \A f \in fs : f.to <= b
  BY <1>1, FramesLong
<1>3. PICK froms : froms = {f.from : f \in fs}
  OBVIOUS
<1>4. PICK tos : tos = {f.to : f \in fs}
  OBVIOUS
<1>5. \E i \in froms : \A j \in froms : i <= j
  BY <1>2, <1>3, FirstOf
<1>6. \E i \in tos : \A j \in tos : j <= i
  <2>1. PICK b \in Nat : \A f \in fs : f.to <= b
    BY <1>2
  <2>2. tos \subseteq 0 .. b /\ tos # {}
    BY <1>2, <1>4, <2>1
  <2> QED BY <2>2, LastUpTo
<1>7. first \in froms /\ \A j \in froms : first <= j
  <2>1. first = CHOOSE i \in froms : \A j \in froms : i <= j
    BY <1>1, <1>3 DEF Viz!Min
  <2> QED BY <1>5, <2>1
<1>8. last \in tos /\ \A j \in tos : j <= last
  <2>1. last = CHOOSE i \in tos : \A j \in tos : i >= j
    BY <1>1, <1>4 DEF Viz!Max
  <2>2. tos \subseteq Nat
    BY <1>2, <1>4
  <2>3. \E i \in tos : \A j \in tos : i >= j
    BY <1>6, <2>2
  <2>4. last \in tos /\ \A j \in tos : last >= j
    BY <2>1, <2>3
  <2> QED BY <2>2, <2>4
<1> QED BY <1>1, <1>2, <1>3, <1>4, <1>7, <1>8

VizTypes ==
  /\ page \in {"loading", "ready", "dead"} /\ again \in {"none", "asked", "failed"}
  /\ timeline \in {"none", "main", "demo"}
  /\ now \in Nat /\ wait \in Nat /\ transform \in 1 .. MaxSpeed /\ anchor \in Int \cup {Null}
  /\ page = "ready" => Timed(events)
  /\ timeline # "none" => page = "ready"
  /\ timeline = "demo" => demo \in Kinds

\* The frames from before this time have been shown.
ShownBefore(t) == \A f \in Viz!Frames(Viz!Drawn) : f.from < t => f \in shown

\* Since the last repaint the replay has not gone farther than its speed allows.
Replaying == \E t \in Int : Viz!Time <= t + wait * MaxSpeed /\ ShownBefore(t)

VizInv ==
  /\ VizTypes
  /\ timeline = "none" => drawables = << >>
  /\ timeline # "none" => drawables = <<timeline>> /\ shown \subseteq Viz!Frames(Viz!Drawn)
  /\ anchor # Null => timeline # "none"
  /\ again = "asked" => wait <= Gap
  /\ anchor # Null /\ again = "asked" => Replaying
  /\ over => anchor = Null /\ timeline # "none" /\ shown = Viz!Frames(Viz!Drawn)

LEMMA DrawnTimed ==
  ASSUME VizTypes, timeline # "none"
  PROVE  Timed(Viz!Drawn)
<1>1. CASE timeline = "main"
  BY <1>1 DEF Viz!Drawn, VizTypes
<1>2. CASE timeline = "demo"
  <2>1. Viz!Drawn = {[type |-> demo, time |-> 0]} /\ demo \in Kinds
    BY <1>2 DEF Viz!Drawn, VizTypes
  <2> QED BY <2>1 DEF Timed
<1> QED BY <1>1, <1>2 DEF VizTypes

LEMMA VizInitially == Viz!Init => VizInv
BY PartsAssumption DEF Viz!Init, VizInv, VizTypes

\* The events of the collection have times that have a bound.
LEMMA FeedTimed ==
  ASSUME NEW docs \in SUBSET Docs, docs # {}
  PROVE  Timed(Viz!Feed(docs))
<1>1. PICK times : times = UNION {{d.time} \cup {c.time : c \in d.captures} \cup d.checks : d \in Docs}
  OBVIOUS
<1>2. times \in SUBSET Nat /\ IsFiniteSet(times)
  BY <1>1, PartsAssumption
<1>3. PICK b \in Nat : times \subseteq 0 .. b
  BY <1>2, Bounded
<1>4. ASSUME NEW e \in Viz!Feed(docs)
      PROVE  e.type \in Kinds /\ e.time \in Nat /\ e.time <= b
  <2>1. PICK d \in docs :
          e \in {[type |-> "deliver", time |-> d.time, team |-> d.team]}
                \cup {[type |-> "capture", time |-> c.time, team |-> c.team, victim |-> d.team] : c \in d.captures}
                \cup {[type |-> "check", time |-> t, team |-> d.team] : t \in d.checks}
    BY DEF Viz!Feed
  <2>2. {d.time} \cup {c.time : c \in d.captures} \cup d.checks \subseteq times
    BY <1>1
  <2>3. e.type \in Kinds /\ e.time \in {d.time} \cup {c.time : c \in d.captures} \cup d.checks
    BY <2>1 DEF Kinds
  <2>4. e.time \in times
    BY <2>2, <2>3
  <2>5. e.time \in 0 .. b
    BY <1>3, <2>4
  <2>6. PICK time : time = e.time
    OBVIOUS
  <2>7. time \in Nat /\ time <= b
    BY <2>5, <2>6
  <2> QED BY <2>3, <2>6, <2>7
<1>5. Viz!Feed(docs) # {}
  <2>1. PICK d \in docs : TRUE
    OBVIOUS
  <2>2. [type |-> "deliver", time |-> d.time, team |-> d.team] \in
          {[type |-> "deliver", time |-> d.time, team |-> d.team]}
          \cup {[type |-> "capture", time |-> c.time, team |-> c.team, victim |-> d.team] : c \in d.captures}
          \cup {[type |-> "check", time |-> t, team |-> d.team] : t \in d.checks}
    OBVIOUS
  <2>3. [type |-> "deliver", time |-> d.time, team |-> d.team] \in Viz!Feed(docs)
    BY <2>2 DEF Viz!Feed
  <2> QED BY <2>3
<1> QED BY <1>4, <1>5 DEF Timed

\* A timeline that is begun is the only one, and nothing of it was before.
LEMMA BeginKeeps ==
  ASSUME VizInv, page = "ready", NEW tl \in {"main", "demo"}, NEW speed \in Int, Viz!SetTimeline(tl),
         tl = "demo" => demo' \in Kinds, speed = IF tl = "main" THEN transform ELSE 1,
         Viz!Begin(speed)
  PROVE  VizInv'
<1>1. VizTypes'
  <2>1. now * 1 = now /\ now * transform \in Int /\ now * speed \in Int
    BY DEF VizInv, VizTypes
  <2> QED BY <2>1 DEF VizInv, VizTypes, Viz!SetTimeline, Viz!Begin
<1>2. drawables' = <<timeline'>>
  <2>1. PICK drawn : drawn = Viz!RemoveFirst(drawables, timeline)
    OBVIOUS
  <2>2. drawn = << >>
    <3>1. CASE timeline = "none"
      BY <2>1, <3>1 DEF VizInv, Viz!RemoveFirst
    <3>2. CASE timeline # "none"
      <4>1. drawables = <<timeline>> /\ Len(drawables) = 1 /\ drawables[1] = timeline
        BY <3>2 DEF VizInv
      <4>2. PICK at : at = Viz!SelectInSeq(drawables, LAMBDA v : v = timeline)
        OBVIOUS
      <4>3. at = 1
        <5>1. PICK places : places = {i \in 1 .. Len(drawables) : drawables[i] = timeline}
          OBVIOUS
        <5>2. places = {1}
          BY <4>1, <5>1
        <5>3. at = CHOOSE i \in places : \A j \in places : i <= j
          BY <4>2, <5>1, <5>2 DEF Viz!SelectInSeq, Viz!Min
        <5> QED BY <5>2, <5>3
      <4>4. drawn = Viz!RemoveAt(drawables, at)
        BY <2>1, <4>1, <4>2 DEF Viz!RemoveFirst
      <4>5. drawn = SubSeq(<<timeline>>, 1, 0) \o SubSeq(<<timeline>>, 2, 1)
        BY <4>1, <4>3, <4>4 DEF Viz!RemoveAt
      <4> QED BY <4>5
    <3> QED BY <3>1, <3>2
  <2> QED BY <2>1, <2>2 DEF Viz!SetTimeline
<1>3. timeline' = tl /\ timeline' # "none" /\ shown' = {} /\ ~over'
  BY DEF Viz!SetTimeline, Viz!Begin
<1>4. again' = "asked" => wait' <= Gap
  BY PartsAssumption DEF VizInv, Viz!Begin
<1>5. Replaying'
  <2>1. PICK es : es = Viz!Drawn'
    OBVIOUS
  <2>2. Timed(es)
    <3>1. CASE tl = "main"
      BY <1>3, <2>1, <3>1 DEF VizInv, VizTypes, Viz!Drawn, Viz!Begin
    <3>2. CASE tl = "demo"
      <4>1. es = {[type |-> demo', time |-> 0]} /\ demo' \in Kinds
        BY <1>3, <2>1, <3>2 DEF Viz!Drawn
      <4> QED BY <4>1 DEF Timed
    <3> QED BY <3>1, <3>2
  <2>3. PICK first : first = Viz!Min({f.from : f \in Viz!Frames(es)})
    OBVIOUS
  <2>4. first \in Nat /\ \A f \in Viz!Frames(es) : f.from \in Nat /\ first <= f.from
    BY <2>2, <2>3, EndsOfFrames, FramesLong
  <2>5. Viz!BeginTime' = first
    BY <2>1, <2>3 DEF Viz!BeginTime
  <2>6. Viz!Time' = first
    <3>1. Viz!Speed' = speed
      BY <1>3 DEF Viz!Speed, Viz!Begin
    <3>2. now' = now /\ anchor' = now * speed /\ now * speed \in Int
      BY DEF Viz!Begin, VizInv, VizTypes
    <3> QED BY <2>4, <2>5, <3>1, <3>2 DEF Viz!Time
  <2>7. ShownBefore(first)'
    BY <2>1, <2>4 DEF ShownBefore
  <2>8. wait' * MaxSpeed \in Nat
    BY <1>1, PartsAssumption DEF VizTypes
  <2>9. Viz!Time' <= first + wait' * MaxSpeed
    BY <2>4, <2>6, <2>8
  <2> QED BY <2>4, <2>7, <2>9 DEF Replaying
<1> QED BY <1>1, <1>2, <1>3, <1>4, <1>5 DEF VizInv

LEMMA SpeedKeeps == VizInv /\ Viz!ChangeSpeed => VizInv'
<1> SUFFICES ASSUME VizInv, Viz!ChangeSpeed
             PROVE  VizInv'
  OBVIOUS
<1>1. PICK speed \in {transform + 1, transform - 1} :
        speed > 0 /\ speed <= MaxSpeed /\ Viz!SetTimeTransform(speed)
  BY DEF Viz!ChangeSpeed
<1>2. /\ UNCHANGED <<page, events, now, wait, again, timeline, drawables, demo, shown, over>>
      /\ transform' = speed
  BY <1>1 DEF Viz!ChangeSpeed, Viz!SetTimeTransform
<1>3. speed \in 1 .. MaxSpeed /\ transform \in Nat /\ now \in Nat
  BY <1>1, PartsAssumption DEF VizInv, VizTypes
<1>4. now * speed \in Int /\ now * transform \in Int
  BY <1>3
<1>5. UNCHANGED <<Viz!Drawn, Viz!BeginTime>>
  BY <1>2 DEF Viz!Drawn, Viz!BeginTime
<1>6. anchor = Null => anchor' = Null
  BY <1>1 DEF Viz!SetTimeTransform
<1>7. ASSUME anchor # Null
      PROVE  anchor' \in Int /\ anchor' # Null /\ Viz!Time' = Viz!Time
  <2>1. anchor \in Int /\ timeline # "none"
    BY <1>7 DEF VizInv, VizTypes
  <2>2. PICK first \in Nat : first = Viz!BeginTime
    BY <2>1, DrawnTimed, EndsOfFrames DEF VizInv, Viz!BeginTime
  <2>3. CASE timeline = "main"
    <3>1. anchor' = now * speed - (now * transform - anchor)
      BY <1>1, <1>7, <2>3 DEF Viz!SetTimeTransform
    <3>2. Viz!Speed = transform /\ Viz!Speed' = speed
      BY <1>2, <2>3 DEF Viz!Speed
    <3>3. Viz!Time = now * transform - anchor + first
      BY <2>2, <3>2 DEF Viz!Time
    <3>4. Viz!Time' = now * speed - anchor' + first
      BY <1>2, <1>5, <2>2, <3>2 DEF Viz!Time
    <3> QED BY <1>4, <2>1, <3>1, <3>3, <3>4, PartsAssumption
  <2>4. CASE timeline # "main"
    <3>1. anchor' = anchor
      BY <1>1, <2>4 DEF Viz!SetTimeTransform
    <3>2. Viz!Speed = 1 /\ Viz!Speed' = 1
      BY <1>2, <2>4 DEF Viz!Speed
    <3> QED BY <1>2, <1>5, <1>7, <2>1, <3>1, <3>2 DEF Viz!Time
  <2> QED BY <2>3, <2>4
<1>8. VizTypes'
  BY <1>2, <1>3, <1>6, <1>7 DEF VizInv, VizTypes
<1>9. anchor # Null /\ Replaying => Replaying'
  <2> SUFFICES ASSUME anchor # Null, Replaying
               PROVE  Replaying'
    OBVIOUS
  <2>1. PICK t \in Int : Viz!Time <= t + wait * MaxSpeed /\ ShownBefore(t)
    BY DEF Replaying
  <2>2. ShownBefore(t)'
    BY <1>2, <1>5, <2>1 DEF ShownBefore
  <2>3. Viz!Time' <= t + wait' * MaxSpeed
    BY <1>2, <1>7, <2>1
  <2> QED BY <2>2, <2>3 DEF Replaying
<1> QED BY <1>2, <1>5, <1>6, <1>7, <1>8, <1>9 DEF VizInv

LEMMA TickKeeps == VizInv /\ Viz!Tick => VizInv'
<1> SUFFICES ASSUME VizInv, Viz!Tick
             PROVE  VizInv'
  OBVIOUS
<1>1. /\ UNCHANGED <<page, events, again, timeline, drawables, transform, anchor, demo, shown, over>>
      /\ now' = now + 1 /\ wait' = IF again = "asked" THEN wait + 1 ELSE 0
      /\ again = "asked" => wait < Gap
  BY DEF Viz!Tick
<1>2. wait \in Nat /\ now \in Nat /\ transform \in 1 .. MaxSpeed /\ Gap \in Nat /\ MaxSpeed \in Nat \ {0}
  BY PartsAssumption DEF VizInv, VizTypes
<1>3. VizTypes'
  BY <1>1, <1>2 DEF VizInv, VizTypes
<1>4. UNCHANGED <<Viz!Drawn, Viz!BeginTime, Viz!Speed>>
  BY <1>1 DEF Viz!Drawn, Viz!BeginTime, Viz!Speed
<1>5. again = "asked" => wait' <= Gap
  BY <1>1, <1>2
<1>6. ASSUME anchor # Null, again = "asked", Replaying
      PROVE  Replaying'
  <2>1. PICK t \in Int : Viz!Time <= t + wait * MaxSpeed /\ ShownBefore(t)
    BY <1>6 DEF Replaying
  <2>2. ShownBefore(t)'
    BY <1>1, <1>4, <2>1 DEF ShownBefore
  <2>3. anchor \in Int /\ timeline # "none"
    BY <1>6 DEF VizInv, VizTypes
  <2>4. PICK first \in Nat : first = Viz!BeginTime
    BY <2>3, DrawnTimed, EndsOfFrames DEF VizInv, Viz!BeginTime
  <2>5. PICK speed \in Nat : speed = Viz!Speed /\ speed <= MaxSpeed
    BY <1>2 DEF Viz!Speed
  <2>6. (now + 1) * speed = now * speed + speed /\ now * speed \in Int
    BY <1>2
  <2>7. (wait + 1) * MaxSpeed = wait * MaxSpeed + MaxSpeed /\ wait * MaxSpeed \in Int
    BY <1>2
  <2>8. Viz!Time = now * speed - anchor + first
    BY <2>4, <2>5 DEF Viz!Time
  <2>9. Viz!Time' = (now + 1) * speed - anchor + first
    BY <1>1, <1>4, <2>4, <2>5 DEF Viz!Time
  <2>10. wait' = wait + 1
    BY <1>1, <1>6
  <2>11. Viz!Time' <= t + (wait + 1) * MaxSpeed
    <3>1. PICK old \in Int : old = Viz!Time
      BY <2>3, <2>6, <2>8
    <3>2. Viz!Time' = old + speed
      BY <2>3, <2>6, <2>8, <2>9, <3>1
    <3>3. old + speed <= t + wait * MaxSpeed + MaxSpeed
      BY <1>2, <2>1, <2>5, <2>7, <3>1
    <3>4. PICK far \in Int : far = wait * MaxSpeed
      BY <2>7
    <3>5. old + speed <= t + (far + MaxSpeed)
      BY <1>2, <2>5, <3>3, <3>4
    <3> QED BY <2>7, <3>2, <3>4, <3>5
  <2> QED BY <2>2, <2>10, <2>11 DEF Replaying
<1> QED BY <1>1, <1>3, <1>4, <1>5, <1>6 DEF VizInv

LEMMA RepaintKeeps ==
  ASSUME Gap * MaxSpeed <= 2, VizInv, Viz!Repaint
  PROVE  VizInv'
<1>1. /\ again = "asked" /\ wait' = 0
      /\ UNCHANGED <<page, events, now, timeline, drawables, transform, demo>>
  BY DEF Viz!Repaint
<1>2. UNCHANGED <<Viz!Drawn, Viz!BeginTime, Viz!Speed>>
  BY <1>1 DEF Viz!Drawn, Viz!BeginTime, Viz!Speed
<1>3. wait \in Nat /\ Gap \in Nat /\ MaxSpeed \in Nat \ {0} /\ wait <= Gap
  BY <1>1, PartsAssumption DEF VizInv, VizTypes
<1>4. CASE anchor = Null
  <2>1. anchor' = Null /\ over' = (over \/ anchor # Null) /\ UNCHANGED <<again, shown>>
    BY <1>4 DEF Viz!Repaint
  <2>2. over' => over
    BY <1>4, <2>1
  <2>3. VizTypes'
    BY <1>1, <2>1 DEF VizInv, VizTypes
  <2> QED BY <1>1, <1>2, <1>3, <1>4, <2>1, <2>2, <2>3 DEF VizInv
<1>5. CASE anchor # Null
  <2>1. timeline # "none" /\ anchor \in Int /\ ~over /\ shown \subseteq Viz!Frames(Viz!Drawn)
    BY <1>5 DEF VizInv, VizTypes
  <2>2. Timed(Viz!Drawn)
    BY <2>1, DrawnTimed DEF VizInv
  <2>3. PICK t \in Int : Viz!Time <= t + wait * MaxSpeed /\ ShownBefore(t)
    BY <1>1, <1>5 DEF VizInv, Replaying
  <2>4. wait * MaxSpeed <= 2 /\ wait * MaxSpeed \in Nat
    <3>1. wait * MaxSpeed <= Gap * MaxSpeed
      <4>1. PICK less \in Nat : Gap = wait + less
        <5>1. Gap - wait \in Nat /\ Gap = wait + (Gap - wait)
          BY <1>3
        <5> QED BY <5>1
      <4>2. Gap * MaxSpeed = wait * MaxSpeed + less * MaxSpeed
        BY <1>3, <4>1
      <4>3. less * MaxSpeed \in Nat /\ wait * MaxSpeed \in Nat
        BY <1>3
      <4> QED BY <4>2, <4>3
    <3>2. wait * MaxSpeed \in Nat /\ Gap * MaxSpeed \in Nat
      BY <1>3
    <3> QED BY <3>1, <3>2
  <2>5. PICK time \in Int : time = Viz!Time
    <3>1. Viz!BeginTime \in Nat
      BY <2>2, EndsOfFrames DEF Viz!BeginTime
    <3>2. now \in Nat /\ Viz!Speed \in Nat
      BY PartsAssumption DEF VizInv, VizTypes, Viz!Speed
    <3>3. now * Viz!Speed \in Nat
      BY <3>2
    <3> QED BY <2>1, <3>1, <3>3 DEF Viz!Time
  <2>6. time <= t + 2
    BY <2>3, <2>4, <2>5
  <2>7. \A f \in Viz!Frames(Viz!Drawn) : f.from \in Nat /\ f.to \in Nat /\ f.to >= f.from + 2
    BY <2>2, FramesLong
  <2>8. \A f \in Viz!Frames(Viz!Drawn) : f \in shown \/ f.to >= time
    BY <2>3, <2>6, <2>7 DEF ShownBefore
  <2>9. CASE Viz!Time > Viz!EndTime
    <3>1. anchor' = Null /\ over' = (over \/ anchor # Null) /\ UNCHANGED <<again, shown>>
      BY <2>9 DEF Viz!Repaint
    <3>2. \A f \in Viz!Frames(Viz!Drawn) : f.to <= Viz!EndTime /\ Viz!EndTime \in Nat
      BY <2>2, EndsOfFrames DEF Viz!EndTime
    <3>3. \A f \in Viz!Frames(Viz!Drawn) : f \in shown
      BY <2>5, <2>7, <2>8, <2>9, <3>2
    <3>4. shown = Viz!Frames(Viz!Drawn)
      BY <2>1, <3>3
    <3>5. VizTypes'
      BY <1>1, <3>1 DEF VizInv, VizTypes
    <3> QED BY <1>1, <1>2, <1>3, <2>1, <3>1, <3>4, <3>5 DEF VizInv
  <2>10. CASE ~ (Viz!Time > Viz!EndTime)
    <3>1. PICK frames : frames = {f \in Viz!Frames(Viz!Drawn) : f.from <= Viz!Time /\ Viz!Time <= f.to}
      OBVIOUS
    <3>2. /\ \/ again' = "failed" /\ UNCHANGED shown
             \/ shown' = shown \cup frames /\ UNCHANGED again
          /\ UNCHANGED <<anchor, over>>
      BY <1>5, <2>10, <3>1 DEF Viz!Repaint
    <3>3. VizTypes'
      BY <1>1, <3>2 DEF VizInv, VizTypes
    <3>4. shown' \subseteq Viz!Frames(Viz!Drawn)
      BY <2>1, <3>1, <3>2
    <3>5. again' = "asked" => Replaying'
      <4> SUFFICES ASSUME again' = "asked"
                   PROVE  Replaying'
        OBVIOUS
      <4>1. shown' = shown \cup frames
        BY <3>2
      <4>2. ASSUME NEW f \in Viz!Frames(Viz!Drawn), f.from < time + 1
            PROVE  f \in shown'
        <5>1. CASE f \in shown
          BY <4>1, <5>1
        <5>2. CASE f.to >= time
          <6>1. f.from <= time /\ time <= f.to
            BY <2>7, <4>2, <5>2
          <6> QED BY <2>5, <3>1, <4>1, <6>1
        <5> QED BY <2>8, <5>1, <5>2
      <4>3. ShownBefore(time + 1)'
        BY <1>2, <4>2 DEF ShownBefore
      <4>4. Viz!Time' = time
        BY <1>1, <1>2, <2>5, <3>2 DEF Viz!Time
      <4>5. Viz!Time' <= time + 1 + wait' * MaxSpeed
        BY <1>1, <1>3, <4>4
      <4> QED BY <4>3, <4>5 DEF Replaying
    <3> QED BY <1>1, <1>2, <1>3, <2>1, <3>2, <3>3, <3>4, <3>5 DEF VizInv
  <2> QED BY <2>9, <2>10
<1> QED BY <1>4, <1>5

LEMMA VizKeeps ==
  ASSUME Gap * MaxSpeed <= 2, VizInv, Viz!Next
  PROVE  VizInv'
<1>1. ASSUME NEW docs \in SUBSET Docs, Viz!Data(docs)
      PROVE  VizInv'
  <2>1. /\ page = "loading" /\ page' = IF docs # {} /\ \A d \in docs : d.team \in VizTeams THEN "ready" ELSE "dead"
        /\ events' = Viz!Feed(docs)
        /\ UNCHANGED <<now, wait, again, timeline, drawables, transform, anchor, demo, shown, over>>
    BY <1>1 DEF Viz!Data
  <2>2. timeline = "none"
    BY <2>1 DEF VizInv, VizTypes
  <2>3. page' = "ready" => Timed(events')
    BY <2>1, FeedTimed
  <2>4. VizTypes'
    BY <2>1, <2>2, <2>3 DEF VizInv, VizTypes
  <2> QED BY <2>1, <2>2, <2>4 DEF VizInv
<1>2. CASE Viz!Start
  BY <1>2, BeginKeeps DEF Viz!Start, VizInv, VizTypes
<1>3. ASSUME NEW type \in Kinds, Viz!Demo(type)
      PROVE  VizInv'
  BY <1>3, BeginKeeps DEF Viz!Demo
<1> QED BY <1>1, <1>2, <1>3, SpeedKeeps, TickKeeps, RepaintKeeps DEF Viz!Next, Kinds

VizRight == which = "Replay" => VizInv

LEMMA VizHolds ==
  ASSUME Gap * MaxSpeed <= 2
  PROVE  PartsSpec => []VizRight
<1>1. PartsInit => VizRight
  BY VizInitially DEF PartsInit, VizRight
<1>2. VizRight /\ [PartsNext]_partVars => VizRight'
  <2> SUFFICES ASSUME VizRight, [PartsNext]_partVars, which' = "Replay"
               PROVE  VizInv'
    BY DEF VizRight
  <2>1. VizInv
    BY DEF VizRight, PartsNext, partVars
  <2>2. CASE Viz!Next
    BY <2>1, <2>2, VizKeeps
  <2>3. CASE UNCHANGED vizVars
    BY <2>1, <2>3 DEF vizVars, VizInv, VizTypes, Replaying, ShownBefore, Viz!Time, Viz!Speed, Viz!BeginTime, Viz!Drawn
  <2> QED BY <2>2, <2>3 DEF PartsNext, partVars
<1> QED BY <1>1, <1>2, PTL DEF PartsSpec

\* viz.js: one timeline is drawn at a time, and a replay that has come to its end has
\* shown every frame of every event, however often the speed was changed on the way.
\* For any collection, as long as the highest speed times the longest time between two
\* repaints is no longer than the shortest frame.
THEOREM ReplayShowsEveryFrame ==
  ASSUME Gap * MaxSpeed <= 2
  PROVE  PartsSpec => []ReplayShowsAll
<1>1. VizRight => ReplayShowsAll
  BY DEF VizRight, VizInv, ReplayShowsAll, Viz!ReplayShowsAll
<1> QED BY <1>1, VizHolds, PTL
-----------------------------------------------------------------------------
(***************************************************************************)
(* JabbaChat, for any users and any number of people who come and go.      *)
(***************************************************************************)
\* A list without a handler, one place after the other.
Kept(list, x, h) == IF x = h THEN list ELSE Append(list, x)

LEMMA WithoutUpToThree ==
  ASSUME NEW list, NEW n \in 0 .. 3, Len(list) = n, NEW h,
         NEW one, one = Kept(<< >>, list[1], h),
         NEW two, two = Kept(one, list[2], h),
         NEW three, three = Kept(two, list[3], h)
  PROVE  Jabba!Without(list, h) =
           IF n = 0 THEN << >> ELSE IF n = 1 THEN one ELSE IF n = 2 THEN two ELSE three
<1> DEFINE Removal(f) == [i \in 0 .. n |-> IF i = 0 THEN << >> ELSE Kept(f[i - 1], list[i], h)]
<1>1. \E f : f = Removal(f)
  <2> WITNESS [i \in 0 .. n |-> IF i = 0 THEN << >> ELSE IF i = 1 THEN one ELSE IF i = 2 THEN two ELSE three]
  <2> QED OBVIOUS
<1>2. PICK left : left = CHOOSE f : f = Removal(f)
  OBVIOUS
<1>3. left = Removal(left)
  BY <1>1, <1>2
<1>4. /\ left[0] = << >>
      /\ n >= 1 => left[1] = one
      /\ n >= 2 => left[2] = two
      /\ n >= 3 => left[3] = three
  <2>1. left[0] = << >>
    BY <1>3
  <2>2. n >= 1 => left[1] = one
    BY <1>3, <2>1
  <2>3. n >= 2 => left[2] = two
    BY <1>3, <2>2
  <2>4. n >= 3 => left[3] = three
    BY <1>3, <2>3
  <2> QED BY <2>1, <2>2, <2>3, <2>4
<1>5. Jabba!Without(list, h) = left[n]
  BY <1>2 DEF Jabba!Without, Kept
<1> QED BY <1>4, <1>5

Called(h, c, s) ==
  IF Jabba!IsMatch(h, s) /\ c.verdict = Jabba!Running THEN Jabba!Callback(h, c, s) ELSE c

\* Two handlers, one after the other.
LEMMA HandledByTwo ==
  ASSUME NEW n \in 0 .. 2, Len(handlers) = n, NEW s,
         NEW one, one = Called(handlers[1], Jabba!Client, s),
         NEW two, two = Called(handlers[2], one, s)
  PROVE  Jabba!Handle(s) = IF n = 0 THEN Jabba!Client ELSE IF n = 1 THEN one ELSE two
<1> DEFINE After(f) == [i \in 0 .. n |->
                          IF i = 0 THEN Jabba!Client
                          ELSE IF Jabba!IsMatch(handlers[i], s) /\ f[i - 1].verdict = Jabba!Running
                          THEN Jabba!Callback(handlers[i], f[i - 1], s)
                          ELSE f[i - 1]]
<1>1. \E f : f = After(f)
  <2> WITNESS [i \in 0 .. n |-> IF i = 0 THEN Jabba!Client ELSE IF i = 1 THEN one ELSE two]
  <2> QED BY DEF Called
<1>2. PICK after : after = CHOOSE f : f = After(f)
  OBVIOUS
<1>3. after = After(after)
  BY <1>1, <1>2
<1>4. /\ after[0] = Jabba!Client
      /\ n >= 1 => after[1] = one
      /\ n >= 2 => after[2] = two
  <2>1. after[0] = Jabba!Client
    BY <1>3
  <2>2. n >= 1 => after[1] = one
    BY <1>3, <2>1 DEF Called
  <2>3. n >= 2 => after[2] = two
    BY <1>3, <2>2 DEF Called
  <2> QED BY <2>1, <2>2, <2>3
<1>5. Jabba!Handle(s) = after[n]
  BY <1>2 DEF Jabba!Handle
<1> QED BY <1>4, <1>5

LEMMA AppendToOne ==
  ASSUME NEW S, NEW a \in S, NEW b \in S
  PROVE  Append(<<a>>, b) = <<a, b>>
<1>1. <<a>> \in Seq(S)
  OBVIOUS
<1>2. <<a, b>> \in Seq(S)
  OBVIOUS
<1>3. PICK s \in Seq(S) : s = <<a>>
  BY <1>1
<1>4. Len(s) = 1 /\ s[1] = a
  BY <1>3
<1>5. PICK t : t = Append(s, b)
  OBVIOUS
<1>6. t \in Seq(S) /\ Len(t) = 2 /\ t[1] = a /\ t[2] = b
  <2>1. Len(t) = Len(s) + 1 /\ t \in Seq(S)
    BY <1>5, AppendProperties
  <2>2. t[Len(s) + 1] = b /\ \A i \in 1..Len(s) : t[i] = s[i]
    BY <1>5, AppendProperties
  <2> QED BY <1>4, <2>1, <2>2
<1>7. PICK u \in Seq(S) : u = <<a, b>>
  BY <1>2
<1>8. Len(u) = 2 /\ u[1] = a /\ u[2] = b
  BY <1>7
<1>9. \A i \in 1 .. Len(t) : t[i] = u[i]
  BY <1>6, <1>8
<1>10. t = u
  BY <1>6, <1>8, <1>9, SeqEqual
<1> QED BY <1>3, <1>5, <1>7, <1>10

Persons == Others \cup {Me}
Stanzas ==
  [name : {"presence", "iq", "message"},
   type : {"available", "unavailable", "result", "error", "groupchat"}, from : Persons, id : Nat]

\* A query for the first of the names is sent, and answers to it are awaited.
Asks(c, names) ==
  /\ c.phase = "lookup" /\ c.verdict = Jabba!Running
  /\ c.chatters = Tail(names) /\ c.nextId = nextId + 1
  /\ c.handlers = <<Jabba!SuccessHandler(nextId), Jabba!ErrorHandler(nextId)>>
  /\ c.sent = {[id |-> nextId, user |-> Head(names)]}

\* What the handler of join does with a stanza.
LEMMA Joins ==
  ASSUME handlers = <<Jabba!JoinHandler>>, verdict = Jabba!Running, nextId \in Nat \ {0},
         chatters \in Seq(Persons), NEW s \in Stanzas,
         NEW c, c = Jabba!Handle(s), NEW names, names = Append(chatters, s.from)
  PROVE  /\ s.name # "presence" => c = Jabba!Client
         /\ s.name = "presence" =>
              /\ c.info = info /\ c.met = met \cup {s.from}
              /\ s.from = Me => Asks(c, names)
              /\ s.from # Me =>
                   /\ c.phase = phase /\ c.verdict = Jabba!Running /\ c.chatters = names
                   /\ c.nextId = nextId /\ c.handlers = handlers /\ c.sent = {}
<1>1. Len(handlers) = 1 /\ handlers[1] = Jabba!JoinHandler
  OBVIOUS
<1>2. c = Called(Jabba!JoinHandler, Jabba!Client, s)
  <2>1. \A one, two : one = Called(handlers[1], Jabba!Client, s) /\ two = Called(handlers[2], one, s) =>
          Jabba!Handle(s) = one
    BY <1>1, HandledByTwo
  <2> QED BY <1>1, <2>1
<1>3. Jabba!IsMatch(Jabba!JoinHandler, s) <=> s.name = "presence"
  BY DEF Jabba!IsMatch, Jabba!JoinHandler
<1>4. Jabba!Client.verdict = Jabba!Running
  BY DEF Jabba!Client
<1>5. s.name # "presence" => c = Jabba!Client
  BY <1>2, <1>3 DEF Called
<1>6. ASSUME s.name = "presence"
      PROVE  c = Jabba!Joining(Jabba!Client, s)
  BY <1>2, <1>3, <1>4, <1>6 DEF Called, Jabba!Callback, Jabba!JoinHandler
<1>7. ASSUME s.name = "presence", s.from # Me
      PROVE  /\ c.info = info /\ c.met = met \cup {s.from}
             /\ c.phase = phase /\ c.verdict = Jabba!Running /\ c.chatters = names
             /\ c.nextId = nextId /\ c.handlers = handlers /\ c.sent = {}
  BY <1>6, <1>7 DEF Jabba!Joining, Jabba!Client
<1>8. ASSUME s.name = "presence", s.from = Me
      PROVE  c.info = info /\ c.met = met \cup {s.from} /\ Asks(c, names)
  <2>1. names # << >>
    <3>1. Len(names) = Len(chatters) + 1 /\ Len(chatters) \in Nat
      BY AppendProperties
    <3> QED BY <3>1
  <2>2. PICK both : both = <<Jabba!SuccessHandler(nextId), Jabba!ErrorHandler(nextId)>>
    OBVIOUS
  <2>3. PICK d : d = [Jabba!Client EXCEPT !.chatters = names, !.met = met \cup {s.from}, !.phase = "lookup"]
    OBVIOUS
  <2>4. /\ d.chatters = names /\ d.phase = "lookup" /\ d.handlers = handlers /\ d.nextId = nextId
        /\ d.info = info /\ d.met = met \cup {s.from} /\ d.verdict = Jabba!Running /\ d.sent = {}
    BY <2>3 DEF Jabba!Client
  <2>5. c = [Jabba!CheckNext(d) EXCEPT !.handlers = Jabba!Without(Jabba!CheckNext(d).handlers, Jabba!JoinHandler)]
    BY <1>6, <1>8, <2>3 DEF Jabba!Joining, Jabba!Client
  <2>6. PICK e : e = Jabba!CheckNext(d)
    OBVIOUS
  <2>7. /\ e.chatters = Tail(names) /\ e.nextId = nextId + 1
        /\ e.sent = {[id |-> nextId, user |-> Head(names)]}
        /\ e.handlers = <<Jabba!JoinHandler>> \o both
        /\ e.info = info /\ e.met = met \cup {s.from} /\ e.verdict = Jabba!Running /\ e.phase = "lookup"
    BY <2>1, <2>2, <2>3, <2>4, <2>6 DEF Jabba!CheckNext, Jabba!Client
  <2>8. Jabba!Without(<<Jabba!JoinHandler>> \o both, Jabba!JoinHandler) = both
    <3>1. PICK join : join = Jabba!JoinHandler
      OBVIOUS
    <3>2. PICK good : good = Jabba!SuccessHandler(nextId)
      OBVIOUS
    <3>3. PICK bad : bad = Jabba!ErrorHandler(nextId)
      OBVIOUS
    <3>4. good # join /\ bad # join
      BY <3>1, <3>2, <3>3 DEF Jabba!SuccessHandler, Jabba!ErrorHandler, Jabba!JoinHandler
    <3>5. PICK list : list = <<join, good, bad>>
      OBVIOUS
    <3>6. Len(list) = 3 /\ list[1] = join /\ list[2] = good /\ list[3] = bad
      BY <3>5
    <3>7. Kept(<< >>, list[1], join) = << >>
      BY <3>6 DEF Kept
    <3>8. Kept(<< >>, list[2], join) = <<good>>
      BY <3>6, <3>4 DEF Kept
    <3>9. Kept(<<good>>, list[3], join) = <<good, bad>>
      <4>1. Kept(<<good>>, bad, join) = Append(<<good>>, bad)
        BY <3>4 DEF Kept
      <4>2. Append(<<good>>, bad) = <<good, bad>>
        <5>1. PICK S : S = {good, bad}
          OBVIOUS
        <5>2. good \in S /\ bad \in S
          BY <5>1
        <5> QED BY <5>2, AppendToOne
      <4> QED BY <3>6, <4>1, <4>2
    <3>10. Jabba!Without(list, join) = <<good, bad>>
      <4>1. PICK three : three = <<good, bad>>
        OBVIOUS
      <4>2. PICK two : two = <<good>>
        OBVIOUS
      <4>3. PICK one : one = << >>
        OBVIOUS
      <4>4. one = Kept(<< >>, list[1], join) /\ two = Kept(one, list[2], join) /\ three = Kept(two, list[3], join)
        BY <3>7, <3>8, <3>9, <4>1, <4>2, <4>3
      <4>5. 3 \in 0 .. 3
        OBVIOUS
      <4>6. Jabba!Without(list, join) = IF 3 = 0 THEN << >> ELSE IF 3 = 1 THEN one ELSE IF 3 = 2 THEN two ELSE three
        BY <3>6, <4>4, <4>5, WithoutUpToThree
      <4> QED BY <4>1, <4>6
    <3>11. list = <<join>> \o both
      BY <2>2, <3>2, <3>3, <3>5
    <3> QED BY <2>2, <3>1, <3>2, <3>3, <3>10, <3>11
  <2>9. c = [e EXCEPT !.handlers = both]
    BY <2>5, <2>6, <2>7, <2>8
  <2>10. c.handlers = both /\ c.chatters = e.chatters /\ c.nextId = e.nextId /\ c.sent = e.sent
         /\ c.info = e.info /\ c.met = e.met /\ c.verdict = e.verdict /\ c.phase = e.phase
    <3>1. "handlers" \in DOMAIN e
      BY <2>1, <2>3, <2>4, <2>6 DEF Jabba!CheckNext, Jabba!Client
    <3> QED BY <2>9, <3>1
  <2> QED BY <2>2, <2>7, <2>10 DEF Asks
<1> QED BY <1>5, <1>7, <1>8

\* What the handlers of lookup do with a stanza.
LEMMA LooksUp ==
  ASSUME NEW n \in Nat \ {0}, nextId = n + 1, phase = "lookup", verdict = Jabba!Running,
         handlers = <<Jabba!SuccessHandler(n), Jabba!ErrorHandler(n)>>,
         chatters \in Seq(Persons), NEW s \in Stanzas, NEW c, c = Jabba!Handle(s)
  PROVE  \/ c = Jabba!Client
         \/ /\ s.name = "iq" /\ s.type = "error" /\ s.id = n
            /\ c.phase = "done" /\ c.verdict = 1 /\ c.sent = {} /\ c.nextId = nextId
            /\ c.chatters = chatters /\ c.info = info /\ c.met = met
         \/ /\ s.name = "iq" /\ s.type = "result" /\ s.id = n
            /\ c.info = info \cup {s.from} /\ c.met = met
            /\ \/ chatters # << >> /\ Asks(c, chatters)
               \/ /\ chatters = << >> /\ c.phase = "informed" /\ c.verdict = Jabba!Running
                  /\ c.chatters = << >> /\ c.nextId = nextId /\ c.handlers = << >> /\ c.sent = {}
<1>1. PICK good : good = Jabba!SuccessHandler(n)
  OBVIOUS
<1>2. PICK bad : bad = Jabba!ErrorHandler(n)
  OBVIOUS
<1>3. Len(handlers) = 2 /\ handlers[1] = good /\ handlers[2] = bad
  BY <1>1, <1>2
<1>4. PICK one : one = Called(good, Jabba!Client, s)
  OBVIOUS
<1>5. c = Called(bad, one, s)
  <2>1. \A x, y : x = Called(handlers[1], Jabba!Client, s) /\ y = Called(handlers[2], x, s) =>
          Jabba!Handle(s) = y
    BY <1>3, HandledByTwo
  <2> QED BY <1>3, <1>4, <2>1
<1>6. Jabba!IsMatch(good, s) <=> s.name = "iq" /\ s.type = "result" /\ s.id = n
  BY <1>1 DEF Jabba!IsMatch, Jabba!SuccessHandler
<1>7. Jabba!IsMatch(bad, s) <=> s.name = "iq" /\ s.type = "error" /\ s.id = n
  BY <1>2 DEF Jabba!IsMatch, Jabba!ErrorHandler
<1>8. Jabba!Client.verdict = Jabba!Running
  BY DEF Jabba!Client
<1>9. CASE ~Jabba!IsMatch(good, s) /\ ~Jabba!IsMatch(bad, s)
  BY <1>4, <1>5, <1>9 DEF Called
<1>10. CASE Jabba!IsMatch(bad, s)
  <2>1. one = Jabba!Client
    BY <1>4, <1>6, <1>7, <1>10 DEF Called
  <2>2. c = Jabba!Failed(Jabba!Client, s)
    BY <1>2, <1>5, <1>8, <1>10, <2>1 DEF Called, Jabba!Callback, Jabba!ErrorHandler
  <2>3. /\ c.phase = "done" /\ c.verdict = 1 /\ c.sent = {} /\ c.nextId = nextId
        /\ c.chatters = chatters /\ c.info = info /\ c.met = met
    BY <2>2 DEF Jabba!Failed, Jabba!Client
  <2> QED BY <1>7, <1>10, <2>3
<1>11. CASE Jabba!IsMatch(good, s)
  <2>1. s.name = "iq" /\ s.type = "result" /\ s.id = n
    BY <1>6, <1>11
  <2>2. one = Jabba!Succeeded(Jabba!Client, s)
    BY <1>1, <1>4, <1>8, <1>11 DEF Called, Jabba!Callback, Jabba!SuccessHandler
  <2>3. c = one
    BY <1>5, <1>7, <2>1 DEF Called
  <2>4. good # bad
    BY <1>1, <1>2 DEF Jabba!SuccessHandler, Jabba!ErrorHandler
  <2>5. Jabba!Without(handlers, bad) = <<good>>
    <3>1. Kept(<< >>, good, bad) = <<good>> /\ Kept(<<good>>, bad, bad) = <<good>>
      BY <2>4 DEF Kept
    <3>2. \A x, y, z : x = Kept(<< >>, handlers[1], bad) /\ y = Kept(x, handlers[2], bad)
                       /\ z = Kept(y, handlers[3], bad) => Jabba!Without(handlers, bad) = y
      BY <1>3, WithoutUpToThree
    <3> QED BY <1>3, <3>1, <3>2
  <2>6. Jabba!Without(<<good>>, good) = << >>
    <3>1. PICK list : list = <<good>>
      OBVIOUS
    <3>4. Len(list) = 1 /\ list[1] = good
      BY <3>1
    <3>2. Kept(<< >>, good, good) = << >>
      BY DEF Kept
    <3>3. \A x, y, z : x = Kept(<< >>, list[1], good) /\ y = Kept(x, list[2], good)
                       /\ z = Kept(y, list[3], good) => Jabba!Without(list, good) = x
      BY <3>4, WithoutUpToThree
    <3> QED BY <3>1, <3>2, <3>3, <3>4
  <2>7. PICK d : d = [Jabba!Client EXCEPT !.info = info \cup {s.from}, !.handlers = << >>]
    OBVIOUS
  <2>8. c = Jabba!CheckNext(d)
    <3>1. /\ Jabba!SuccessHandler(s.id) = good /\ Jabba!ErrorHandler(s.id) = bad
          /\ Jabba!Client.info = info /\ Jabba!Client.handlers = handlers
      BY <1>1, <1>2, <2>1 DEF Jabba!Client
    <3>2. d = [Jabba!Client EXCEPT !.info = Jabba!Client.info \cup {s.from},
                 !.handlers = Jabba!Without(Jabba!Without(Jabba!Client.handlers, Jabba!ErrorHandler(s.id)),
                                            Jabba!SuccessHandler(s.id))]
      BY <2>5, <2>6, <2>7, <3>1
    <3> QED BY <2>2, <2>3, <3>2 DEF Jabba!Succeeded
  <2>9. /\ d.chatters = chatters /\ d.phase = phase /\ d.handlers = << >> /\ d.nextId = nextId
        /\ d.info = info \cup {s.from} /\ d.met = met /\ d.verdict = Jabba!Running /\ d.sent = {}
    BY <2>7 DEF Jabba!Client
  <2>10. CASE chatters = << >>
    BY <2>1, <2>7, <2>8, <2>9, <2>10 DEF Jabba!CheckNext, Jabba!Client
  <2>11. CASE chatters # << >>
    <3>1. c.handlers = << >> \o <<Jabba!SuccessHandler(nextId), Jabba!ErrorHandler(nextId)>>
      BY <2>7, <2>8, <2>9, <2>11 DEF Jabba!CheckNext, Jabba!Client
    <3>2. c.handlers = <<Jabba!SuccessHandler(nextId), Jabba!ErrorHandler(nextId)>>
      BY <3>1
    <3>3. /\ c.chatters = Tail(chatters) /\ c.nextId = nextId + 1 /\ c.phase = phase
          /\ c.sent = {[id |-> nextId, user |-> Head(chatters)]}
          /\ c.info = info \cup {s.from} /\ c.met = met /\ c.verdict = Jabba!Running
      BY <2>7, <2>8, <2>9, <2>11 DEF Jabba!CheckNext, Jabba!Client
    <3> QED BY <2>1, <2>11, <3>2, <3>3 DEF Asks
  <2> QED BY <2>10, <2>11
<1> QED BY <1>9, <1>10, <1>11

Names(list) == {list[i] : i \in 1 .. Len(list)}

JabbaTypes ==
  /\ phase \in {"create", "website", "connecting", "joining", "lookup", "informed", "chatting", "left", "done"}
  /\ verdict \in {0, 1, Jabba!Running} /\ (verdict = Jabba!Running <=> phase # "done")
  /\ inbox \in Seq(Stanzas) /\ chatters \in Seq(Persons) /\ nextId \in Nat \ {0, 1}
  /\ room \subseteq Persons /\ queries \subseteq [id : Nat, user : Persons]
  /\ directory \in {"up", "down"}

\* A stanza that the client has not heard.  The answer to the latest query is about
\* the user it was sent for, and an error has a reason.
Expected(s, latest, u, up) ==
  s.name = "iq" =>
    /\ s.id <= latest
    /\ s.id = latest => s.from = u
    /\ s.type = "error" => s.from \notin Known \/ ~up

\* Those the lookup has information about, the one it has asked for and those it will
\* ask for are those that were met.
Progress(u) ==
  /\ \A i \in 1 .. Len(inbox) : Expected(inbox[i], nextId - 1, u, directory = "up")
  /\ \A q \in queries : q.id <= nextId - 1 /\ (q.id = nextId - 1 => q.user = u)
  /\ phase = "lookup" => met = info \cup Names(chatters) \cup {u}

JabbaInv ==
  /\ JabbaTypes
  /\ Jabba!HandlersFit
  /\ \E u \in Persons : Progress(u)
  /\ phase \in {"create", "website", "connecting", "joining"} => info = {} /\ met = Names(chatters)
  /\ phase \in {"lookup", "informed", "chatting", "left"} => Me \in met
  /\ phase \in {"informed", "chatting", "left"} => info = met

LEMMA JabbaInitially == Jabba!Init => JabbaInv
<1> SUFFICES ASSUME Jabba!Init
             PROVE  JabbaInv
  OBVIOUS
<1>1. Names(chatters) = {}
  BY DEF Names, Jabba!Init
<1>2. JabbaTypes
  BY DEF JabbaTypes, Jabba!Init, Persons, Jabba!Running
<1>3. Jabba!HandlersFit
  BY DEF Jabba!HandlersFit, Jabba!Init
<1>4. Progress(Me)
  BY DEF Progress, Jabba!Init
<1>5. Me \in Persons
  BY DEF Persons
<1>6. phase \in {"create", "website"} /\ info = {} /\ met = {}
  BY DEF Jabba!Init
<1> QED BY <1>1, <1>2, <1>3, <1>4, <1>5, <1>6 DEF JabbaInv

LEMMA NamesGrow ==
  ASSUME NEW list \in Seq(Persons), NEW p \in Persons
  PROVE  /\ Append(list, p) \in Seq(Persons) /\ Append(list, p) # << >>
         /\ Names(Append(list, p)) = Names(list) \cup {p}
<1>1. PICK more : more = Append(list, p)
  OBVIOUS
<1>2. PICK n \in Nat : n = Len(list)
  OBVIOUS
<1>3. more \in Seq(Persons) /\ Len(more) = n + 1 /\ more[n + 1] = p /\ \A i \in 1 .. n : more[i] = list[i]
  BY <1>1, <1>2, AppendProperties
<1>4. Names(more) = Names(list) \cup {p}
  BY <1>2, <1>3 DEF Names
<1> QED BY <1>1, <1>2, <1>3, <1>4

LEMMA NamesShrink ==
  ASSUME NEW list \in Seq(Persons), list # << >>
  PROVE  /\ Tail(list) \in Seq(Persons) /\ Head(list) \in Persons
         /\ Names(list) = Names(Tail(list)) \cup {Head(list)}
<1>1. PICK rest : rest = Tail(list)
  OBVIOUS
<1>2. PICK n \in Nat : n = Len(rest)
  BY <1>1, HeadTailProperties
<1>3. /\ rest \in Seq(Persons) /\ Len(list) = n + 1 /\ list[1] = Head(list) /\ Head(list) \in Persons
      /\ \A i \in 1 .. n : rest[i] = list[i + 1]
  BY <1>1, <1>2, HeadTailProperties
<1>4. ASSUME NEW i \in 1 .. n + 1
      PROVE  list[i] \in Names(rest) \cup {Head(list)}
  <2>1. CASE i = 1
    BY <1>3, <2>1
  <2>2. CASE i # 1
    <3>1. i - 1 \in 1 .. n /\ rest[i - 1] = list[i]
      BY <1>3, <2>2
    <3> QED BY <1>2, <3>1 DEF Names
  <2> QED BY <2>1, <2>2
<1>5. ASSUME NEW i \in 1 .. n
      PROVE  rest[i] \in Names(list)
  <2>1. i + 1 \in 1 .. Len(list)
    BY <1>3
  <2> QED BY <1>3, <2>1 DEF Names
<1>6. Head(list) \in Names(list)
  BY <1>3 DEF Names
<1>7. Names(list) = Names(rest) \cup {Head(list)}
  BY <1>2, <1>3, <1>4, <1>5, <1>6 DEF Names
<1> QED BY <1>1, <1>3, <1>7

\* One stanza more.
LEMMA OneStanzaMore ==
  ASSUME NEW list \in Seq(Stanzas), NEW s \in Stanzas, NEW latest, NEW u, NEW up,
         \A i \in 1 .. Len(list) : Expected(list[i], latest, u, up), Expected(s, latest, u, up),
         NEW more, more = Append(list, s)
  PROVE  more \in Seq(Stanzas) /\ \A i \in 1 .. Len(more) : Expected(more[i], latest, u, up)
<1>1. PICK n \in Nat : n = Len(list)
  OBVIOUS
<1>2. more \in Seq(Stanzas) /\ Len(more) = n + 1 /\ more[n + 1] = s /\ \A i \in 1 .. n : more[i] = list[i]
  BY <1>1, AppendProperties
<1>3. ASSUME NEW i \in 1 .. n + 1
      PROVE  Expected(more[i], latest, u, up)
  <2>1. CASE i = n + 1
    BY <1>2, <2>1
  <2>2. CASE i # n + 1
    BY <1>1, <1>2, <2>2
  <2> QED BY <2>1, <2>2
<1> QED BY <1>2, <1>3

LEMMA StanzasMore ==
  ASSUME NEW list \in Seq(Stanzas), NEW others \in Seq(Stanzas), NEW latest, NEW u, NEW up,
         \A i \in 1 .. Len(list) : Expected(list[i], latest, u, up),
         \A i \in 1 .. Len(others) : Expected(others[i], latest, u, up),
         NEW more, more = list \o others
  PROVE  more \in Seq(Stanzas) /\ \A i \in 1 .. Len(more) : Expected(more[i], latest, u, up)
<1>1. PICK n \in Nat : n = Len(list)
  OBVIOUS
<1>2. PICK m \in Nat : m = Len(others)
  OBVIOUS
<1>3. /\ more \in Seq(Stanzas) /\ Len(more) = n + m
      /\ \A i \in 1 .. n : more[i] = list[i]
      /\ \A i \in n + 1 .. n + m : more[i] = others[i - n]
  BY <1>1, <1>2, Joined
<1>4. ASSUME NEW i \in 1 .. n + m
      PROVE  Expected(more[i], latest, u, up)
  <2>1. CASE i <= n
    BY <1>1, <1>3, <2>1
  <2>2. CASE ~(i <= n)
    <3>1. i \in n + 1 .. n + m /\ i - n \in 1 .. m
      BY <2>2
    <3> QED BY <1>2, <1>3, <3>1
  <2> QED BY <2>1, <2>2
<1> QED BY <1>3, <1>4

\* A stanza less.
LEMMA OneStanzaLess ==
  ASSUME NEW list \in Seq(Stanzas), list # << >>, NEW latest, NEW u, NEW up,
         \A i \in 1 .. Len(list) : Expected(list[i], latest, u, up)
  PROVE  /\ Head(list) \in Stanzas /\ Expected(Head(list), latest, u, up)
         /\ Tail(list) \in Seq(Stanzas)
         /\ \A i \in 1 .. Len(Tail(list)) : Expected(Tail(list)[i], latest, u, up)
<1>1. PICK rest : rest = Tail(list)
  OBVIOUS
<1>2. PICK n \in Nat : n = Len(rest)
  BY <1>1, HeadTailProperties
<1>3. /\ rest \in Seq(Stanzas) /\ Len(list) = n + 1 /\ list[1] = Head(list) /\ Head(list) \in Stanzas
      /\ \A i \in 1 .. n : rest[i] = list[i + 1]
  BY <1>1, <1>2, HeadTailProperties
<1>4. \A i \in 1 .. n : i + 1 \in 1 .. n + 1
  OBVIOUS
<1>5. 1 \in 1 .. n + 1
  OBVIOUS
<1> QED BY <1>1, <1>2, <1>3, <1>4, <1>5

\* The errors of the chat server for the queries it cannot deliver.
LEMMA SentBack ==
  ASSUME NEW x
  PROVE  Jabba!SetToSeq({}) = << >> /\ Jabba!SetToSeq({x}) = <<x>>
<1>1. \A S : Jabba!Cardinality(S) = Cardinality(S)
  BY DEF Jabba!Cardinality, Cardinality
<1>2. Jabba!SetToSeq({}) = << >>
  <2>1. Jabba!Cardinality({}) = 0
    BY <1>1, FS_EmptySet
  <2>2. PICK f : f = Jabba!SetToSeq({})
    OBVIOUS
  <2>3. PICK none : none = {g \in [1 .. 0 -> {}] : Jabba!IsInjective(g)}
    OBVIOUS
  <2>4. f = CHOOSE g \in [1 .. 0 -> {}] : Jabba!IsInjective(g)
    BY <2>1, <2>2 DEF Jabba!SetToSeq
  <2>5. << >> \in [1 .. 0 -> {}] /\ Jabba!IsInjective(<< >>)
    BY DEF Jabba!IsInjective
  <2>6. f \in [1 .. 0 -> {}]
    BY <2>4, <2>5
  <2> QED BY <2>2, <2>6
<1>3. Jabba!SetToSeq({x}) = <<x>>
  <2>1. Jabba!Cardinality({x}) = 1
    BY <1>1, FS_Singleton
  <2>2. PICK f : f = Jabba!SetToSeq({x})
    OBVIOUS
  <2>3. f = CHOOSE g \in [1 .. 1 -> {x}] : Jabba!IsInjective(g)
    BY <2>1, <2>2 DEF Jabba!SetToSeq
  <2>4. [i \in 1 .. 1 |-> x] \in [1 .. 1 -> {x}] /\ Jabba!IsInjective([i \in 1 .. 1 |-> x])
    BY DEF Jabba!IsInjective
  <2>5. f \in [1 .. 1 -> {x}]
    BY <2>3, <2>4
  <2>6. f = [i \in 1 .. 1 |-> x]
    BY <2>5
  <2>7. <<x>> = [i \in 1 .. 1 |-> x]
    OBVIOUS
  <2> QED BY <2>2, <2>6, <2>7
<1> QED BY <1>2, <1>3

\* The handlers for something else do nothing.
LEMMA NothingToDo ==
  ASSUME handlers = << >> \/ handlers = <<Jabba!ChatHandler>>, NEW s, NEW c, c = Jabba!Handle(s)
  PROVE  c = Jabba!Client
<1>1. CASE handlers = << >>
  <2>1. Len(handlers) = 0
    BY <1>1
  <2>2. \A x, y : x = Called(handlers[1], Jabba!Client, s) /\ y = Called(handlers[2], x, s) =>
          Jabba!Handle(s) = Jabba!Client
    BY <2>1, HandledByTwo
  <2> QED BY <2>2
<1>2. CASE handlers = <<Jabba!ChatHandler>>
  <2>1. Len(handlers) = 1 /\ handlers[1] = Jabba!ChatHandler
    BY <1>2
  <2>2. \A x, y : x = Called(handlers[1], Jabba!Client, s) /\ y = Called(handlers[2], x, s) =>
          Jabba!Handle(s) = x
    BY <2>1, HandledByTwo
  <2>3. Called(Jabba!ChatHandler, Jabba!Client, s) = Jabba!Client
    BY DEF Called, Jabba!Callback, Jabba!ChatHandler
  <2> QED BY <2>1, <2>2, <2>3
<1> QED BY <1>1, <1>2

\* The client hears a stanza.  What it then has is c, and what others have is the same.
LEMMA HearKeeps ==
  ASSUME JabbaInv, Jabba!Hear
  PROVE  JabbaInv' /\ (verdict' = 1 => met \ Known # {} \/ directory = "down")
<1>1. PICK s : s = Head(inbox)
  OBVIOUS
<1>2. PICK rest : rest = Tail(inbox)
  OBVIOUS
<1>3. PICK c : c = Jabba!Handle(s)
  OBVIOUS
<1>4. /\ verdict = Jabba!Running /\ phase # "done" /\ inbox # << >>
      /\ handlers' = c.handlers /\ chatters' = c.chatters /\ nextId' = c.nextId /\ info' = c.info
      /\ phase' = c.phase /\ verdict' = c.verdict /\ met' = c.met
      /\ UNCHANGED <<room, directory, lost, moves>>
  BY <1>1, <1>3 DEF Jabba!Hear, JabbaInv, JabbaTypes
<1>5. /\ directory = "up" /\ queries' = queries \cup c.sent /\ inbox' = rest
      \/ /\ directory = "down" /\ queries' = queries
         /\ inbox' = rest \o Jabba!SetToSeq({Jabba!Reply(q, "error") : q \in c.sent})
  BY <1>1, <1>2, <1>3 DEF Jabba!Hear, JabbaInv, JabbaTypes
<1>6. PICK n \in Nat \ {0} : nextId = n + 1 /\ nextId - 1 = n
  BY DEF JabbaInv, JabbaTypes
<1>7. PICK u \in Persons : Progress(u)
  BY DEF JabbaInv
<1>8. /\ s \in Stanzas /\ Expected(s, n, u, directory = "up")
      /\ rest \in Seq(Stanzas) /\ \A i \in 1 .. Len(rest) : Expected(rest[i], n, u, directory = "up")
  BY <1>1, <1>2, <1>4, <1>6, <1>7, OneStanzaLess DEF JabbaInv, JabbaTypes, Progress
<1>9. /\ chatters \in Seq(Persons) /\ queries \subseteq [id : Nat, user : Persons] /\ room \subseteq Persons
      /\ directory \in {"up", "down"} /\ nextId \in Nat \ {0, 1}
  BY DEF JabbaInv, JabbaTypes
<1>10. ASSUME c.sent = {}, c.nextId = nextId
       PROVE  /\ inbox' \in Seq(Stanzas) /\ queries' = queries
              /\ \A i \in 1 .. Len(inbox') : Expected(inbox'[i], n, u, directory = "up")
  <2>1. {Jabba!Reply(q, "error") : q \in c.sent} = {}
    BY <1>10
  <2>2. rest \o << >> = rest
    BY <1>8
  <2>3. inbox' = rest /\ queries' = queries
    BY <1>5, <1>10, <2>1, <2>2, SentBack
  <2> QED BY <1>8, <2>3
<1>11. ASSUME NEW names \in Seq(Persons), names # << >>, Asks(c, names)
       PROVE  /\ JabbaTypes' /\ Jabba!HandlersFit'
              /\ \A i \in 1 .. Len(inbox') : Expected(inbox'[i], nextId, Head(names), directory = "up")
              /\ \A q \in queries' : q.id <= nextId /\ (q.id = nextId => q.user = Head(names))
              /\ Names(names) = Names(chatters') \cup {Head(names)} /\ Head(names) \in Persons
              /\ phase' = "lookup" /\ nextId' - 1 = nextId
  <2>1. /\ c.phase = "lookup" /\ c.verdict = Jabba!Running
        /\ c.chatters = Tail(names) /\ c.nextId = nextId + 1
        /\ c.handlers = <<Jabba!SuccessHandler(nextId), Jabba!ErrorHandler(nextId)>>
    BY <1>11 DEF Asks
  <2>2. PICK q \in [id : Nat, user : Persons] : q = [id |-> nextId, user |-> Head(names)] /\ c.sent = {q}
    BY <1>9, <1>11, NamesShrink DEF Asks
  <2>3. q.id = nextId /\ q.user = Head(names)
    BY <2>2
  <2>4. /\ Tail(names) \in Seq(Persons) /\ Head(names) \in Persons
        /\ Names(names) = Names(Tail(names)) \cup {Head(names)}
    BY <1>11, NamesShrink
  <2>5. queries' \subseteq [id : Nat, user : Persons] /\ \A p \in queries' : p \in queries \/ p = q
    BY <1>5, <1>9, <2>2
  <2>6. \A p \in queries' : p.id <= nextId /\ (p.id = nextId => p.user = Head(names))
    <3>1. \A p \in queries : p.id \in Nat /\ p.id <= n
      BY <1>6, <1>7, <1>9 DEF Progress
    <3>2. \A p \in queries : p.id <= nextId /\ p.id # nextId
      BY <1>6, <3>1
    <3>3. q.id <= nextId /\ q.user = Head(names)
      BY <1>9, <2>3
    <3> QED BY <2>5, <3>2, <3>3
  <2>7. \A i \in 1 .. Len(rest) : Expected(rest[i], nextId, Head(names), directory = "up")
    <3>1. ASSUME NEW x \in Stanzas, Expected(x, n, u, directory = "up")
          PROVE  Expected(x, nextId, Head(names), directory = "up")
      <4>1. x.id \in Nat
        BY DEF Stanzas
      <4>2. x.name = "iq" => x.id <= nextId /\ x.id # nextId
        BY <1>6, <3>1, <4>1 DEF Expected
      <4> QED BY <3>1, <4>2 DEF Expected
    <3>2. \A i \in 1 .. Len(rest) : rest[i] \in Stanzas
      BY <1>8
    <3> QED BY <1>8, <3>1, <3>2
  <2>8. inbox' \in Seq(Stanzas) /\ \A i \in 1 .. Len(inbox') : Expected(inbox'[i], nextId, Head(names), directory = "up")
    <3>1. CASE directory = "up"
      BY <1>5, <1>8, <2>7, <3>1
    <3>2. CASE directory = "down"
      <4>1. PICK back : back = Jabba!Reply(q, "error")
        OBVIOUS
      <4>2. back \in Stanzas
        BY <2>2, <2>3, <4>1 DEF Jabba!Reply, Stanzas
      <4>3. Expected(back, nextId, Head(names), directory = "up")
        BY <1>9, <2>3, <3>2, <4>1 DEF Jabba!Reply, Expected
      <4>4. {Jabba!Reply(p, "error") : p \in c.sent} = {back}
        BY <2>2, <4>1
      <4>5. PICK others : others = <<back>>
        OBVIOUS
      <4>6. inbox' = rest \o others
        BY <1>5, <3>2, <4>4, <4>5, SentBack
      <4>7. others \in Seq(Stanzas) /\ \A i \in 1 .. Len(others) : Expected(others[i], nextId, Head(names), directory = "up")
        BY <4>2, <4>3, <4>5
      <4> QED BY <1>8, <2>7, <4>6, <4>7, StanzasMore
    <3> QED BY <1>9, <3>1, <3>2
  <2>9. JabbaTypes'
    BY <1>4, <1>9, <2>1, <2>4, <2>5, <2>8 DEF JabbaTypes, Jabba!Running
  <2>10. nextId' - 1 = nextId /\ phase' = "lookup" /\ chatters' = Tail(names)
    BY <1>4, <1>9, <2>1
  <2>11. Jabba!HandlersFit'
    BY <1>4, <2>1, <2>10 DEF Jabba!HandlersFit
  <2> QED BY <2>4, <2>6, <2>8, <2>9, <2>10, <2>11
<1>12. CASE c = Jabba!Client
  <2>1. UNCHANGED <<handlers, chatters, nextId, info, phase, verdict, met>> /\ c.sent = {} /\ c.nextId = nextId
    BY <1>4, <1>12 DEF Jabba!Client
  <2>2. JabbaTypes'
    BY <1>4, <1>9, <1>10, <2>1 DEF JabbaInv, JabbaTypes
  <2>3. Progress(u)'
    BY <1>4, <1>6, <1>7, <1>10, <2>1 DEF Progress
  <2>4. Jabba!HandlersFit'
    BY <2>1 DEF JabbaInv, Jabba!HandlersFit
  <2>5. verdict' # 1
    BY <1>4, <2>1 DEF Jabba!Running
  <2> QED BY <2>1, <2>2, <2>3, <2>4, <2>5 DEF JabbaInv
<1>13. CASE phase = "joining" /\ c # Jabba!Client
  <2>1. handlers = <<Jabba!JoinHandler>>
    BY <1>4, <1>13 DEF JabbaInv, Jabba!HandlersFit
  <2>2. PICK names : names = Append(chatters, s.from)
    OBVIOUS
  <2>3. s.from \in Persons
    BY <1>8 DEF Stanzas
  <2>4. names \in Seq(Persons) /\ names # << >> /\ Names(names) = Names(chatters) \cup {s.from}
    BY <1>9, <2>2, <2>3, NamesGrow
  <2>5. /\ c.info = info /\ c.met = met \cup {s.from}
        /\ s.from = Me => Asks(c, names)
        /\ s.from # Me =>
             /\ c.phase = phase /\ c.verdict = Jabba!Running /\ c.chatters = names
             /\ c.nextId = nextId /\ c.handlers = handlers /\ c.sent = {}
    <3>1. nextId \in Nat \ {0} /\ s.name = "presence"
      BY <1>3, <1>4, <1>8, <1>9, <1>13, <2>1, <2>2, Joins
    <3> QED BY <1>3, <1>4, <1>8, <1>9, <2>1, <2>2, <3>1, Joins
  <2>6. info' = {} /\ met' = Names(names)
    BY <1>4, <1>13, <2>4, <2>5 DEF JabbaInv
  <2>7. CASE s.from = Me
    <3>1. Progress(Head(names))'
      BY <1>4, <1>11, <2>4, <2>5, <2>6, <2>7 DEF Progress
    <3>2. Me \in met' /\ verdict' # 1
      BY <1>4, <2>4, <2>5, <2>6, <2>7 DEF Asks, Jabba!Running
    <3> QED BY <1>11, <2>4, <2>5, <2>7, <3>1, <3>2 DEF JabbaInv
  <2>8. CASE s.from # Me
    <3>1. JabbaTypes'
      BY <1>4, <1>9, <1>10, <1>13, <2>4, <2>5, <2>8 DEF JabbaTypes
    <3>2. Progress(u)'
      BY <1>4, <1>6, <1>7, <1>10, <1>13, <2>5, <2>8 DEF Progress
    <3>3. Jabba!HandlersFit'
      BY <1>4, <2>5, <2>8 DEF JabbaInv, Jabba!HandlersFit
    <3>4. verdict' # 1 /\ phase' = "joining" /\ chatters' = names
      BY <1>4, <1>13, <2>5, <2>8 DEF Jabba!Running
    <3> QED BY <2>6, <3>1, <3>2, <3>3, <3>4 DEF JabbaInv
  <2> QED BY <2>7, <2>8
<1>14. CASE phase = "lookup" /\ c # Jabba!Client
  <2>1. handlers = <<Jabba!SuccessHandler(n), Jabba!ErrorHandler(n)>>
    BY <1>4, <1>6, <1>14 DEF JabbaInv, Jabba!HandlersFit
  <2>2. met = info \cup Names(chatters) \cup {u} /\ Me \in met
    BY <1>7, <1>14 DEF Progress, JabbaInv
  <2>3. \/ /\ s.name = "iq" /\ s.type = "error" /\ s.id = n
           /\ c.phase = "done" /\ c.verdict = 1 /\ c.sent = {} /\ c.nextId = nextId
           /\ c.chatters = chatters /\ c.info = info /\ c.met = met
        \/ /\ s.name = "iq" /\ s.type = "result" /\ s.id = n
           /\ c.info = info \cup {s.from} /\ c.met = met
           /\ \/ chatters # << >> /\ Asks(c, chatters)
              \/ /\ chatters = << >> /\ c.phase = "informed" /\ c.verdict = Jabba!Running
                 /\ c.chatters = << >> /\ c.nextId = nextId /\ c.handlers = << >> /\ c.sent = {}
    BY <1>3, <1>4, <1>6, <1>8, <1>9, <1>14, <2>1, LooksUp
  <2>4. s.from = u /\ (s.type = "error" => u \notin Known \/ directory # "up")
    BY <1>8, <2>3 DEF Expected
  <2>5. CASE s.type = "error"
    <3>1. /\ c.phase = "done" /\ c.verdict = 1 /\ c.sent = {} /\ c.nextId = nextId
          /\ c.chatters = chatters /\ c.info = info /\ c.met = met
      BY <2>3, <2>5
    <3>2. JabbaTypes'
      BY <1>4, <1>9, <1>10, <3>1 DEF JabbaTypes, Jabba!Running
    <3>3. Progress(u)'
      BY <1>4, <1>6, <1>7, <1>10, <3>1 DEF Progress
    <3>4. Jabba!HandlersFit'
      BY <1>4, <3>1 DEF Jabba!HandlersFit, Jabba!Running
    <3>5. met \ Known # {} \/ directory = "down"
      BY <1>9, <2>2, <2>4, <2>5
    <3> QED BY <1>4, <3>1, <3>2, <3>3, <3>4, <3>5 DEF JabbaInv
  <2>6. CASE s.type = "result" /\ chatters # << >>
    <3>1. Asks(c, chatters) /\ c.info = info \cup {u} /\ c.met = met
      BY <2>3, <2>4, <2>6
    <3>2. /\ JabbaTypes' /\ Jabba!HandlersFit'
          /\ \A i \in 1 .. Len(inbox') : Expected(inbox'[i], nextId, Head(chatters), directory = "up")
          /\ \A q \in queries' : q.id <= nextId /\ (q.id = nextId => q.user = Head(chatters))
          /\ Names(chatters) = Names(chatters') \cup {Head(chatters)} /\ Head(chatters) \in Persons
          /\ phase' = "lookup" /\ nextId' - 1 = nextId
      BY <1>9, <1>11, <2>6, <3>1
    <3>3. met' = info' \cup Names(chatters') \cup {Head(chatters)} /\ Me \in met'
      BY <1>4, <2>2, <3>1, <3>2
    <3>4. PICK v \in Persons : v = Head(chatters)
      BY <3>2
    <3>5. Progress(v)'
      BY <1>4, <3>2, <3>3, <3>4 DEF Progress
    <3>6. verdict' # 1
      BY <1>4, <3>1 DEF Asks, Jabba!Running
    <3> QED BY <3>2, <3>3, <3>5, <3>6 DEF JabbaInv
  <2>7. CASE s.type = "result" /\ chatters = << >>
    <3>1. /\ c.phase = "informed" /\ c.verdict = Jabba!Running /\ c.info = info \cup {u} /\ c.met = met
          /\ c.chatters = << >> /\ c.nextId = nextId /\ c.handlers = << >> /\ c.sent = {}
      BY <2>3, <2>4, <2>7
    <3>2. JabbaTypes'
      BY <1>4, <1>9, <1>10, <3>1 DEF JabbaTypes
    <3>3. Progress(u)'
      BY <1>4, <1>6, <1>7, <1>10, <3>1 DEF Progress
    <3>4. Jabba!HandlersFit'
      BY <1>4, <3>1 DEF Jabba!HandlersFit
    <3>5. Names(chatters) = {}
      BY <2>7 DEF Names
    <3>6. info' = met' /\ Me \in met'
      BY <1>4, <2>2, <3>1, <3>5
    <3>7. verdict' # 1 /\ phase' = "informed"
      BY <1>4, <3>1 DEF Jabba!Running
    <3> QED BY <3>2, <3>3, <3>4, <3>6, <3>7 DEF JabbaInv
  <2> QED BY <2>3, <2>5, <2>6, <2>7
<1>15. CASE phase \notin {"joining", "lookup"}
  <2>1. handlers = << >> \/ handlers = <<Jabba!ChatHandler>>
    BY <1>4, <1>15 DEF JabbaInv, Jabba!HandlersFit
  <2> QED BY <1>3, <1>12, <2>1, NothingToDo
<1> QED BY <1>12, <1>13, <1>14, <1>15

\* The steps of everybody else, and those of the client that hear nothing.
LEMMA JabbaKeeps ==
  ASSUME JabbaInv, Jabba!Next
  PROVE  /\ JabbaInv'
         /\ verdict = Jabba!Running /\ verdict' = 1 /\ phase \notin {"create", "website"} /\ ~Jabba!ConnectionFails
              => met \ Known # {} \/ directory = "down"
<1>1. JabbaTypes /\ Jabba!HandlersFit
  BY DEF JabbaInv
<1>2. PICK u \in Persons : Progress(u)
  BY DEF JabbaInv
<1>3. ASSUME UNCHANGED <<handlers, inbox, chatters, nextId, info, met, room, directory, queries>>,
             verdict' \in {0, 1}, phase' = "done"
      PROVE  JabbaInv'
  <2>1. JabbaTypes'
    BY <1>1, <1>3 DEF JabbaTypes, Jabba!Running
  <2>2. Jabba!HandlersFit'
    BY <1>3 DEF Jabba!HandlersFit, Jabba!Running
  <2>3. Progress(u)'
    BY <1>2, <1>3 DEF Progress
  <2> QED BY <1>3, <2>1, <2>2, <2>3 DEF JabbaInv
<1>4. ASSUME NEW to, NEW from, Jabba!Step(from, to), UNCHANGED <<handlers, inbox>>, room' \subseteq Persons,
             <<from, to>> \in {<<"website", "connecting">>, <<"chatting", "left">>}
      PROVE  JabbaInv' /\ verdict' = verdict
  <2>1. /\ phase = from /\ phase' = to
        /\ UNCHANGED <<verdict, chatters, nextId, info, met, directory, queries>>
    BY <1>4 DEF Jabba!Step
  <2>2. JabbaTypes'
    BY <1>1, <1>4, <2>1 DEF JabbaTypes
  <2>3. Jabba!HandlersFit'
    BY <1>1, <1>4, <2>1 DEF Jabba!HandlersFit
  <2>4. Progress(u)'
    BY <1>2, <1>4, <2>1 DEF Progress
  <2> QED BY <1>4, <2>1, <2>2, <2>3, <2>4 DEF JabbaInv
<1>5. CASE Jabba!Hear
  BY <1>5, HearKeeps
<1>6. CASE Jabba!Created \/ Jabba!Succeed \/ Jabba!ConnectionFails \/ (phase = "website" /\ Jabba!Exit(1))
  <2>1. PICK status \in {0, 1} : Jabba!Exit(status)
    BY <1>6 DEF Jabba!Created, Jabba!Succeed, Jabba!ConnectionFails
  <2>2. JabbaInv'
    BY <1>3, <2>1 DEF Jabba!Exit, Jabba!serverVars
  <2>3. verdict' = 1 => phase \in {"create", "website"} \/ Jabba!ConnectionFails
    BY <1>6 DEF Jabba!Created, Jabba!Succeed, Jabba!Exit
  <2> QED BY <2>2, <2>3
<1>7. CASE Jabba!Step("website", "connecting") /\ UNCHANGED <<handlers, inbox, room>>
  <2>1. JabbaInv' /\ verdict' = verdict
    BY <1>1, <1>4, <1>7 DEF JabbaTypes
  <2> QED BY <2>1 DEF Jabba!Running
<1>8. CASE Jabba!Online
  <2>1. /\ phase = "connecting" /\ phase' = "joining" /\ handlers' = Append(handlers, Jabba!JoinHandler)
        /\ UNCHANGED <<verdict, chatters, nextId, info, met, directory, queries, inbox, room>>
    BY <1>8 DEF Jabba!Online, Jabba!Step
  <2>2. verdict = Jabba!Running /\ handlers = << >>
    BY <1>1, <2>1 DEF JabbaTypes, Jabba!HandlersFit
  <2>3. JabbaTypes'
    BY <1>1, <2>1 DEF JabbaTypes
  <2>4. handlers' = <<Jabba!JoinHandler>>
    BY <2>1, <2>2
  <2>5. Jabba!HandlersFit'
    BY <2>1, <2>4 DEF Jabba!HandlersFit
  <2>6. Progress(u)'
    BY <1>2, <2>1 DEF Progress
  <2>7. info' = {} /\ met' = Names(chatters')
    BY <2>1 DEF JabbaInv
  <2> QED BY <2>1, <2>2, <2>3, <2>5, <2>6, <2>7 DEF JabbaInv, Jabba!Running
<1>9. ASSUME NEW list \in Seq(Stanzas), inbox' = list, room' \subseteq Persons,
             \A i \in 1 .. Len(list) : Expected(list[i], nextId - 1, u, directory' = "up"),
             queries' \subseteq queries, directory' \in {"up", "down"},
             UNCHANGED <<phase, verdict, handlers, chatters, nextId, info, met>>
      PROVE  JabbaInv' /\ verdict' = verdict
  <2>1. JabbaTypes'
    BY <1>1, <1>9 DEF JabbaTypes
  <2>2. Jabba!HandlersFit'
    BY <1>1, <1>9 DEF Jabba!HandlersFit
  <2>3. Progress(u)'
    BY <1>2, <1>9 DEF Progress
  <2> QED BY <1>9, <2>1, <2>2, <2>3 DEF JabbaInv
<1>10. /\ inbox \in Seq(Stanzas) /\ room \subseteq Persons /\ directory \in {"up", "down"}
       /\ \A i \in 1 .. Len(inbox) : Expected(inbox[i], nextId - 1, u, directory = "up")
  BY <1>1, <1>2 DEF JabbaTypes, Progress
<1>11. ASSUME NEW p \in Persons, NEW type \in {"available", "unavailable"}
       PROVE  /\ Jabba!Presence(p, type) \in Stanzas
              /\ Expected(Jabba!Presence(p, type), nextId - 1, u, directory = "up")
  BY DEF Jabba!Presence, Stanzas, Expected
<1>12. CASE Jabba!Enter
  <2>1. PICK order \in Jabba!SetToSeqs(room) :
          inbox' = inbox \o [i \in DOMAIN order |-> Jabba!Presence(order[i], "available")]
                         \o <<Jabba!Presence(Me, "available")>>
    BY <1>12 DEF Jabba!Enter
  <2>2. /\ room' = room \cup {Me}
        /\ UNCHANGED <<phase, verdict, handlers, chatters, nextId, info, met, directory, queries>>
    BY <1>12 DEF Jabba!Enter, Jabba!clientVars
  <2>3. PICK n \in Nat : order \in [1 .. n -> room]
    <3>1. IsFiniteSet(room)
      <4>1. IsFiniteSet(Persons)
        BY PartsAssumption, FS_AddElement DEF Persons
      <4> QED BY <1>10, <4>1, FS_Subset
    <3>2. Jabba!Cardinality(room) = Cardinality(room)
      BY DEF Jabba!Cardinality, Cardinality
    <3> QED BY <3>1, <3>2, FS_CardinalityType DEF Jabba!SetToSeqs
  <2>4. PICK others : others = [i \in 1 .. n |-> Jabba!Presence(order[i], "available")]
    OBVIOUS
  <2>5. others \in Seq(Stanzas) /\ \A i \in 1 .. Len(others) : Expected(others[i], nextId - 1, u, directory = "up")
    <3>1. \A i \in 1 .. n : order[i] \in Persons
      BY <1>10, <2>3
    <3>2. \A i \in 1 .. n : others[i] \in Stanzas /\ Expected(others[i], nextId - 1, u, directory = "up")
      BY <1>11, <2>4, <3>1
    <3>3. others = [i \in 1 .. n |-> others[i]]
      BY <2>4
    <3>4. others \in Seq(Stanzas) /\ Len(others) = n
      BY <3>2, <3>3
    <3> QED BY <3>2, <3>4
  <2>6. PICK last : last = <<Jabba!Presence(Me, "available")>>
    OBVIOUS
  <2>7. last \in Seq(Stanzas) /\ \A i \in 1 .. Len(last) : Expected(last[i], nextId - 1, u, directory = "up")
    BY <1>11, <2>6 DEF Persons
  <2>8. PICK list : list = inbox \o others
    OBVIOUS
  <2>9. list \in Seq(Stanzas) /\ \A i \in 1 .. Len(list) : Expected(list[i], nextId - 1, u, directory = "up")
    BY <1>10, <2>5, <2>8, StanzasMore
  <2>10. PICK more : more = list \o last
    OBVIOUS
  <2>11. more \in Seq(Stanzas) /\ \A i \in 1 .. Len(more) : Expected(more[i], nextId - 1, u, directory = "up")
    BY <2>7, <2>9, <2>10, StanzasMore
  <2>12. inbox' = more
    BY <2>1, <2>3, <2>4, <2>6, <2>8, <2>10
  <2>13. room' \subseteq Persons
    BY <1>10, <2>2 DEF Persons
  <2>14. JabbaInv' /\ verdict' = verdict
    BY <1>9, <1>10, <2>2, <2>11, <2>12, <2>13
  <2> QED BY <2>14 DEF Jabba!Running
<1>13. CASE Jabba!Chat
  <2>1. /\ phase = "informed" /\ phase' = "chatting" /\ handlers' = Append(handlers, Jabba!ChatHandler)
        /\ inbox' = Append(inbox, [name |-> "message", type |-> "groupchat", from |-> Me, id |-> 0])
        /\ UNCHANGED <<verdict, chatters, nextId, info, met, directory, queries, room>>
    BY <1>13 DEF Jabba!Chat, Jabba!Step
  <2>2. verdict = Jabba!Running /\ handlers = << >>
    BY <1>1, <2>1 DEF JabbaTypes, Jabba!HandlersFit
  <2>3. PICK s \in Stanzas : s = [name |-> "message", type |-> "groupchat", from |-> Me, id |-> 0]
    BY DEF Stanzas, Persons
  <2>4. Expected(s, nextId - 1, u, directory = "up")
    BY <2>3 DEF Expected
  <2>5. inbox' \in Seq(Stanzas) /\ \A i \in 1 .. Len(inbox') : Expected(inbox'[i], nextId - 1, u, directory = "up")
    BY <1>10, <2>1, <2>3, <2>4, OneStanzaMore
  <2>6. JabbaTypes'
    BY <1>1, <2>1, <2>5 DEF JabbaTypes
  <2>7. handlers' = <<Jabba!ChatHandler>>
    BY <2>1, <2>2
  <2>8. Jabba!HandlersFit'
    BY <2>1, <2>7 DEF Jabba!HandlersFit
  <2>9. Progress(u)'
    BY <1>2, <2>1, <2>5 DEF Progress
  <2>10. Me \in met' /\ info' = met'
    BY <2>1 DEF JabbaInv
  <2> QED BY <2>1, <2>2, <2>6, <2>8, <2>9, <2>10 DEF JabbaInv, Jabba!Running
<1>14. CASE Jabba!Leave
  <2>1. JabbaInv' /\ verdict' = verdict
    BY <1>4, <1>10, <1>14 DEF Jabba!Leave
  <2> QED BY <2>1 DEF Jabba!Running
<1>15. ASSUME NEW q \in queries, Jabba!Answer(q)
       PROVE  JabbaInv' /\ verdict' = verdict
  <2>1. PICK s : s = Jabba!Reply(q, IF q.user \in Known THEN "result" ELSE "error")
    OBVIOUS
  <2>2. /\ inbox' = Append(inbox, s) /\ queries' = queries \ {q}
        /\ UNCHANGED <<phase, verdict, handlers, chatters, nextId, info, met, room, directory>>
    BY <1>15, <2>1 DEF Jabba!Answer, Jabba!clientVars
  <2>3. q.id \in Nat /\ q.user \in Persons /\ q.id <= nextId - 1 /\ (q.id = nextId - 1 => q.user = u)
    BY <1>1, <1>2 DEF JabbaTypes, Progress
  <2>4. s \in Stanzas
    BY <2>1, <2>3 DEF Jabba!Reply, Stanzas
  <2>5. Expected(s, nextId - 1, u, directory = "up")
    BY <2>1, <2>3 DEF Jabba!Reply, Expected
  <2>6. inbox' \in Seq(Stanzas) /\ \A i \in 1 .. Len(inbox') : Expected(inbox'[i], nextId - 1, u, directory = "up")
    BY <1>10, <2>2, <2>4, <2>5, OneStanzaMore
  <2> QED BY <1>9, <1>10, <2>2, <2>6
<1>16. CASE Jabba!DirectoryFails
  <2>1. /\ directory' = "down" /\ queries' = {}
        /\ UNCHANGED <<phase, verdict, handlers, chatters, nextId, info, met, inbox, room>>
    BY <1>16 DEF Jabba!DirectoryFails, Jabba!clientVars
  <2>2. \A i \in 1 .. Len(inbox) : Expected(inbox[i], nextId - 1, u, directory' = "up")
    BY <1>10, <2>1 DEF Expected
  <2>3. JabbaInv' /\ verdict' = verdict
    BY <1>9, <1>10, <2>1, <2>2
  <2> QED BY <2>3 DEF Jabba!Running
<1>17. ASSUME NEW p \in Others, Jabba!Move(p)
       PROVE  JabbaInv' /\ verdict' = verdict
  <2>1. PICK type \in {"available", "unavailable"} : type = IF p \in room THEN "unavailable" ELSE "available"
    OBVIOUS
  <2>2. PICK s : s = Jabba!Presence(p, type)
    OBVIOUS
  <2>3. /\ inbox' = Append(inbox, s) \/ inbox' = inbox
        /\ room' \subseteq room \cup {p}
        /\ UNCHANGED <<phase, verdict, handlers, chatters, nextId, info, met, directory, queries>>
    BY <1>17, <2>1, <2>2 DEF Jabba!Move, Jabba!clientVars
  <2>4. s \in Stanzas /\ Expected(s, nextId - 1, u, directory = "up") /\ room' \subseteq Persons
    BY <1>10, <1>11, <2>2, <2>3 DEF Persons
  <2>5. inbox' \in Seq(Stanzas) /\ \A i \in 1 .. Len(inbox') : Expected(inbox'[i], nextId - 1, u, directory = "up")
    <3>1. CASE inbox' = Append(inbox, s)
      BY <1>10, <2>4, <3>1, OneStanzaMore
    <3>2. CASE inbox' = inbox
      BY <1>10, <3>2
    <3> QED BY <2>3, <3>1, <3>2
  <2> QED BY <1>9, <1>10, <2>3, <2>4, <2>5
<1>18. verdict' = verdict => ~(verdict = Jabba!Running /\ verdict' = 1)
  BY DEF Jabba!Running
<1> QED
  BY <1>5, <1>6, <1>7, <1>8, <1>12, <1>13, <1>14, <1>15, <1>16, <1>17, <1>18
  DEF Jabba!Next, Jabba!ClientSteps, Jabba!DirectoryAnswers, Jabba!WebsiteAnswers

JabbaRight == which = "JabbaChat" => JabbaInv

LEMMA JabbaHolds == PartsSpec => []JabbaRight
<1>1. PartsInit => JabbaRight
  BY JabbaInitially DEF PartsInit, JabbaRight
<1>2. JabbaRight /\ [PartsNext]_partVars => JabbaRight'
  <2> SUFFICES ASSUME JabbaRight, [PartsNext]_partVars, which' = "JabbaChat"
               PROVE  JabbaInv'
    BY DEF JabbaRight
  <2>1. JabbaInv
    BY DEF JabbaRight, PartsNext, partVars
  <2>2. CASE Jabba!Next
    BY <2>1, <2>2, JabbaKeeps
  <2>3. CASE UNCHANGED jabbaVars
    <3>1. UNCHANGED <<phase, verdict, handlers, inbox, chatters, nextId, info, met, room, directory, queries>>
      BY <2>3 DEF jabbaVars
    <3> QED BY <2>1, <3>1 DEF JabbaInv, JabbaTypes, Progress, Jabba!HandlersFit
  <2> QED BY <2>2, <2>3 DEF PartsNext, partVars
<1> QED BY <1>1, <1>2, PTL DEF PartsSpec

\* client/client.js of JabbaChat: the check awaits the answer to the query it has sent
\* last and no other, and it says nothing in the room before it has information about
\* everybody it met there: for any people, and any number that come and go.
THEOREM NothingSaidUninformed == PartsSpec => []InformedOfAll
<1>1. JabbaRight => InformedOfAll
  BY DEF JabbaRight, JabbaInv, InformedOfAll, Jabba!InformedOfAll
<1> QED BY <1>1, JabbaHolds, PTL

\* client/client.js of JabbaChat: once the check is connected, the service is found to
\* be broken only if the connection fails, the directory has failed, or somebody was
\* met whom it does not know.
THEOREM NobodyBlamedWithoutReason == PartsSpec => BlamedWithReason
<1>1. JabbaRight /\ [PartsNext]_partVars => [which = "JabbaChat" => Jabba!Blamed]_partVars
  <2> SUFFICES ASSUME JabbaRight, PartsNext, which = "JabbaChat"
               PROVE  Jabba!Blamed
    OBVIOUS
  <2>1. JabbaInv /\ Jabba!Next
    BY DEF JabbaRight, PartsNext
  <2> QED BY <2>1, JabbaKeeps DEF Jabba!Blamed
<1> QED BY <1>1, JabbaHolds, PTL DEF PartsSpec, BlamedWithReason
=============================================================================
