----------------------------- MODULE PagesProofs ------------------------------
(*****************************************************************************)
(* The logs tab, the pages that show lists and the contribution graph, for   *)
(* logs, answers and years of any length; and of all the pages together,     *)
(* that each of them behaves as its own module says, which makes everything  *)
(* proved of a module a theorem of the composition.                          *)
(*****************************************************************************)
EXTENDS Pages, FormsProofs, SequenceTheorems, FiniteSetTheorems, WellFoundedInduction

-----------------------------------------------------------------------------
(* The logs tab.  A terminal that is not up to date may be updated later,    *)
(* from a longer log: what it shows must end before the lines that come      *)
(* next, which are those after Oldest + count of any later answer.           *)

InOrder(s) == \A i, j \in 1..Len(s) : i < j => s[i] < s[j]
UpTo(s, n) == \A i \in 1..Len(s) : s[i] <= n
Complete(t) == t.shown = [i \in 1..t.count |-> i]
TermType == [shown : Seq(1..MaxLines), count : 0..LogLimit]

\* What a terminal shows when the page knows n lines of `total`.
Ready(t, n, total) ==
    /\ t \in TermType
    /\ InOrder(t.shown) /\ UpTo(t.shown, Oldest(n) + t.count)
    /\ total <= LogLimit => Complete(t)

TermsInv ==
    /\ terms \in Seq(TermType)
    /\ \A t \in 1..Len(terms) : Ready(terms[t], env.lines, lines)

InitsInv == inits \in Seq(0..MaxLines) /\ \A i \in 1..Len(inits) : inits[i] <= env.lines

RestInv ==
    /\ lines \in 0..MaxLines /\ output \in 0..MaxOutput
    /\ status \in {"BUILDING", "RUNNING", "FAILED"}
    /\ env \in [lines : -1..MaxLines, status : {"BUILDING", "RUNNING", "FAILED", "none"}]
    /\ env.lines <= lines
    /\ tab \in {"logs", "workspace"}
    /\ env.lines = -1 => tab = "logs"
    /\ Len(inits) <= MaxInits
    /\ isRestarting \in BOOLEAN
    /\ answers \subseteq Shown /\ dockerLogs \in Shown
    /\ xterm \in 0..Len(terms)

LogsInv == RestInv /\ InitsInv /\ TermsInv

\* The lines of a longer log are no older, and a page never counts more than LogLimit.
LEMMA Window ==
  ASSUME NEW m \in -1..MaxLines, NEW n \in 0..MaxLines, m <= n
  PROVE  /\ Oldest(n) \in Nat /\ Oldest(m) \in Nat /\ Oldest(m) <= Oldest(n)
         /\ Length(n) \in 0..LogLimit /\ Oldest(n) + Length(n) = n
         /\ n <= LogLimit => Oldest(n) = 0
<1>1. LogLimit \in Nat /\ MaxLines \in Nat /\ m \in Int /\ n \in Nat
  BY LogsAssumption
<1>2. \A k \in Int : Oldest(k) = IF k > LogLimit THEN k - LogLimit ELSE 0
  BY DEF Oldest
<1>3. Oldest(n) \in Nat /\ Oldest(m) \in Nat /\ Oldest(m) <= Oldest(n)
  BY <1>1, <1>2
<1>4. Length(n) \in 0..LogLimit /\ Oldest(n) + Length(n) = n
  BY <1>1, <1>2 DEF Length
<1> QED
  BY <1>1, <1>2, <1>3, <1>4

\* The lines after the first k of an answer.
LEMMA SliceLines ==
  ASSUME NEW n \in 0..MaxLines, NEW k \in Nat, k <= Length(n)
  PROVE  /\ Slice(n, k) \in Seq(1..MaxLines)
         /\ Len(Slice(n, k)) = Length(n) - k
         /\ \A i \in 1..(Length(n) - k) : Slice(n, k)[i] = Oldest(n) + k + i
<1>1. /\ Oldest(n) \in Nat /\ Length(n) \in Nat /\ Oldest(n) + Length(n) = n
  BY Window
<1>2. Length(n) - k \in Nat
  BY <1>1
<1>3. \A i \in 1..(Length(n) - k) : Oldest(n) + k + i \in 1..MaxLines
  BY <1>1, LogsAssumption
<1>4. Slice(n, k) \in [1..(Length(n) - k) -> 1..MaxLines]
  BY <1>3 DEF Slice
<1>5. Slice(n, k) \in Seq(1..MaxLines)
  BY <1>2, <1>4, SeqDef
<1>6. Len(Slice(n, k)) = Length(n) - k
  <2>1. DOMAIN Slice(n, k) = 1..Len(Slice(n, k)) /\ Len(Slice(n, k)) \in Nat
    BY <1>5, LenProperties
  <2>2. DOMAIN Slice(n, k) = 1..(Length(n) - k)
    BY DEF Slice
  <2> QED
    BY <1>2, <2>1, <2>2
<1> QED
  BY <1>5, <1>6 DEF Slice

\* What shows lines up to o + k in order and is given the next ones still does.
LEMMA JoinedInOrder ==
  ASSUME NEW s \in Seq(1..MaxLines), NEW u \in Seq(1..MaxLines), NEW o \in Nat, NEW k \in Nat,
         InOrder(s), UpTo(s, o + k), \A i \in 1..Len(u) : u[i] = o + k + i
  PROVE  /\ s \o u \in Seq(1..MaxLines) /\ Len(s \o u) = Len(s) + Len(u)
         /\ InOrder(s \o u) /\ UpTo(s \o u, o + k + Len(u))
         /\ \A i \in 1..Len(s) : (s \o u)[i] = s[i]
         /\ \A i \in 1..Len(u) : (s \o u)[Len(s) + i] = u[i]
<1> DEFINE w == s \o u
<1>1. /\ w \in Seq(1..MaxLines) /\ Len(w) = Len(s) + Len(u)
      /\ \A i \in 1..Len(s) + Len(u) : w[i] = IF i <= Len(s) THEN s[i] ELSE u[i - Len(s)]
  BY ConcatProperties
<1>2. Len(s) \in Nat /\ Len(u) \in Nat
  BY LenProperties
<1>3. \A i \in 1..Len(s) : s[i] \in Nat
  BY ElementOfSeq, LogsAssumption
<1> HIDE DEF w
<1>4. \A i \in 1..Len(w) : \/ i \in 1..Len(s) /\ w[i] = s[i]
                           \/ i - Len(s) \in 1..Len(u) /\ w[i] = o + k + (i - Len(s))
  <2> TAKE i \in 1..Len(w)
  <2>0. i \in 1..Len(s) + Len(u)
    BY <1>1
  <2>1. CASE i <= Len(s)
    BY <1>1, <1>2, <2>0, <2>1
  <2>2. CASE i > Len(s)
    <3>1. i - Len(s) \in 1..Len(u)
      BY <1>1, <1>2, <2>2
    <3>2. w[i] = u[i - Len(s)]
      BY <1>1, <1>2, <2>2
    <3> QED
      BY <3>1, <3>2
  <2> QED
    BY <1>2, <2>1, <2>2
<1>5. InOrder(w)
  <2> SUFFICES ASSUME NEW i \in 1..Len(w), NEW j \in 1..Len(w), i < j PROVE w[i] < w[j]
    BY DEF InOrder
  <2>1. CASE j \in 1..Len(s)
    <3>1. i \in 1..Len(s)
      BY <1>2, <2>1
    <3>2. w[i] = s[i] /\ w[j] = s[j]
      BY <1>1, <2>1, <3>1
    <3> QED
      BY <2>1, <3>1, <3>2 DEF InOrder
  <2>2. CASE i \in 1..Len(s) /\ j - Len(s) \in 1..Len(u)
    <3>1. w[i] \in Nat /\ w[i] <= o + k
      <4>1. w[i] = s[i] /\ s[i] \in Nat
        BY <1>1, <1>2, <1>3, <2>2
      <4> QED
        BY <2>2, <4>1 DEF UpTo
    <3>2. w[j] = o + k + (j - Len(s)) /\ j - Len(s) \in Nat /\ j - Len(s) > 0
      <4>1. j \notin 1..Len(s) /\ j - Len(s) \in Nat /\ j - Len(s) > 0
        BY <1>2, <2>2
      <4> QED
        BY <1>4, <4>1
    <3> QED
      BY <3>1, <3>2
  <2>3. CASE i - Len(s) \in 1..Len(u)
    <3>1. i \notin 1..Len(s) /\ j \notin 1..Len(s) /\ i - Len(s) \in Nat /\ j - Len(s) \in Nat
          /\ i - Len(s) < j - Len(s)
      BY <1>2, <2>3
    <3>2. w[i] = o + k + (i - Len(s)) /\ w[j] = o + k + (j - Len(s))
      BY <1>4, <3>1
    <3> QED
      BY <3>1, <3>2
  <2> QED
    BY <1>2, <1>4, <2>1, <2>2, <2>3
<1>6. UpTo(w, o + k + Len(u))
  <2> SUFFICES ASSUME NEW i \in 1..Len(w) PROVE w[i] <= o + k + Len(u)
    BY DEF UpTo
  <2>1. CASE i \in 1..Len(s) /\ w[i] = s[i]
    BY <1>2, <1>3, <2>1 DEF UpTo
  <2> QED
    BY <1>2, <1>4, <2>1
<1>7. /\ \A i \in 1..Len(s) : w[i] = s[i]
      /\ \A i \in 1..Len(u) : w[Len(s) + i] = u[i]
  <2>1. \A i \in 1..Len(s) : i \in 1..Len(s) + Len(u) /\ i <= Len(s)
    BY <1>2
  <2>2. \A i \in 1..Len(u) : /\ Len(s) + i \in 1..Len(s) + Len(u)
                            /\ ~(Len(s) + i <= Len(s)) /\ (Len(s) + i) - Len(s) = i
    BY <1>2
  <2> QED
    BY <1>1, <2>1, <2>2
<1> QED
  BY <1>1, <1>5, <1>6, <1>7 DEF w

\* A terminal opened with an answer the page had, or has.
LEMMA OpenedReady ==
  ASSUME NEW n \in 0..MaxLines, NEW m \in 0..MaxLines, NEW total \in 0..MaxLines,
         n <= m, m <= total
  PROVE  Ready([shown |-> Slice(n, 0), count |-> Length(n)], m, total)
<1> DEFINE t == [shown |-> Slice(n, 0), count |-> Length(n)]
<1>1. /\ Oldest(n) \in Nat /\ Length(n) \in 0..LogLimit /\ Oldest(n) <= Oldest(m)
      /\ Oldest(m) \in Nat
      /\ n <= LogLimit => Oldest(n) = 0
  BY Window
<1>2. /\ t.shown \in Seq(1..MaxLines) /\ Len(t.shown) = Length(n)
      /\ \A i \in 1..Length(n) : t.shown[i] = Oldest(n) + i
  BY <1>1, SliceLines
<1>3. InOrder(t.shown) /\ UpTo(t.shown, Oldest(m) + t.count)
  BY <1>1, <1>2 DEF InOrder, UpTo
<1>4. ASSUME total <= LogLimit PROVE Complete(t)
  <2>1. n <= LogLimit
    BY <1>4, LogsAssumption
  <2> QED
    BY <1>1, <2>1 DEF Complete, Slice
<1> QED
  BY <1>1, <1>2, <1>3, <1>4 DEF Ready, TermType

\* A terminal stays ready when the page learns of more lines, ...
LEMMA StaysReady ==
  ASSUME NEW m \in -1..MaxLines, NEW n \in -1..MaxLines, m <= n, NEW t,
         NEW total \in 0..MaxLines, NEW grown \in 0..MaxLines, total <= grown,
         Ready(t, m, total)
  PROVE  Ready(t, n, grown)
<1>1. Oldest(m) \in Nat /\ Oldest(n) \in Nat /\ Oldest(m) <= Oldest(n)
  BY LogsAssumption DEF Oldest
<1>2. t.count \in Nat /\ \A i \in 1..Len(t.shown) : t.shown[i] \in Nat
  BY LogsAssumption DEF Ready, TermType
<1>3. UpTo(t.shown, Oldest(n) + t.count)
  BY <1>1, <1>2 DEF Ready, UpTo
<1>4. grown <= LogLimit => total <= LogLimit
  BY LogsAssumption
<1> QED
  BY <1>3, <1>4 DEF Ready

\* ... and when it is given them.
Appended(t, n) == [shown |-> t.shown \o Slice(n, t.count), count |-> Length(n)]

LEMMA AppendedReady ==
  ASSUME NEW m \in -1..MaxLines, NEW n \in 0..MaxLines, NEW total \in 0..MaxLines,
         m <= n, n <= total, NEW t, Ready(t, m, total), Length(n) > t.count
  PROVE  Ready(Appended(t, n), n, total)
<1> DEFINE s == t.shown
           k == t.count
           u == Slice(n, k)
           w == s \o u
<1>1. /\ Oldest(m) \in Nat /\ Oldest(n) \in Nat /\ Oldest(m) <= Oldest(n)
      /\ Length(n) \in 0..LogLimit
      /\ n <= LogLimit => Oldest(n) = 0
  BY Window
<1>2. s \in Seq(1..MaxLines) /\ k \in Nat /\ k <= Length(n) /\ InOrder(s)
  <2>1. t \in TermType /\ InOrder(s)
    BY DEF Ready
  <2>2. s \in Seq(1..MaxLines) /\ k \in 0..LogLimit
    BY <2>1 DEF TermType
  <2> QED
    BY <1>1, <2>1, <2>2, LogsAssumption
<1>3. UpTo(s, Oldest(n) + k)
  <2>1. Ready(t, n, total)
    BY StaysReady
  <2> QED
    BY <2>1 DEF Ready
<1>4. /\ u \in Seq(1..MaxLines) /\ Len(u) = Length(n) - k
      /\ \A i \in 1..(Length(n) - k) : u[i] = Oldest(n) + k + i
  BY <1>2, SliceLines
<1>5. total <= LogLimit => Oldest(n) = 0 /\ s = [i \in 1..k |-> i]
  <2> SUFFICES ASSUME total <= LogLimit PROVE Oldest(n) = 0 /\ s = [i \in 1..k |-> i]
    OBVIOUS
  <2>1. n <= LogLimit
    BY LogsAssumption
  <2>2. Complete(t)
    BY DEF Ready
  <2> QED
    BY <1>1, <2>1, <2>2 DEF Complete
<1> HIDE DEF s, k, u
<1>6. /\ w \in Seq(1..MaxLines) /\ Len(w) = Len(s) + Len(u)
      /\ InOrder(w) /\ UpTo(w, Oldest(n) + k + Len(u))
      /\ \A i \in 1..Len(s) : w[i] = s[i]
      /\ \A i \in 1..Len(u) : w[Len(s) + i] = u[i]
  BY <1>1, <1>2, <1>3, <1>4, JoinedInOrder
<1> HIDE DEF w
<1>7. /\ Oldest(n) \in Nat /\ k \in Nat /\ Length(n) \in Nat /\ k <= Length(n)
      /\ Len(u) = Length(n) - k /\ Oldest(n) + k + Len(u) = Oldest(n) + Length(n)
  BY <1>1, <1>2, <1>4, LogsAssumption
<1>8. ASSUME total <= LogLimit PROVE w = [i \in 1..Length(n) |-> i]
  <2>1. Len(s) = k
    BY <1>2, <1>5, <1>8, LenProperties
  <2>2. Len(w) = Length(n)
    BY <1>6, <1>7, <2>1
  <2>3. \A i \in 1..Length(n) : w[i] = i
    <3> TAKE i \in 1..Length(n)
    <3>1. CASE i \in 1..k
      BY <1>5, <1>6, <1>8, <2>1, <3>1
    <3>2. CASE i - k \in 1..Len(u)
      <4>1. w[Len(s) + (i - k)] = u[i - k] /\ u[i - k] = Oldest(n) + k + (i - k)
        BY <1>4, <1>6, <3>2
      <4> QED
        BY <1>2, <1>5, <1>8, <2>1, <4>1
    <3>3. i \in 1..k \/ i - k \in 1..Len(u)
      BY <1>7
    <3> QED
      BY <3>1, <3>2, <3>3
  <2>4. w \in [1..Length(n) -> 1..MaxLines]
    BY <1>6, <2>2, LenProperties
  <2> QED
    BY <2>3, <2>4
<1> DEFINE r == [shown |-> w, count |-> Length(n)]
<1>9. r \in TermType /\ r.shown = w /\ r.count = Length(n)
  BY <1>1, <1>6 DEF TermType
<1> HIDE DEF r
<1>10. Ready(r, n, total)
  BY <1>6, <1>7, <1>8, <1>9 DEF Ready, Complete
<1> QED
  BY <1>10 DEF Appended, r, w, s, k, u

-----------------------------------------------------------------------------
\* What is known of terminals that stay as they are, ...
LEMMA TermsKept ==
  ASSUME RestInv, TermsInv, RestInv', UNCHANGED terms,
         env.lines <= env'.lines, lines <= lines'
  PROVE  TermsInv'
<1> SUFFICES ASSUME NEW t \in 1..Len(terms) PROVE Ready(terms[t], env'.lines, lines')
  BY DEF TermsInv
<1>1. Ready(terms[t], env.lines, lines)
  BY DEF TermsInv
<1>2. /\ env.lines \in -1..MaxLines /\ env'.lines \in -1..MaxLines
      /\ lines \in 0..MaxLines /\ lines' \in 0..MaxLines
  BY DEF RestInv
<1> QED
  BY <1>1, <1>2, StaysReady

\* ... when one is changed to a ready one, ...
LEMMA TermChanged ==
  ASSUME RestInv, TermsInv, RestInv', xterm # 0, NEW new,
         terms' = [terms EXCEPT ![xterm] = new], Ready(new, env'.lines, lines'),
         env.lines <= env'.lines, lines <= lines'
  PROVE  TermsInv'
<1>1. /\ terms \in Seq(TermType) /\ xterm \in 1..Len(terms) /\ new \in TermType
  BY LenProperties DEF RestInv, TermsInv, Ready
<1>2. /\ terms' \in Seq(TermType) /\ Len(terms') = Len(terms)
      /\ \A j \in 1..Len(terms) : terms'[j] = IF j = xterm THEN new ELSE terms[j]
  BY <1>1, ExceptSeq
<1>3. /\ env.lines \in -1..MaxLines /\ env'.lines \in -1..MaxLines
      /\ lines \in 0..MaxLines /\ lines' \in 0..MaxLines
  BY DEF RestInv
<1>4. \A j \in 1..Len(terms) : Ready(terms[j], env'.lines, lines')
  BY <1>3, StaysReady DEF TermsInv
<1> QED
  BY <1>2, <1>4 DEF TermsInv

\* ... and when one is opened.
LEMMA TermOpened ==
  ASSUME RestInv, TermsInv, UNCHANGED <<lines, env>>, NEW new,
         terms' = Append(terms, new), Ready(new, env.lines, lines)
  PROVE  TermsInv' /\ Len(terms') = Len(terms) + 1 /\ Len(terms') \in Nat
<1>1. new \in TermType
  BY DEF Ready
<1>2. /\ terms' \in Seq(TermType) /\ Len(terms') = Len(terms) + 1 /\ Len(terms) \in Nat
      /\ \A j \in 1..Len(terms') : terms'[j] = IF j = Len(terms) + 1 THEN new ELSE terms[j]
  BY <1>1, AppendProperties, LenProperties DEF TermsInv
<1>3. \A j \in 1..Len(terms') : j = Len(terms) + 1 \/ j \in 1..Len(terms)
  BY <1>2
<1> QED
  BY <1>2, <1>3 DEF TermsInv

\* An import that begins knows no more lines than the page.
LEMMA InitBegins ==
  ASSUME InitsInv, RestInv, NEW n \in 0..MaxLines, InitTerminal(n),
         env.lines <= env'.lines, n <= env'.lines, env'.lines \in Int
  PROVE  InitsInv' /\ Len(inits') = Len(inits) + 1
<1>1. /\ inits' \in Seq(0..MaxLines) /\ Len(inits') = Len(inits) + 1 /\ Len(inits) \in Nat
      /\ \A i \in 1..Len(inits') : inits'[i] = IF i = Len(inits) + 1 THEN n ELSE inits[i]
  BY AppendProperties, LenProperties DEF InitTerminal, InitsInv
<1>2. \A i \in 1..Len(inits) : inits[i] \in 0..MaxLines /\ inits[i] <= env.lines
  BY ElementOfSeq DEF InitsInv
<1>3. env.lines \in Int
  BY DEF RestInv
<1>4. ASSUME NEW i \in 1..Len(inits') PROVE inits'[i] <= env'.lines
  <2>1. CASE i = Len(inits) + 1
    BY <1>1, <2>1
  <2>2. CASE i \in 1..Len(inits)
    BY <1>1, <1>2, <1>3, <2>2
  <2> QED
    BY <1>1, <2>1, <2>2
<1> QED
  BY <1>1, <1>4 DEF InitsInv

LEMMA InitsKept ==
  ASSUME InitsInv, RestInv, UNCHANGED inits, env.lines <= env'.lines, env'.lines \in Int
  PROVE  InitsInv'
<1>1. \A i \in 1..Len(inits) : inits[i] \in 0..MaxLines /\ inits[i] <= env.lines
  BY ElementOfSeq DEF InitsInv
<1>2. env.lines \in Int
  BY DEF RestInv
<1> QED
  BY <1>1, <1>2 DEF InitsInv


-----------------------------------------------------------------------------
\* The first answer finds no import under way.
LEMMA ArrivesKeeps ==
  ASSUME LogsInv, EnvironmentArrives
  PROVE  LogsInv'
<1> USE DEF LogsInv
<1>1. /\ env.lines = -1 /\ env' = [lines |-> lines, status |-> status] /\ InitTerminal(lines)
      /\ UNCHANGED <<dbVars, tab, terms, xterm, isRestarting, dockerVars>>
  BY DEF EnvironmentArrives
<1>2. /\ lines \in 0..MaxLines /\ env'.lines = lines /\ env.lines <= env'.lines
  BY <1>1 DEF RestInv
<1>3. InitsInv' /\ Len(inits') = Len(inits) + 1
  BY <1>1, <1>2, InitBegins, LogsAssumption
<1>4. Len(inits) = 0
  <2>1. \A i \in 1..Len(inits) : FALSE
    BY <1>1, ElementOfSeq, LogsAssumption DEF InitsInv
  <2>2. Len(inits) \in Nat
    BY LenProperties DEF InitsInv
  <2> QED
    BY <2>1, <2>2
<1>5. RestInv'
  BY <1>1, <1>2, <1>3, <1>4, LogsAssumption DEF RestInv, dbVars, dockerVars
<1> QED
  BY <1>1, <1>2, <1>3, <1>5, TermsKept DEF dbVars

LEMMA PollKeeps ==
  ASSUME LogsInv, PollEnvironment
  PROVE  LogsInv'
<1> USE DEF LogsInv
<1>1. /\ env.lines # -1 /\ env' = [lines |-> lines, status |-> status]
      /\ UNCHANGED <<dbVars, isRestarting, dockerVars>>
  BY DEF PollEnvironment
<1>2. /\ lines \in 0..MaxLines /\ env'.lines = lines /\ env.lines <= env'.lines
      /\ UNCHANGED lines
  BY <1>1 DEF RestInv, dbVars
<1>3. env' \in [lines : -1..MaxLines, status : {"BUILDING", "RUNNING", "FAILED", "none"}]
  BY <1>1, LogsAssumption DEF RestInv
<1>4. ASSUME Len(inits) < MaxInits, tab' = "logs", InitTerminal(lines), UNCHANGED <<terms, xterm>>
      PROVE  LogsInv'
  <2>1. InitsInv' /\ Len(inits') = Len(inits) + 1
    BY <1>2, <1>4, InitBegins, LogsAssumption
  <2>2. Len(inits) \in Nat
    BY LenProperties DEF InitsInv
  <2>3. RestInv'
    BY <1>1, <1>2, <1>3, <1>4, <2>1, <2>2, LogsAssumption DEF RestInv, dbVars, dockerVars
  <2> QED
    BY <1>2, <1>4, <2>1, <2>3, TermsKept
<1>5. ASSUME AppendLogs(lines), UNCHANGED <<tab, inits, xterm>>
      PROVE  LogsInv'
  <2>0. InitsInv'
    BY <1>2, <1>5, InitsKept
  <2>1. CASE UNCHANGED terms
    <3>1. RestInv'
      BY <1>1, <1>2, <1>3, <1>5, <2>1 DEF RestInv, dbVars, dockerVars
    <3> QED
      BY <1>2, <2>0, <2>1, <3>1, TermsKept
  <2>2. CASE ~UNCHANGED terms
    <3> DEFINE t == terms[xterm]
               new == Appended(t, lines)
    <3>1. /\ xterm # 0 /\ Length(lines) > t.count
          /\ terms' = [terms EXCEPT ![xterm] = new]
      BY <1>5, <2>2 DEF AppendLogs, Appended
    <3>2. xterm \in 1..Len(terms) /\ terms \in Seq(TermType)
      BY <3>1, LenProperties DEF RestInv, TermsInv
    <3>3. Ready(t, env.lines, lines) /\ env.lines \in -1..MaxLines
      BY <3>2 DEF TermsInv, RestInv
    <3>4. Ready(new, lines, lines)
      BY <1>2, <3>1, <3>3, AppendedReady
    <3>5. new \in TermType /\ Ready(new, env'.lines, lines')
      BY <1>2, <3>4 DEF Ready
    <3> HIDE DEF new
    <3>6. Len(terms') = Len(terms)
      BY <3>1, <3>2, <3>5, ExceptSeq
    <3>7. RestInv'
      BY <1>1, <1>2, <1>3, <1>5, <3>6 DEF RestInv, dbVars, dockerVars
    <3>8. lines <= lines'
      BY <1>2
    <3>9. TermsInv'
      BY <1>2, <3>1, <3>5, <3>7, <3>8, TermChanged
    <3> QED
      BY <2>0, <3>7, <3>9
  <2> QED
    BY <2>1, <2>2
<1> QED
  BY <1>4, <1>5 DEF PollEnvironment

LEMMA TerminalKeeps ==
  ASSUME LogsInv, TerminalReady
  PROVE  LogsInv'
<1> USE DEF LogsInv
<1>1. /\ inits # <<>> /\ inits' = Tail(inits)
      /\ UNCHANGED <<dbVars, env, tab, isRestarting, dockerVars>>
  BY DEF TerminalReady
<1>2. /\ Head(inits) \in 0..MaxLines /\ Tail(inits) \in Seq(0..MaxLines)
      /\ Len(inits) \in Nat /\ Len(inits) > 0 /\ Head(inits) = inits[1]
      /\ Len(Tail(inits)) = Len(inits) - 1
      /\ \A i \in 1..Len(Tail(inits)) : Tail(inits)[i] = inits[i + 1]
  <2>1. inits \in Seq(0..MaxLines) /\ inits # <<>>
    BY <1>1 DEF InitsInv
  <2>2. Len(inits) \in Nat /\ Len(inits) > 0
    BY <2>1, EmptySeq
  <2>3. Head(inits) = inits[1]
    BY <2>1
  <2> QED
    BY <2>1, <2>2, <2>3, HeadTailProperties
<1>3. \A i \in 1..Len(Tail(inits)) : i + 1 \in 1..Len(inits)
  BY <1>2
<1>4. InitsInv' /\ Head(inits) <= env.lines
  BY <1>1, <1>2, <1>3 DEF InitsInv
<1>5. Len(inits') <= MaxInits
  BY <1>1, <1>2, LogsAssumption DEF RestInv
<1>6. CASE UNCHANGED <<terms, xterm>>
  <2>1. RestInv'
    BY <1>1, <1>5, <1>6 DEF RestInv, dbVars, dockerVars
  <2>2. env.lines <= env'.lines /\ lines <= lines'
    BY <1>1 DEF RestInv, dbVars
  <2> QED
    BY <1>4, <1>6, <2>1, <2>2, TermsKept
<1>7. CASE tab = "logs"
  <2> DEFINE n == Head(inits)
             new == [shown |-> Slice(n, 0), count |-> Length(n)]
  <2>1. terms' = Append(terms, new) /\ xterm' = Len(terms')
    BY <1>7 DEF TerminalReady
  <2>2. /\ env.lines \in 0..MaxLines /\ lines \in 0..MaxLines /\ env.lines <= lines
        /\ UNCHANGED <<lines, env>>
    BY <1>1, <1>2, <1>4, LogsAssumption DEF RestInv, dbVars
  <2>3. Ready(new, env.lines, lines)
    BY <1>2, <1>4, <2>2, OpenedReady
  <2> HIDE DEF new
  <2>4. TermsInv' /\ Len(terms') \in Nat
    BY <2>1, <2>2, <2>3, TermOpened
  <2>5. RestInv'
    BY <1>1, <1>5, <2>1, <2>4 DEF RestInv, dbVars, dockerVars
  <2> QED
    BY <1>4, <2>4, <2>5
<1> QED
  BY <1>6, <1>7 DEF TerminalReady

LEMMA TabKeeps ==
  ASSUME LogsInv, LeaveTab \/ OpenTab
  PROVE  LogsInv'
<1> USE DEF LogsInv
<1>0. env.lines \in -1..MaxLines /\ lines \in 0..MaxLines
  BY DEF RestInv
<1>1. CASE LeaveTab
  <2>1. /\ env.lines # -1 /\ tab' = "workspace" /\ terms' = <<>> /\ xterm' = 0
        /\ UNCHANGED <<dbVars, env, inits, isRestarting, dockerVars>>
    BY <1>1 DEF LeaveTab, CloseTerminals
  <2>2. terms' \in Seq(TermType) /\ Len(terms') = 0
    BY <2>1, EmptySeq
  <2>3. TermsInv'
    BY <2>2 DEF TermsInv
  <2>4. RestInv'
    BY <2>1, <2>2 DEF RestInv, dbVars, dockerVars
  <2> QED
    BY <1>0, <2>1, <2>3, <2>4, InitsKept
<1>2. CASE OpenTab
  <2>1. /\ tab # "logs" /\ Len(inits) < MaxInits /\ tab' = "logs" /\ InitTerminal(env.lines)
        /\ UNCHANGED <<dbVars, env, terms, xterm, isRestarting, dockerVars>>
    BY <1>2 DEF OpenTab
  <2>2. env.lines \in 0..MaxLines
    BY <1>0, <2>1, LogsAssumption DEF RestInv
  <2>3. InitsInv' /\ Len(inits') = Len(inits) + 1
    BY <2>1, <2>2, InitBegins, LogsAssumption
  <2>4. Len(inits) \in Nat
    BY LenProperties DEF InitsInv
  <2>5. RestInv'
    BY <2>1, <2>3, <2>4, LogsAssumption DEF RestInv, dbVars, dockerVars
  <2> QED
    BY <1>0, <2>1, <2>3, <2>5, TermsKept DEF dbVars
<1> QED
  BY <1>1, <1>2

LEMMA RestartKeeps ==
  ASSUME LogsInv, HandleRestart \/ Restarted
  PROVE  LogsInv'
<1> USE DEF LogsInv
<1>0. /\ env.lines \in -1..MaxLines /\ lines \in 0..MaxLines
      /\ UNCHANGED <<lines, env, inits>>
  BY DEF RestInv, HandleRestart, Restarted, dbVars, termVars
<1>1. InitsInv'
  BY <1>0, InitsKept
<1>2. CASE UNCHANGED terms
  <2>1. RestInv'
    BY <1>2 DEF HandleRestart, Restarted, RestInv, dbVars, termVars, dockerVars
  <2> QED
    BY <1>0, <1>1, <1>2, <2>1, TermsKept
<1>3. CASE Restarted /\ ~UNCHANGED terms
  <2> DEFINE new == [shown |-> <<>>, count |-> 0]
  <2>1. xterm # 0 /\ terms' = [terms EXCEPT ![xterm] = new] /\ UNCHANGED xterm
    BY <1>3 DEF Restarted
  <2>2. Ready(new, env'.lines, lines')
    <3>1. new.shown \in Seq(1..MaxLines) /\ Len(new.shown) = 0 /\ new.count = 0
      BY EmptySeq
    <3>2. new \in TermType
      BY <3>1, LogsAssumption DEF TermType
    <3>3. Complete(new)
      BY DEF Complete
    <3> QED
      BY <3>1, <3>2, <3>3 DEF Ready, InOrder, UpTo
  <2> HIDE DEF new
  <2>3. terms \in Seq(TermType) /\ xterm \in 1..Len(terms) /\ new \in TermType
    BY <2>1, <2>2, LenProperties DEF RestInv, TermsInv, Ready
  <2>4. Len(terms') = Len(terms)
    BY <2>1, <2>3, ExceptSeq
  <2>5. RestInv'
    BY <1>3, <2>1, <2>4 DEF Restarted, RestInv, dockerVars
  <2>6. env.lines <= env'.lines /\ lines <= lines'
    BY <1>0
  <2>7. TermsInv'
    BY <2>1, <2>2, <2>5, <2>6, TermChanged
  <2> QED
    BY <1>1, <2>5, <2>7
<1> QED
  BY <1>2, <1>3 DEF HandleRestart, termVars

\* Builds, the container and its output leave the terminals alone.
LEMMA ServerKeeps ==
  ASSUME LogsInv, BuildStep \/ ContainerPrints \/ FetchDockerLogs
                  \/ \E a \in answers : DockerLogsArrive(a)
  PROVE  LogsInv'
<1> USE DEF LogsInv
<1>0. /\ env.lines \in -1..MaxLines /\ lines \in 0..MaxLines
      /\ UNCHANGED <<env, termVars, isRestarting>>
  BY DEF RestInv, BuildStep, ContainerPrints, FetchDockerLogs, DockerLogsArrive
<1>1. RestInv' /\ lines <= lines'
  <2>1. CASE BuildStep
    BY <2>1, LogsAssumption DEF BuildStep, RestInv, termVars, dockerVars
  <2>2. CASE ContainerPrints
    BY <2>2, LogsAssumption DEF ContainerPrints, RestInv, termVars, dockerVars, Shown
  <2>3. CASE FetchDockerLogs
    BY <2>3, LogsAssumption DEF FetchDockerLogs, RestInv, dbVars, termVars, Shown, Error
  <2>4. CASE \E a \in answers : DockerLogsArrive(a)
    BY <2>4, LogsAssumption DEF DockerLogsArrive, RestInv, dbVars, termVars
  <2> QED
    BY <2>1, <2>2, <2>3, <2>4
<1> QED
  BY <1>0, <1>1, InitsKept, TermsKept DEF termVars

LEMMA LogsStep ==
  ASSUME LogsInv, [LogsNext]_LogsVars
  PROVE  LogsInv'
<1>1. CASE UNCHANGED LogsVars
  BY <1>1 DEF LogsVars, dbVars, termVars, dockerVars, LogsInv, RestInv, InitsInv, TermsInv
<1> QED
  BY <1>1, ArrivesKeeps, PollKeeps, TerminalKeeps, TabKeeps, RestartKeeps, ServerKeeps
     DEF LogsNext

LEMMA LogsStart == LogsInit => LogsInv
<1> SUFFICES ASSUME LogsInit PROVE LogsInv
  OBVIOUS
<1>1. /\ inits \in Seq(0..MaxLines) /\ Len(inits) = 0
      /\ terms \in Seq(TermType) /\ Len(terms) = 0
  BY EmptySeq DEF LogsInit
<1>2. lines \in 0..MaxLines /\ output \in 0..MaxOutput /\ dockerLogs \in Shown
  BY LogsAssumption DEF LogsInit, Shown, Error
<1>3. /\ env \in [lines : -1..MaxLines, status : {"BUILDING", "RUNNING", "FAILED", "none"}]
      /\ env.lines <= lines
  BY LogsAssumption DEF LogsInit
<1>4. Len(inits) <= MaxInits /\ xterm \in 0..Len(terms)
  BY <1>1, LogsAssumption DEF LogsInit
<1>5. RestInv
  BY <1>2, <1>3, <1>4 DEF LogsInit, RestInv
<1> QED
  BY <1>1, <1>5 DEF LogsInv, InitsInv, TermsInv

LEMMA LogsAlways == LogsInit /\ [][LogsNext]_LogsVars => [](LogsInv /\ LogsTypeOK)
<1>1. LogsInv => LogsTypeOK
  BY DEF LogsInv, RestInv, InitsInv, TermsInv, TermType, LogsTypeOK
<1> QED
  BY <1>1, LogsStart, LogsStep, PTL

LEMMA ShownInOrder == LogsInv => TerminalShowsLog
<1> SUFFICES ASSUME LogsInv PROVE TerminalShowsLog
  OBVIOUS
<1>1. \A t \in 1..Len(terms) : InOrder(terms[t].shown)
  BY DEF LogsInv, TermsInv, Ready
<1>2. ASSUME lines <= LogLimit, xterm # 0
      PROVE  terms[xterm].shown = [i \in 1..terms[xterm].count |-> i]
  <2>1. xterm \in 1..Len(terms)
    BY <1>2, LenProperties DEF LogsInv, RestInv, TermsInv
  <2> QED
    BY <1>2, <2>1 DEF LogsInv, TermsInv, Ready, Complete
<1> QED
  BY <1>1, <1>2 DEF TerminalShowsLog, InOrder

\* A terminal shows no line twice and none before an older one, and all of the log
\* while an answer holds all of it, for any length of the log and of an answer
\* (page.tsx:648-732).
THEOREM TerminalIsInOrder == LogsSpec => []TerminalShowsLog
BY ShownInOrder, LogsAlways, PTL DEF LogsSpec

-----------------------------------------------------------------------------
(* The pages that show lists.                                                *)

\* A key a page waits for is known, asked for, or has failed.
AskedInv ==
    /\ viewed \in ViewNames
    /\ \A k \in Keys(viewed) : Known(k) \/ k \in asking \/ fault[k]
    /\ held \in [AllKeys -> Nat \cup {NoAnswer}]
    /\ fault \in [AllKeys -> BOOLEAN]
    /\ truth \in [AllKeys -> 0..MaxValue]

LEMMA KeysFacts ==
  ASSUME NEW v \in ViewNames
  PROVE  Keys(v) \subseteq AllKeys
BY DEF ViewNames, Keys, AllKeys

LEMMA AskedStep ==
  ASSUME AskedInv, ViewNext
  PROVE  AskedInv' /\ viewed' = viewed /\ \A k \in AllKeys : Known(k) => Known(k)'
<1>1. ASSUME NEW k \in AllKeys, Revalidate(k) \/ (\E v \in 0..MaxValue : DataChanges(k, v))
      PROVE  AskedInv' /\ viewed' = viewed /\ held' = held
  BY <1>1 DEF Revalidate, DataChanges, AskedInv, Known
<1>2. CASE GoesDown
  BY <1>2 DEF GoesDown, AskedInv, Known
<1>3. ASSUME NEW k \in AllKeys, Answer(k)
      PROVE  AskedInv' /\ viewed' = viewed /\ \A j \in AllKeys : Known(j) => Known(j)'
  <2>1. asking' = asking \ {k} /\ UNCHANGED <<viewed, truth>>
    BY <1>3 DEF Answer
  <2>2. CASE fault' = [fault EXCEPT ![k] = TRUE] /\ held' = held
    BY <2>1, <2>2, KeysFacts DEF AskedInv, Known
  <2>3. CASE held' = [held EXCEPT ![k] = truth[k]] /\ fault' = [fault EXCEPT ![k] = FALSE]
    <3>1. truth[k] \in Nat /\ truth[k] # NoAnswer
      BY ViewAssumption DEF AskedInv
    <3>2. \A j \in AllKeys : j # k => held'[j] = held[j] /\ fault'[j] = fault[j]
      BY <2>3 DEF AskedInv
    <3>3. held'[k] = truth[k]
      BY <2>3 DEF AskedInv
    <3> QED
      BY <2>1, <2>3, <3>1, <3>2, <3>3, KeysFacts DEF AskedInv, Known
  <2> QED
    BY <1>3, <2>2, <2>3 DEF Answer
<1> QED
  BY <1>1, <1>2, <1>3 DEF ViewNext, GoesDown, Known

\* A page that shows a list knows all it waits for; a placeholder means a key
\* that it does not know.
LEMMA ListIsKnown ==
  ASSUME AskedInv, Shows \in {"list", "empty"}
  PROVE  \A k \in Keys(viewed) : Known(k)
<1>1. ASSUME NEW k, Grid(k) \in {"list", "empty"}, Known(k) \/ k \in asking \/ fault[k] PROVE Known(k)
  BY <1>1 DEF Grid, IsLoading
<1>2. CASE viewed \in {"dashboard", "projects"}
  BY <1>1, <1>2 DEF AskedInv, Shows, Dashboard, ProjectsPage, Keys
<1>3. CASE viewed = "project"
  BY <1>1, <1>3 DEF AskedInv, Shows, Keys, ProjectPage, IsLoading
<1>4. CASE viewed = "team"
  BY <1>4 DEF AskedInv, Shows, Keys, TeamDashboard
<1>5. CASE viewed = "profile"
  BY <1>5 DEF AskedInv, Shows, Keys, ProfilePage, IsLoading
<1> QED
  BY <1>2, <1>3, <1>4, <1>5 DEF AskedInv, ViewNames

LEMMA PlaceholderIsUnknown ==
  ASSUME viewed \in ViewNames, Shows = "loading"
  PROVE  \E k \in Keys(viewed) : ~Known(k)
<1>1. ASSUME NEW k, Grid(k) = "loading" PROVE ~Known(k)
  BY <1>1 DEF Grid, IsLoading
<1>2. CASE viewed \in {"dashboard", "projects"}
  BY <1>1, <1>2 DEF Shows, Dashboard, ProjectsPage, Keys
<1>3. CASE viewed = "project"
  BY <1>1, <1>3 DEF Shows, Keys, ProjectPage, IsLoading
<1>4. CASE viewed = "team"
  BY <1>4 DEF Shows, Keys, TeamDashboard
<1>5. CASE viewed = "profile"
  BY <1>5 DEF Shows, Keys, ProfilePage, IsLoading
<1> QED
  BY <1>2, <1>3, <1>4, <1>5 DEF ViewNames

LEMMA AskedAlways == ViewInit /\ [][ViewNext]_ViewVars => []AskedInv
<1>1. ViewInit => AskedInv
  BY ViewAssumption DEF ViewInit, AskedInv
<1>2. AskedInv /\ UNCHANGED ViewVars => AskedInv'
  BY DEF ViewVars, AskedInv, Known
<1> QED
  BY <1>1, <1>2, AskedStep, PTL

LEMMA ViewTypesAlways == ViewInit /\ [][ViewNext]_ViewVars => []ViewTypeOK
<1>1. ASSUME ViewInit PROVE ViewTypeOK
  BY <1>1, ViewAssumption, KeysFacts DEF ViewInit, ViewTypeOK
<1>2. ASSUME ViewTypeOK, [ViewNext]_ViewVars PROVE ViewTypeOK'
  <2>1. ASSUME NEW k \in AllKeys, Revalidate(k) \/ Answer(k) PROVE ViewTypeOK'
    BY <1>2, <2>1 DEF Revalidate, Answer, ViewTypeOK
  <2>2. ASSUME NEW k \in AllKeys, NEW v \in 0..MaxValue, DataChanges(k, v) PROVE ViewTypeOK'
    BY <1>2, <2>2 DEF DataChanges, ViewTypeOK
  <2>3. CASE GoesDown \/ UNCHANGED ViewVars
    BY <1>2, <2>3 DEF GoesDown, ViewVars, ViewTypeOK
  <2> QED
    BY <1>2, <2>1, <2>2, <2>3 DEF ViewNext
<1> QED
  BY <1>1, <1>2, PTL

\* The step is the same under any fairness.
LEMMA FlickersNever == ViewInit /\ [][ViewNext]_ViewVars => ListsDoNotFlicker
<1>a. viewed \in ViewNames /\ Shows = "loading" => \E k \in Keys(viewed) : ~Known(k)
  BY PlaceholderIsUnknown
<1>b. (viewed \in ViewNames /\ Shows = "loading" => \E k \in Keys(viewed) : ~Known(k))'
  BY <1>a, PTL
<1>1. ASSUME AskedInv, ViewNext, Shows \in {"list", "empty"} PROVE Shows' # "loading"
  <2>1. \A k \in Keys(viewed)' : Known(k)'
    BY <1>1, ListIsKnown, AskedStep, KeysFacts DEF AskedInv
  <2>2. viewed' \in ViewNames
    BY <1>1, AskedStep DEF AskedInv
  <2> QED
    BY <2>1, <2>2, <1>b
<1>2. AskedInv /\ [ViewNext]_ViewVars => [(Shows \in {"list", "empty"}) => Shows' # "loading"]_ViewVars
  BY <1>1
<1> QED
  BY <1>2, AskedAlways, PTL DEF ListsDoNotFlicker

\* Polling does not make a list flicker (dashboard/page.tsx:126-204,
\* projects/page.tsx:82-164).
THEOREM NoFlicker == ViewSpec => ListsDoNotFlicker
BY FlickersNever, PTL DEF ViewSpec

-----------------------------------------------------------------------------
(* Folds over finite sets.  The columns of the graph and the counts of its    *)
(* squares are folds, and what a fold computes needs an induction.  It goes   *)
(* over sets of numbers: the numbers a statement fails for have a least one.  *)

\* A set of numbers has a least member.
LEMMA Least ==
  ASSUME NEW S, S \subseteq Nat, S # {}
  PROVE  \E m \in S : \A y \in S : m <= y
<1> DEFINE R == OpToRel(<, Nat)
<1>1. PICK m \in S : \A y \in S : <<y, m>> \notin R
  BY NatLessThanWellFounded, WFMin
<1>2. ASSUME NEW y \in S, ~(m <= y) PROVE FALSE
  <2> DEFINE p == <<y, m>>
  <2>1. p \in Nat \X Nat /\ p[1] < p[2]
    BY <1>2
  <2> HIDE DEF p
  <2>2. p \in R
    BY <2>1 DEF OpToRel
  <2> QED
    BY <1>1, <2>2 DEF p
<1> QED
  BY <1>2

\* Induction over a set of numbers, which is the statement.
LEMMA Induction ==
  ASSUME NEW S, 0 \in S, \A n \in Nat : n \in S => n + 1 \in S
  PROVE  Nat \subseteq S
<1> SUFFICES ASSUME Nat \ S # {} PROVE FALSE
  OBVIOUS
<1>1. PICK m \in Nat \ S : \A y \in Nat \ S : m <= y
  BY Least
<1>2. m # 0 /\ m - 1 \in Nat /\ ~(m <= m - 1) /\ (m - 1) + 1 = m
  OBVIOUS
<1> QED
  BY <1>1, <1>2

\* g is, on the sets of D, the fold that takes out one member at a time, the one
\* that pick names.
Folded(g, D, pick, base, f) ==
  \A s \in D : g[s] = IF s = {} THEN base ELSE f[<<pick[s], g[s \ {pick[s]}]>>]

LEMMA Smaller ==
  ASSUME NEW S, IsFiniteSet(S), NEW s \in SUBSET S, NEW x \in s
  PROVE  /\ s \ {x} \in SUBSET S /\ IsFiniteSet(s)
         /\ Cardinality(s) \in Nat /\ Cardinality(s \ {x}) = Cardinality(s) - 1
         /\ Cardinality(s \ {x}) \in Nat
BY FS_Subset, FS_RemoveElement, FS_CardinalityType

\* The recursive function of a fold over a finite set exists.
LEMMA FoldExists ==
  ASSUME NEW S, IsFiniteSet(S), NEW V, NEW base \in V,
         NEW pick, \A s \in SUBSET S : s # {} => pick[s] \in s,
         NEW f \in [S \X V -> V]
  PROVE  \E g \in [SUBSET S -> V] : Folded(g, SUBSET S, pick, base, f)
<1> DEFINE Small(n) == {s \in SUBSET S : Cardinality(s) <= n}
           T == {n \in Nat : \E g \in [Small(n) -> V] : Folded(g, Small(n), pick, base, f)}
<1>1. \A s \in SUBSET S : Cardinality(s) \in Nat /\ Cardinality(s) <= Cardinality(S)
  BY FS_Subset, FS_CardinalityType
<1>2. 0 \in T
  <2> DEFINE g == [s \in Small(0) |-> base]
  <2>1. \A s \in Small(0) : s = {}
    BY <1>1, FS_EmptySet, FS_Subset
  <2>2. Folded(g, Small(0), pick, base, f)
    BY <2>1 DEF Folded
  <2> QED
    BY <2>2
<1>3. ASSUME NEW n \in Nat, n \in T PROVE n + 1 \in T
  <2>1. PICK g \in [Small(n) -> V] : Folded(g, Small(n), pick, base, f)
    BY <1>3
  <2> DEFINE Rest(s) == s \ {pick[s]}
             h == [s \in Small(n + 1) |-> IF s = {} THEN base ELSE f[<<pick[s], g[Rest(s)]>>]]
  <2>2. \A s \in Small(n + 1) : s # {} => Rest(s) \in Small(n) /\ pick[s] \in S
    BY <1>1, Smaller
  <2>3. h \in [Small(n + 1) -> V]
    BY <2>2
  <2>4. Small(n) \subseteq Small(n + 1)
    BY <1>1
  <2>5. \A s \in Small(n) : h[s] = g[s]
    BY <2>1, <2>4 DEF Folded
  <2>6. Folded(h, Small(n + 1), pick, base, f)
    <3> SUFFICES ASSUME NEW s \in Small(n + 1)
                 PROVE h[s] = IF s = {} THEN base ELSE f[<<pick[s], h[Rest(s)]>>]
      BY DEF Folded
    <3> QED
      BY <2>2, <2>5
  <2> HIDE DEF h, Small
  <2> QED
    BY <2>3, <2>6
<1>4. Cardinality(S) \in T
  <2> HIDE DEF T
  <2>1. Nat \subseteq T
    BY <1>2, <1>3, Induction
  <2> QED
    BY <2>1, FS_CardinalityType
<1>5. Small(Cardinality(S)) = SUBSET S
  BY <1>1
<1> QED
  BY <1>4, <1>5

-----------------------------------------------------------------------------
(* The contribution graph: the count of a square is a sum.                   *)

\* The sum of Count, and the recursive function of its fold.
Total(S) == MapThenSumSet(LAMBDA a : a.n, S)
AddsUp(g, S) ==
  g = [s \in SUBSET S |-> IF s = {} THEN 0
                          ELSE LET a == CHOOSE x \in s : TRUE IN a.n + g[s \ {a}]]

LEMMA SumIsDefined ==
  ASSUME NEW S, IsFiniteSet(S), \A a \in S : a.n \in Nat
  PROVE  \E g : AddsUp(g, S) /\ Total(S) = g[S]
<1> DEFINE pick == [s \in SUBSET S |-> CHOOSE x \in s : TRUE]
           f == [p \in S \X Nat |-> p[1].n + p[2]]
<1>1. \A s \in SUBSET S : s # {} => pick[s] \in s
  OBVIOUS
<1>2. f \in [S \X Nat -> Nat]
  OBVIOUS
<1>3. PICK g \in [SUBSET S -> Nat] : Folded(g, SUBSET S, pick, 0, f)
  <2> HIDE DEF pick, f
  <2> QED
    BY <1>1, <1>2, FoldExists
<1>4. AddsUp(g, S)
  <2> SUFFICES ASSUME NEW s \in SUBSET S
               PROVE  g[s] = IF s = {} THEN 0
                             ELSE LET a == CHOOSE x \in s : TRUE IN a.n + g[s \ {a}]
    BY DEF AddsUp
  <2> DEFINE a == CHOOSE x \in s : TRUE
  <2>1. CASE s = {}
    BY <1>3, <2>1 DEF Folded
  <2>2. CASE s # {}
    <3>1. a \in S /\ s \ {a} \in SUBSET S /\ pick[s] = a
      BY <2>2
    <3> HIDE DEF a
    <3>2. f[<<a, g[s \ {a}]>>] = a.n + g[s \ {a}]
      BY <1>3, <3>1
    <3> HIDE DEF f, pick
    <3>3. g[s] = a.n + g[s \ {a}]
      BY <1>3, <2>2, <3>1, <3>2 DEF Folded
    <3> QED
      BY <2>2, <3>3 DEF a
  <2> QED
    BY <2>1, <2>2
<1> DEFINE h == CHOOSE z : AddsUp(z, S)
<1>5. AddsUp(h, S)
  BY <1>4
<1>6. Total(S) = h[S]
  BY DEF Total, MapThenSumSet, MapThenFoldSet, AddsUp
<1> QED
  BY <1>5, <1>6

\* A sum of naturals is at least each of them.
LEMMA SumOfNaturals ==
  ASSUME NEW S, IsFiniteSet(S), \A a \in S : a.n \in Nat
  PROVE  Total(S) \in Nat /\ \A a \in S : Total(S) >= a.n
<1>1. PICK g : AddsUp(g, S) /\ Total(S) = g[S]
  BY SumIsDefined
<1> DEFINE Bounded(s) == g[s] \in Nat /\ \A a \in s : g[s] >= a.n
           T == {n \in Nat : \A s \in SUBSET S : Cardinality(s) = n => Bounded(s)}
<1>2. 0 \in T
  <2> SUFFICES ASSUME NEW s \in SUBSET S, Cardinality(s) = 0 PROVE Bounded(s)
    OBVIOUS
  <2>1. s = {}
    BY FS_Subset, FS_EmptySet
  <2> QED
    BY <1>1, <2>1 DEF AddsUp
<1>3. ASSUME NEW n \in Nat, n \in T PROVE n + 1 \in T
  <2> SUFFICES ASSUME NEW s \in SUBSET S, Cardinality(s) = n + 1 PROVE Bounded(s)
    OBVIOUS
  <2>1. s # {}
    BY FS_EmptySet
  <2> DEFINE a == CHOOSE x \in s : TRUE
  <2>2. a \in s
    BY <2>1
  <2>3. g[s] = a.n + g[s \ {a}]
    BY <1>1, <2>1 DEF AddsUp
  <2> HIDE DEF a
  <2>4. s \ {a} \in SUBSET S /\ Cardinality(s \ {a}) = n
    BY <2>2, Smaller
  <2>5. Bounded(s \ {a})
    BY <1>3, <2>4
  <2>6. a.n \in Nat
    BY <2>2
  <2> DEFINE rest == g[s \ {a}]
  <2>7. rest \in Nat /\ \A x \in s \ {a} : rest >= x.n
    BY <2>5
  <2> HIDE DEF rest
  <2>8. g[s] = a.n + rest
    BY <2>3 DEF rest
  <2>9. g[s] \in Nat /\ g[s] >= a.n /\ g[s] >= rest
    BY <2>6, <2>7, <2>8
  <2>10. ASSUME NEW x \in s PROVE g[s] >= x.n
    BY <2>6, <2>7, <2>9
  <2> QED
    BY <2>9, <2>10
<1>4. Cardinality(S) \in T
  <2> HIDE DEF T
  <2>1. Nat \subseteq T
    BY <1>2, <1>3, Induction
  <2> QED
    BY <2>1, FS_CardinalityType
<1>5. Bounded(S)
  BY <1>4
<1> QED
  BY <1>1, <1>5

-----------------------------------------------------------------------------
(* The contribution graph: its columns hold every day once.                  *)

\* The fold of Weeks, and its recursive function.
Columns == [weeks : Seq(Seq(Int)), week : Seq(Int)]
NoColumns == [weeks |-> <<>>, week |-> <<>>]
Drawn(g, days) ==
  g = [s \in SUBSET DOMAIN days |->
         IF s = {} THEN NoColumns
         ELSE LET i == Max(s) IN AddDay(g[s \ {i}], days[i])]

\* The fold over a sequence takes its last index out first.
LEMMA MaxOfInterval ==
  ASSUME NEW n \in Nat
  PROVE  Max(1..(n + 1)) = n + 1 /\ (1..(n + 1)) \ {n + 1} = 1..n /\ 1..(n + 1) # {}
<1>1. Max(1..(n + 1)) = n + 1
  <2>1. n + 1 \in 1..(n + 1) /\ \A y \in 1..(n + 1) : n + 1 >= y
    OBVIOUS
  <2>2. \A x \in 1..(n + 1) : (\A y \in 1..(n + 1) : x >= y) => x = n + 1
    OBVIOUS
  <2> QED
    BY <2>1, <2>2 DEF Max
<1> QED
  BY <1>1

LEMMA MaxIsMember ==
  ASSUME NEW n \in Nat, NEW S \in SUBSET (1..n), S # {}
  PROVE  Max(S) \in S
<1>1. PICK m \in {n - x : x \in S} : \A y \in {n - x : x \in S} : m <= y
  <2>1. \A x \in S : n - x \in Nat
    OBVIOUS
  <2>2. {n - x : x \in S} \subseteq Nat
    BY <2>1
  <2>3. {n - x : x \in S} # {}
    OBVIOUS
  <2> QED
    BY <2>2, <2>3, Least
<1>2. PICK x \in S : m = n - x
  OBVIOUS
<1>3. \A y \in S : x >= y
  <2> TAKE y \in S
  <2>1. m <= n - y
    BY <1>1
  <2> QED
    BY <1>2, <2>1
<1> QED
  BY <1>3 DEF Max

LEMMA AddDayType ==
  ASSUME NEW c \in Columns, NEW d \in Int
  PROVE  AddDay(c, d) \in Columns
<1>1. <<d>> \in Seq(Int) /\ Append(c.week, d) \in Seq(Int) /\ Append(c.weeks, c.week) \in Seq(Seq(Int))
  BY AppendProperties DEF Columns
<1>2. [c EXCEPT !.week = Append(@, d)] = [weeks |-> c.weeks, week |-> Append(c.week, d)]
  <2> DEFINE W == Seq(Seq(Int))
             V == Seq(Int)
  <2>1. c \in [weeks : W, week : V]
    BY DEF Columns
  <2> HIDE DEF W, V
  <2> QED
    BY <2>1
<1>3. c.weeks \in Seq(Seq(Int))
  BY DEF Columns
<1>4. CASE d % 7 = 0 /\ c.week # <<>>
  BY <1>1, <1>4 DEF AddDay, Columns
<1>5. CASE ~(d % 7 = 0 /\ c.week # <<>>)
  <2>1. AddDay(c, d) = [weeks |-> c.weeks, week |-> Append(c.week, d)]
    BY <1>2, <1>5 DEF AddDay
  <2> QED
    BY <1>1, <1>3, <2>1 DEF Columns
<1> QED
  BY <1>4, <1>5

\* The fold of Weeks is the one that takes the days from first to last.
LEMMA ColumnsAreDefined ==
  ASSUME NEW days \in Seq(Int)
  PROVE  \E g : Drawn(g, days) /\ FoldLeft(AddDay, NoColumns, days) = g[DOMAIN days]
<1> DEFINE n == Len(days)
           D == DOMAIN days
           pick == [s \in SUBSET D |-> Max(s)]
           f == [p \in D \X Columns |-> AddDay(p[2], days[p[1]])]
<1>0. n \in Nat /\ D = 1..n /\ IsFiniteSet(D) /\ \A i \in D : days[i] \in Int
  BY FS_Interval, LenProperties, ElementOfSeq
<1>1. \A s \in SUBSET D : s # {} => pick[s] \in s
  BY <1>0, MaxIsMember
<1>2. f \in [D \X Columns -> Columns]
  BY <1>0, AddDayType
<1>3. PICK g \in [SUBSET D -> Columns] : Folded(g, SUBSET D, pick, NoColumns, f)
  <2>1. NoColumns \in Columns
    BY EmptySeq DEF NoColumns, Columns
  <2> HIDE DEF pick, f, D
  <2> QED
    BY <1>0, <1>1, <1>2, <2>1, FoldExists
<1>4. Drawn(g, days)
  <2> SUFFICES ASSUME NEW s \in SUBSET D
               PROVE  g[s] = IF s = {} THEN NoColumns
                             ELSE LET i == Max(s) IN AddDay(g[s \ {i}], days[i])
    BY DEF Drawn
  <2>1. CASE s = {}
    BY <1>3, <2>1 DEF Folded
  <2>2. CASE s # {}
    <3> DEFINE i == Max(s)
    <3>1. i \in D /\ s \ {i} \in SUBSET D /\ pick[s] = i
      BY <1>1, <2>2
    <3> HIDE DEF i
    <3>2. f[<<i, g[s \ {i}]>>] = AddDay(g[s \ {i}], days[i])
      BY <1>3, <3>1
    <3> HIDE DEF f, pick
    <3>3. g[s] = AddDay(g[s \ {i}], days[i])
      BY <1>3, <2>2, <3>1, <3>2 DEF Folded
    <3> QED
      BY <2>2, <3>3 DEF i
  <2> QED
    BY <2>1, <2>2
<1> DEFINE h == CHOOSE z : Drawn(z, days)
<1>5. Drawn(h, days)
  BY <1>4
<1>6. FoldLeft(AddDay, NoColumns, days) = h[DOMAIN days]
  BY DEF FoldLeft, MapThenFoldSet, Drawn
<1> QED
  BY <1>5, <1>6

\* The days from b + 1 to b + n, cut into columns.
WithinDays(A, b, n) ==
  \A w \in 1..Len(A) : \A k \in 1..Len(A[w]) :
     /\ A[w][k] \in (b + 1)..(b + n)
     /\ A[w][k] = A[w][1] + k - 1
     /\ k > 1 => A[w][k] % 7 # 0
DaysAscend(A) ==
  \A w, v \in 1..Len(A) : w < v =>
     \A k \in 1..Len(A[w]), m \in 1..Len(A[v]) : A[w][k] < A[v][m]
DaysPresent(A, b, n) ==
  \A d \in (b + 1)..(b + n) : \E w \in 1..Len(A) : \E k \in 1..Len(A[w]) : A[w][k] = d
LastIs(A, b, n) ==
  IF n = 0 THEN Len(A[Len(A)]) = 0
           ELSE Len(A[Len(A)]) > 0 /\ A[Len(A)][Len(A[Len(A)])] = b + n
Cut(A, b, n) ==
  /\ A \in Seq(Seq(Int)) /\ Len(A) >= 1
  /\ WithinDays(A, b, n) /\ DaysAscend(A) /\ DaysPresent(A, b, n) /\ LastIs(A, b, n)

LEMMA CutTypes ==
  ASSUME NEW A \in Seq(Seq(Int))
  PROVE  /\ Len(A) \in Nat
         /\ \A w \in 1..Len(A) : A[w] \in Seq(Int) /\ Len(A[w]) \in Nat
                                 /\ \A k \in 1..Len(A[w]) : A[w][k] \in Int
<1>1. Len(A) \in Nat /\ \A w \in 1..Len(A) : A[w] \in Seq(Int)
  BY ElementOfSeq, LenProperties
<1> QED
  BY <1>1, ElementOfSeq, LenProperties

\* The first day goes to the first column.
LEMMA CutStarts ==
  ASSUME NEW b \in Int
  PROVE  Cut(<< <<>> >>, b, 0)
<1> DEFINE A == << <<>> >>
<1>1. A \in Seq(Seq(Int)) /\ Len(A) = 1 /\ A[1] = <<>> /\ Len(A[1]) = 0
  OBVIOUS
<1> HIDE DEF A
<1> QED
  BY <1>1 DEF Cut, WithinDays, DaysAscend, DaysPresent, LastIs

\* A day that opens a column, and a day that is added to the last one.
LEMMA CutOpens ==
  ASSUME NEW b \in Int, NEW n \in Nat, n > 0, NEW A, Cut(A, b, n)
  PROVE  Cut(Append(A, <<b + n + 1>>), b, n + 1)
<1> DEFINE d == b + n + 1
           u == <<d>>
           B == Append(A, u)
           l == Len(A)
<1>1. A \in Seq(Seq(Int)) /\ l \in Nat /\ l >= 1
  BY CutTypes DEF Cut
<1>2. u \in Seq(Int) /\ Len(u) = 1 /\ u[1] = d /\ d \in Int
  OBVIOUS
<1>3. /\ B \in Seq(Seq(Int)) /\ Len(B) = l + 1 /\ B[l + 1] = u
      /\ \A w \in 1..l : B[w] = A[w]
  <2> HIDE DEF u
  <2> QED
    BY <1>1, <1>2, AppendProperties
<1>4. \A w \in 1..Len(B) : w \in 1..l \/ w = l + 1
  BY <1>1, <1>3
<1> HIDE DEF u, B
<1>5. WithinDays(B, b, n + 1)
  <2> SUFFICES ASSUME NEW w \in 1..Len(B), NEW k \in 1..Len(B[w])
               PROVE  /\ B[w][k] \in (b + 1)..(b + n + 1)
                      /\ B[w][k] = B[w][1] + k - 1
                      /\ k > 1 => B[w][k] % 7 # 0
    BY DEF WithinDays
  <2>1. CASE w \in 1..l
    <3>1. B[w] = A[w]
      BY <1>3, <2>1
    <3>2. A[w][k] \in (b + 1)..(b + n) /\ A[w][k] = A[w][1] + k - 1
          /\ (k > 1 => A[w][k] % 7 # 0)
      BY <2>1, <3>1 DEF Cut, WithinDays
    <3> QED
      BY <3>1, <3>2
  <2>2. CASE w = l + 1
    BY <1>2, <1>3, <2>2
  <2> QED
    BY <1>4, <2>1, <2>2
<1>6. DaysAscend(B)
  <2> SUFFICES ASSUME NEW w \in 1..Len(B), NEW v \in 1..Len(B), w < v,
                      NEW k \in 1..Len(B[w]), NEW m \in 1..Len(B[v])
               PROVE  B[w][k] < B[v][m]
    BY DEF DaysAscend
  <2>1. w \in 1..l
    BY <1>1, <1>3
  <2>2. CASE v \in 1..l
    BY <1>3, <2>1, <2>2 DEF Cut, DaysAscend
  <2>3. CASE v = l + 1
    <3>1. B[w][k] \in (b + 1)..(b + n)
      BY <1>3, <2>1 DEF Cut, WithinDays
    <3>2. B[v][m] = d
      BY <1>2, <1>3, <2>3
    <3> QED
      BY <3>1, <3>2
  <2> QED
    BY <1>4, <2>2, <2>3
<1>7. DaysPresent(B, b, n + 1)
  <2> SUFFICES ASSUME NEW e \in (b + 1)..(b + n + 1)
               PROVE  \E w \in 1..Len(B) : \E k \in 1..Len(B[w]) : B[w][k] = e
    BY DEF DaysPresent
  <2>1. CASE e \in (b + 1)..(b + n)
    <3>1. PICK w \in 1..l : \E k \in 1..Len(A[w]) : A[w][k] = e
      BY <2>1 DEF Cut, DaysPresent
    <3> QED
      BY <1>1, <1>3, <3>1
  <2>2. CASE e = d
    <3>1. l + 1 \in 1..Len(B)
      BY <1>1, <1>3
    <3>2. 1 \in 1..Len(B[l + 1]) /\ B[l + 1][1] = e
      <4>1. B[l + 1] = u
        BY <1>3
      <4>2. Len(B[l + 1]) = 1 /\ B[l + 1][1] = d
        BY <1>2, <4>1
      <4> QED
        BY <2>2, <4>2
    <3> QED
      BY <3>1, <3>2
  <2> QED
    BY <2>1, <2>2
<1>8. LastIs(B, b, n + 1)
  <2>1. Len(B[Len(B)]) = 1 /\ B[Len(B)][1] = b + (n + 1)
    BY <1>2, <1>3
  <2> QED
    BY <2>1 DEF LastIs
<1> QED
  BY <1>1, <1>3, <1>5, <1>6, <1>7, <1>8 DEF Cut, B, u

LEMMA CutGrows ==
  ASSUME NEW b \in Int, NEW n \in Nat, NEW A, Cut(A, b, n), NEW u, A[Len(A)] = u,
         Len(u) = 0 \/ (b + n + 1) % 7 # 0,
         NEW B \in Seq(Seq(Int)), Len(B) = Len(A), B[Len(A)] = Append(u, b + n + 1),
         \A w \in 1..(Len(A) - 1) : B[w] = A[w]
  PROVE  Cut(B, b, n + 1)
<1> DEFINE d == b + n + 1
           l == Len(A)
<1>1. A \in Seq(Seq(Int)) /\ l \in Nat /\ l >= 1 /\ u \in Seq(Int) /\ Len(u) \in Nat /\ d \in Int
  BY CutTypes DEF Cut
<1>2. /\ Len(B[l]) = Len(u) + 1 /\ B[l][Len(u) + 1] = d
      /\ \A k \in 1..Len(u) : B[l][k] = A[l][k]
  BY <1>1, AppendProperties
<1>3. \A w \in 1..l : w \in 1..(l - 1) \/ w = l
  BY <1>1
<1>4. \A k \in 1..(Len(u) + 1) : k \in 1..Len(u) \/ k = Len(u) + 1
  BY <1>1
<1>5. \A w \in 1..l : \A k \in 1..Len(B[w]) :
        \/ k \in 1..Len(A[w]) /\ B[w][k] = A[w][k]
        \/ w = l /\ k = Len(u) + 1 /\ B[w][k] = d
  BY <1>2, <1>3, <1>4
<1>6. ASSUME NEW w \in 1..l, NEW k \in 1..Len(A[w])
      PROVE  k \in 1..Len(B[w]) /\ B[w][k] = A[w][k]
  <2>1. CASE w \in 1..(l - 1)
    BY <2>1
  <2>2. CASE w = l
    <3>1. A[w] = u /\ k \in 1..Len(u)
      BY <2>2
    <3>2. k \in 1..(Len(u) + 1)
      BY <1>1, <3>1
    <3> QED
      BY <1>2, <2>2, <3>1, <3>2
  <2> QED
    BY <1>3, <2>1, <2>2
<1>7. ASSUME Len(u) > 0 PROVE u[Len(u)] = b + n /\ Len(u) \in 1..Len(A[l]) /\ n > 0
  BY <1>1, <1>7 DEF Cut, LastIs
<1>8. WithinDays(B, b, n + 1)
  <2> SUFFICES ASSUME NEW w \in 1..l, NEW k \in 1..Len(B[w])
               PROVE  /\ B[w][k] \in (b + 1)..(b + (n + 1))
                      /\ B[w][k] = B[w][1] + k - 1
                      /\ k > 1 => B[w][k] % 7 # 0
    BY DEF WithinDays
  <2>1. CASE k \in 1..Len(A[w]) /\ B[w][k] = A[w][k]
    <3>1. 1 \in 1..Len(A[w])
      BY <2>1
    <3>2. B[w][1] = A[w][1]
      BY <1>6, <3>1
    <3>3. A[w][k] \in (b + 1)..(b + n) /\ A[w][k] = A[w][1] + k - 1
          /\ (k > 1 => A[w][k] % 7 # 0)
      BY <2>1 DEF Cut, WithinDays
    <3> QED
      BY <2>1, <3>2, <3>3
  <2>2. CASE w = l /\ k = Len(u) + 1 /\ B[w][k] = d
    <3>1. CASE Len(u) = 0
      BY <1>1, <2>2, <3>1
    <3>2. CASE Len(u) > 0
      <4>1. Len(u) \in 1..Len(A[l]) /\ 1 \in 1..Len(A[l]) /\ l \in 1..l
        BY <1>1, <3>2
      <4>2. A[l][Len(u)] = A[l][1] + Len(u) - 1
        BY <4>1 DEF Cut, WithinDays
      <4>3. B[w][1] = A[l][1] /\ A[l][1] \in Int
        BY <1>1, <1>6, <2>2, <4>1, CutTypes
      <4>4. b + n = A[l][1] + Len(u) - 1
        BY <1>7, <3>2, <4>2
      <4>5. d = A[l][1] + (Len(u) + 1) - 1
        <5>1. \A x \in Int, k0 \in Nat : b + n = x + k0 - 1 => b + n + 1 = x + (k0 + 1) - 1
          OBVIOUS
        <5> QED
          BY <1>1, <4>3, <4>4, <5>1
      <4>6. B[w][k] = B[w][1] + k - 1
        BY <2>2, <4>3, <4>5
      <4>7. d % 7 # 0
        BY <3>2
      <4>8. d \in (b + 1)..(b + (n + 1))
        OBVIOUS
      <4> HIDE DEF d
      <4> QED
        BY <2>2, <4>6, <4>7, <4>8
    <3> QED
      BY <1>1, <3>1, <3>2
  <2> QED
    BY <1>5, <2>1, <2>2
<1>9. DaysAscend(B)
  <2> SUFFICES ASSUME NEW w \in 1..l, NEW v \in 1..l, w < v,
                      NEW k \in 1..Len(B[w]), NEW m \in 1..Len(B[v])
               PROVE  B[w][k] < B[v][m]
    BY DEF DaysAscend
  <2>1. k \in 1..Len(A[w]) /\ B[w][k] = A[w][k]
    <3>1. w # l
      BY <1>1
    <3> QED
      BY <1>5, <3>1
  <2>2. CASE m \in 1..Len(A[v]) /\ B[v][m] = A[v][m]
    BY <2>1, <2>2 DEF Cut, DaysAscend
  <2>3. CASE B[v][m] = d
    <3>1. A[w][k] \in (b + 1)..(b + n)
      BY <2>1 DEF Cut, WithinDays
    <3> QED
      BY <2>1, <2>3, <3>1
  <2> QED
    BY <1>5, <2>2, <2>3
<1>10. DaysPresent(B, b, n + 1)
  <2> SUFFICES ASSUME NEW e \in (b + 1)..(b + (n + 1))
               PROVE  \E w \in 1..Len(B) : \E k \in 1..Len(B[w]) : B[w][k] = e
    BY DEF DaysPresent
  <2>1. CASE e \in (b + 1)..(b + n)
    <3>1. PICK w \in 1..l : \E k \in 1..Len(A[w]) : A[w][k] = e
      BY <2>1 DEF Cut, DaysPresent
    <3> QED
      BY <1>6, <3>1
  <2>2. CASE e = d
    <3>1. l \in 1..l /\ Len(u) + 1 \in 1..Len(B[l])
      BY <1>1, <1>2
    <3> QED
      BY <1>2, <2>2, <3>1
  <2> QED
    BY <1>1, <2>1, <2>2
<1>11. LastIs(B, b, n + 1)
  BY <1>1, <1>2 DEF LastIs
<1> QED
  BY <1>1, <1>8, <1>9, <1>10, <1>11 DEF Cut

\* The columns that are complete, and the one that is not.
AllWeeks(c) == Append(c.weeks, c.week)

LEMMA AllWeeksFacts ==
  ASSUME NEW c \in Columns
  PROVE  /\ c.weeks \in Seq(Seq(Int)) /\ Len(c.weeks) \in Nat
         /\ c.week \in Seq(Int) /\ Len(c.week) \in Nat
         /\ AllWeeks(c) \in Seq(Seq(Int)) /\ Len(AllWeeks(c)) = Len(c.weeks) + 1
         /\ AllWeeks(c)[Len(c.weeks) + 1] = c.week
         /\ \A w \in 1..Len(c.weeks) : AllWeeks(c)[w] = c.weeks[w]
<1>1. c.weeks \in Seq(Seq(Int)) /\ c.week \in Seq(Int)
  BY DEF Columns
<1> QED
  BY <1>1, AppendProperties, LenProperties DEF AllWeeks

\* One more day.
LEMMA AddDayCuts ==
  ASSUME NEW b \in Int, NEW n \in Nat, NEW c \in Columns, Cut(AllWeeks(c), b, n)
  PROVE  Cut(AllWeeks(AddDay(c, b + n + 1)), b, n + 1)
<1> DEFINE d == b + n + 1
           e == AddDay(c, d)
           l == Len(c.weeks)
<1>0. d \in Int /\ e \in Columns
  BY AddDayType
<1>1. Len(c.week) > 0 <=> n > 0
  <2>1. Len(c.weeks) + 1 = Len(AllWeeks(c)) /\ AllWeeks(c)[Len(AllWeeks(c))] = c.week /\ Len(c.week) \in Nat
    BY AllWeeksFacts
  <2>2. LastIs(AllWeeks(c), b, n)
    BY DEF Cut
  <2> QED
    BY <2>1, <2>2 DEF LastIs
<1>2. c.week = <<>> <=> Len(c.week) = 0
  BY AllWeeksFacts, EmptySeq
<1>3. CASE d % 7 = 0 /\ c.week # <<>>
  <2>1. e = [weeks |-> Append(c.weeks, c.week), week |-> <<d>>]
    BY <1>3 DEF AddDay
  <2>2. AllWeeks(e) = Append(AllWeeks(c), <<d>>)
    BY <2>1 DEF AllWeeks
  <2>3. n > 0
    BY <1>1, <1>2, <1>3, AllWeeksFacts
  <2> QED
    BY <2>2, <2>3, CutOpens
<1>4. CASE ~(d % 7 = 0 /\ c.week # <<>>)
  <2>1. e.weeks = c.weeks /\ e.week = Append(c.week, d)
    <3>1. e = [c EXCEPT !.week = Append(@, d)]
      BY <1>4 DEF AddDay
    <3> HIDE DEF e, d
    <3> DEFINE W == Seq(Seq(Int))
               V == Seq(Int)
    <3>2. c \in [weeks : W, week : V]
      BY DEF Columns
    <3> HIDE DEF W, V
    <3> QED
      BY <3>1, <3>2
  <2>2. Len(c.week) = 0 \/ d % 7 # 0
    BY <1>2, <1>4
  <2> HIDE DEF e
  <2>3. /\ AllWeeks(e) \in Seq(Seq(Int)) /\ Len(AllWeeks(e)) = Len(AllWeeks(c))
        /\ AllWeeks(e)[Len(AllWeeks(c))] = Append(c.week, d)
        /\ \A w \in 1..(Len(AllWeeks(c)) - 1) : AllWeeks(e)[w] = AllWeeks(c)[w]
    <3>1. Len(c.weeks) \in Nat /\ Len(AllWeeks(c)) = l + 1 /\ \A w \in 1..l : AllWeeks(c)[w] = c.weeks[w]
      BY AllWeeksFacts
    <3>2. /\ AllWeeks(e) \in Seq(Seq(Int)) /\ Len(AllWeeks(e)) = Len(e.weeks) + 1
          /\ AllWeeks(e)[Len(e.weeks) + 1] = e.week
          /\ \A w \in 1..Len(e.weeks) : AllWeeks(e)[w] = e.weeks[w]
      BY <1>0, AllWeeksFacts
    <3> QED
      BY <2>1, <3>1, <3>2
  <2>4. AllWeeks(c)[Len(AllWeeks(c))] = c.week
    BY AllWeeksFacts
  <2>5. Cut(AllWeeks(e), b, n + 1)
    BY <2>2, <2>3, <2>4, CutGrows
  <2> QED
    BY <2>5 DEF e
<1> QED
  BY <1>3, <1>4

\* All the days.
LEMMA ColumnsCut ==
  ASSUME NEW b \in Int, NEW days \in Seq(Int), \A i \in 1..Len(days) : days[i] = b + i,
         NEW g, Drawn(g, days)
  PROVE  g[DOMAIN days] \in Columns /\ Cut(AllWeeks(g[DOMAIN days]), b, Len(days))
<1> DEFINE N == Len(days)
           T == {n \in Nat : n <= N => g[1..n] \in Columns /\ Cut(AllWeeks(g[1..n]), b, n)}
<1>1. N \in Nat /\ DOMAIN days = 1..N
  BY LenProperties
<1>2. 0 \in T
  <2>1. 1..0 = {} /\ {} \in SUBSET DOMAIN days
    OBVIOUS
  <2>2. g[{}] = NoColumns
    BY <2>1 DEF Drawn
  <2>3. NoColumns \in Columns /\ AllWeeks(NoColumns) = << <<>> >>
    BY EmptySeq DEF NoColumns, Columns, AllWeeks
  <2> QED
    BY <2>1, <2>2, <2>3, CutStarts
<1>3. ASSUME NEW n \in Nat, n \in T PROVE n + 1 \in T
  <2> SUFFICES ASSUME n + 1 <= N
               PROVE  g[1..(n + 1)] \in Columns /\ Cut(AllWeeks(g[1..(n + 1)]), b, n + 1)
    OBVIOUS
  <2>1. g[1..n] \in Columns /\ Cut(AllWeeks(g[1..n]), b, n)
    BY <1>1, <1>3
  <2>2. 1..(n + 1) \in SUBSET DOMAIN days /\ days[n + 1] = b + n + 1
    BY <1>1
  <2>3. g[1..(n + 1)] = AddDay(g[1..n], b + n + 1)
    <3> DEFINE s == 1..(n + 1)
    <3>1. s # {} /\ Max(s) = n + 1 /\ s \ {n + 1} = 1..n
      BY MaxOfInterval
    <3>2. s \in SUBSET DOMAIN days
      BY <2>2
    <3> HIDE DEF s
    <3>3. g[s] = AddDay(g[s \ {n + 1}], days[n + 1])
      BY <3>1, <3>2 DEF Drawn
    <3> QED
      BY <2>2, <3>1, <3>3 DEF s
  <2> QED
    BY <2>1, <2>3, AddDayCuts, AddDayType
<1>4. N \in T
  <2> HIDE DEF T
  <2>1. Nat \subseteq T
    BY <1>2, <1>3, Induction
  <2> QED
    BY <1>1, <2>1
<1> QED
  BY <1>1, <1>4

\* How far the clock is ahead: between twelve hours behind and fourteen ahead,
\* and an hour more or less from one date to the next.
LEMMA AheadFacts ==
  ASSUME GraphTypeOK, NEW d \in Int
  PROVE  /\ Ahead(d) \in -12..14 /\ Ahead(d + 1) - Ahead(d) \in -1..1
         /\ Midnight(d) = 24 * d - Ahead(d) /\ Midnight(d) \in Int
<1>1. zone \in -12..13
  BY DEF GraphTypeOK, Zones
<1>2. Ahead(d) \in {zone, zone + 1} /\ Ahead(d + 1) \in {zone, zone + 1}
  BY <1>1 DEF Ahead
<1> HIDE DEF Ahead
<1> QED
  BY <1>1, <1>2 DEF Midnight, Ahead

\* The local date of a time is the last one to begin, and its UTC date or one
\* beside it.
LEMMA LocalDateIsNear ==
  ASSUME GraphTypeOK, NEW t \in Nat
  PROVE  /\ UtcDay(t) \in Int /\ 24 * UtcDay(t) <= t /\ t <= 24 * UtcDay(t) + 23
         /\ LocalDay(t) \in (UtcDay(t) - 1)..(UtcDay(t) + 1)
         /\ Midnight(LocalDay(t)) <= t /\ t < Midnight(LocalDay(t) + 1)
<1> DEFINE d == UtcDay(t)
<1>1. d \in Int /\ 24 * d <= t /\ t <= 24 * d + 23
  BY DEF UtcDay
<1> HIDE DEF d
<1>2. \A e \in {d - 1, d, d + 1, d + 2} :
         e \in Int /\ Midnight(e) \in Int /\ 24 * e - 14 <= Midnight(e) /\ Midnight(e) <= 24 * e + 12
  <2> TAKE e \in {d - 1, d, d + 1, d + 2}
  <2>1. e \in Int
    BY <1>1
  <2>2. Ahead(e) \in -12..14 /\ Midnight(e) = 24 * e - Ahead(e)
    BY <2>1, AheadFacts
  <2> QED
    BY <2>1, <2>2
<1>3. Midnight(d - 1) <= t /\ t < Midnight(d + 2)
  BY <1>1, <1>2
<1>4. d \in Int /\ Midnight(d) \in Int /\ Midnight(d + 1) \in Int /\ Midnight(d) < Midnight(d + 1)
  <2>1. Midnight(d + 1) = 24 * (d + 1) - Ahead(d + 1) /\ Midnight(d) = 24 * d - Ahead(d)
    BY <1>1, AheadFacts
  <2>2. Ahead(d) \in Int /\ Ahead(d + 1) \in Int /\ Ahead(d + 1) - Ahead(d) <= 1
    <3>1. d + 1 \in Int
      BY <1>1
    <3> QED
      BY <1>1, <3>1, AheadFacts
  <2> QED
    BY <1>1, <2>1, <2>2
<1>5. CASE t < Midnight(d)
  <2>1. ~(t >= Midnight(d + 1))
    BY <1>4, <1>5
  <2>2. LocalDay(t) = d - 1
    BY <1>5, <2>1 DEF LocalDay, d
  <2>3. (d - 1) + 1 = d
    BY <1>1
  <2> QED
    BY <1>1, <1>3, <1>5, <2>2, <2>3 DEF d
<1>6. CASE ~(t < Midnight(d)) /\ t >= Midnight(d + 1)
  <2>1. LocalDay(t) = d + 1
    BY <1>6 DEF LocalDay, d
  <2>2. (d + 1) + 1 = d + 2
    BY <1>1
  <2> QED
    BY <1>1, <1>3, <1>6, <2>1, <2>2 DEF d
<1>7. CASE ~(t < Midnight(d)) /\ ~(t >= Midnight(d + 1))
  <2>1. LocalDay(t) = d
    BY <1>7 DEF LocalDay, d
  <2> QED
    BY <1>1, <1>4, <1>7, <2>1 DEF d
<1> QED
  BY <1>5, <1>6, <1>7

LEMMA WeeksAreCut ==
  ASSUME GraphTypeOK
  PROVE  Cut(Weeks, LocalDay(now) - Span - 1, Span + 1)
<1> DEFINE b == LocalDay(now) - Span - 1
           n == Span + 1
<1>1. Span \in Nat /\ n \in Nat /\ n > 0 /\ zone \in Zones /\ now \in Nat
  BY ContributionAssumption DEF GraphTypeOK, Times, First
<1>2. LocalDay(now) \in Int /\ b \in Int
  BY <1>1, LocalDateIsNear
<1>3. Len(Days) = n /\ \A i \in 1..n : Days[i] = b + i /\ Days[i] \in Int
  BY <1>1, <1>2 DEF Days
<1>4. Days \in Seq(Int)
  <2>1. \A i \in 1..(Span + 1) : LocalDay(now) - Span + i - 1 \in Int
    BY <1>1, <1>2
  <2> QED
    BY <1>1, <2>1, IsASeq DEF Days
<1>5. PICK g : Drawn(g, Days) /\ FoldLeft(AddDay, NoColumns, Days) = g[DOMAIN Days]
  BY <1>4, ColumnsAreDefined
<1> DEFINE c == g[DOMAIN Days]
<1> HIDE DEF b, n
<1>6. c \in Columns /\ Cut(AllWeeks(c), b, n)
  BY <1>2, <1>3, <1>4, <1>5, ColumnsCut
<1> HIDE DEF c
<1>7. c.week # <<>>
  <2>1. Len(AllWeeks(c)) = Len(c.weeks) + 1 /\ AllWeeks(c)[Len(AllWeeks(c))] = c.week
    BY <1>6, AllWeeksFacts
  <2>2. Len(c.week) > 0
    BY <1>1, <1>6, <2>1 DEF Cut, LastIs
  <2> QED
    BY <2>2, EmptySeq
<1>8. Weeks = AllWeeks(c)
  BY <1>5, <1>7 DEF Weeks, NoColumns, AllWeeks, c
<1> QED
  BY <1>6, <1>8 DEF b, n

\* No column has more than seven days: a column of eight would hold a Sunday
\* that is not its first day.
LEMMA SevenDays ==
  ASSUME NEW A, NEW b \in Int, NEW n \in Nat, Cut(A, b, n), NEW w \in 1..Len(A)
  PROVE  Len(A[w]) <= 7
<1> SUFFICES ASSUME ~(Len(A[w]) <= 7) PROVE FALSE
  OBVIOUS
<1>1. Len(A[w]) \in Nat /\ 1 \in 1..Len(A[w]) /\ A[w][1] \in Int
  BY CutTypes DEF Cut
<1>2. \A k \in 2..8 : k \in 1..Len(A[w])
  BY <1>1
<1>3. \A k \in 2..8 : (A[w][1] + k - 1) % 7 # 0
  <2> TAKE k \in 2..8
  <2>1. k \in 1..Len(A[w]) /\ k > 1
    BY <1>2
  <2>2. A[w][k] = A[w][1] + k - 1 /\ A[w][k] % 7 # 0
    BY <2>1 DEF Cut, WithinDays
  <2> QED
    BY <2>2
<1>4. \A x \in Int : \E k \in 2..8 : (x + k - 1) % 7 = 0
  <2> TAKE x \in Int
  <2>1. x % 7 \in 0..6
    OBVIOUS
  <2> DEFINE k == 8 - (x % 7)
  <2>2. k \in 2..8 /\ x + k - 1 = 7 * (x \div 7) + 7
    BY <2>1
  <2>3. (x + k - 1) % 7 = 0
    BY <2>2
  <2> QED
    BY <2>2, <2>3
<1> QED
  BY <1>1, <1>3, <1>4

\* A day is on one square.
LEMMA DayHasOneSquare ==
  ASSUME NEW A, NEW b \in Int, NEW n \in Nat, Cut(A, b, n),
         NEW w \in 1..Len(A), NEW k \in 1..Len(A[w]),
         NEW v \in 1..Len(A), NEW m \in 1..Len(A[v]), A[w][k] = A[v][m]
  PROVE  w = v /\ k = m
<1>1. /\ Len(A) \in Nat /\ Len(A[w]) \in Nat /\ Len(A[v]) \in Nat
      /\ A[w][k] \in Int /\ A[v][m] \in Int
  BY CutTypes DEF Cut
<1>2. w = v
  <2>1. ~(w < v) /\ ~(v < w)
    BY <1>1 DEF Cut, DaysAscend
  <2> QED
    BY <1>1, <2>1
<1>3. 1 \in 1..Len(A[w]) /\ A[w][1] \in Int
  <2>1. 1 \in 1..Len(A[w])
    BY <1>1
  <2> QED
    BY <2>1, CutTypes DEF Cut
<1>4. A[w][k] = A[w][1] + k - 1 /\ A[w][m] = A[w][1] + m - 1
  BY <1>2 DEF Cut, WithinDays
<1> QED
  BY <1>1, <1>2, <1>3, <1>4

-----------------------------------------------------------------------------
(* The contribution graph: dates and time zones.                             *)

LEMMA SummersAreDates == Summers \subseteq SUBSET Dates
<1> SUFFICES ASSUME NEW S \in Summers PROVE S \subseteq Dates
  OBVIOUS
<1>1. \A from, to \in ClockChanges : from..(to - 1) \subseteq Dates
  BY ContributionAssumption DEF Dates
<1>2. S = {} \/ \E from, to \in ClockChanges : S \in {from..(to - 1), Dates \ (from..(to - 1))}
  BY DEF Summers
<1> QED
  BY <1>1, <1>2

LEMMA GraphTypesAlways == GraphInit /\ [][GraphNext]_GraphVars => []GraphTypeOK
<1>1. ASSUME GraphInit PROVE GraphTypeOK
  <2>1. First \in Times
    BY ContributionAssumption DEF First, Times
  <2> QED
    BY <1>1, <2>1, SummersAreDates DEF GraphInit, GraphTypeOK
<1>2. ASSUME GraphTypeOK, [GraphNext]_GraphVars PROVE GraphTypeOK'
  <2>1. CASE ProfileArrives \/ Tick \/ UNCHANGED GraphVars
    BY <1>2, <2>1 DEF ProfileArrives, Tick, GraphVars, clockVars, GraphTypeOK
  <2>2. ASSUME NEW n \in Amounts, LogActivity(n) PROVE GraphTypeOK'
    <3>1. [at |-> now, n |-> n] \in [at : Times, n : Amounts]
      BY <1>2 DEF GraphTypeOK
    <3> QED
      BY <1>2, <2>2, <3>1 DEF LogActivity, clockVars, GraphTypeOK
  <2> QED
    BY <1>2, <2>1, <2>2 DEF GraphNext
<1> QED
  BY <1>1, <1>2, PTL

\* The UTC date a square looks up: its own, or the day before in the east.
LEMMA KeyOfDate ==
  ASSUME GraphTypeOK, NEW d \in Int
  PROVE  Key(d) = IF East(d) THEN d - 1 ELSE d
<1>1. \A m \in Int, z \in -12..14 : (24 * m - z) \div 24 = IF z > 0 THEN m - 1 ELSE m
  OBVIOUS
<1> QED
  BY <1>1, AheadFacts DEF Key, UtcDay, East

\* The dates that have the key of an activity: that of its UTC day and the next
\* one at most, shown and not far.
LEMMA DatesOfActivity ==
  ASSUME GraphTypeOK, NEW a \in log, now - a.at \in 24..(24 * (Span - 1)), NEW d, d = UtcDay(a.at)
  PROVE  /\ d \in Int /\ LocalDay(now) \in Int /\ Span \in Nat /\ Span > 0
         /\ \A e \in Int : Key(e) = d => e \in {d, d + 1}
         /\ Key(d) = d <=> ~East(d)
         /\ Key(d + 1) = d <=> East(d + 1)
         /\ \A e \in {d, d + 1} : Key(e) = d =>
              e \in (LocalDay(now) - Span)..LocalDay(now) /\ e - LocalDay(a.at) \in -1..1
<1> DEFINE m == LocalDay(now)
           l == LocalDay(a.at)
<1>1. Span \in Nat /\ Span > 0 /\ a.at \in Nat /\ now \in Nat
  BY ContributionAssumption DEF GraphTypeOK, Times, First
<1>2. d \in Int /\ 24 * d <= a.at /\ a.at <= 24 * d + 23
  BY <1>1, LocalDateIsNear
<1>3. l \in Int /\ Midnight(l) <= a.at /\ a.at < Midnight(l + 1)
  BY <1>1, LocalDateIsNear
<1>4. m \in Int /\ Midnight(m) <= now /\ now < Midnight(m + 1)
  BY <1>1, LocalDateIsNear
<1> HIDE DEF m, l
<1>5. now >= 24 * d + 24 /\ now <= 24 * (d + Span) - 1
  BY <1>1, <1>2
<1>6. \A e \in Int : 24 * e - 14 <= Midnight(e) /\ Midnight(e) <= 24 * e + 12 /\ Midnight(e) \in Int
  BY AheadFacts
<1>7. d <= m /\ m <= d + Span
  <2>1. now < 24 * (m + 1) + 12 /\ 24 * m - 14 <= now
    BY <1>1, <1>4, <1>6
  <2> QED
    BY <1>1, <1>2, <1>4, <1>5, <2>1
<1>8. d - 1 <= l /\ l <= d + 1
  <2>1. a.at < 24 * (l + 1) + 12 /\ 24 * l - 14 <= a.at
    BY <1>1, <1>3, <1>6
  <2> QED
    BY <1>1, <1>2, <1>3, <2>1
<1>9. ASSUME East(d + 1) PROVE d + 1 <= m /\ d <= l
  <2>1. d + 1 \in Int
    BY <1>2
  <2>2. Midnight(d + 1) < 24 * d + 24 /\ Midnight(d) <= 24 * d
    <3>1. Ahead(d + 1) \in Int /\ Midnight(d + 1) = 24 * (d + 1) - Ahead(d + 1) /\ Ahead(d + 1) > 0
      BY <1>9, <2>1, AheadFacts DEF East
    <3>2. Ahead(d) \in Int /\ Midnight(d) = 24 * d - Ahead(d) /\ Ahead(d + 1) - Ahead(d) <= 1
      BY <1>2, AheadFacts
    <3> QED
      BY <1>2, <3>1, <3>2
  <2>3. m # d
    BY <1>1, <1>2, <1>4, <1>5, <1>6, <2>2
  <2>4. l # d - 1
    <3>1. (d - 1) + 1 = d
      BY <1>2
    <3> QED
      BY <1>1, <1>2, <1>3, <1>6, <2>2, <3>1
  <2> QED
    BY <1>2, <1>3, <1>4, <1>7, <1>8, <2>3, <2>4
<1>10. \A e \in Int : Key(e) = d => e \in {d, d + 1}
  BY <1>2, KeyOfDate
<1>11. Key(d) = d <=> ~East(d)
  BY <1>2, KeyOfDate
<1>12. Key(d + 1) = d <=> East(d + 1)
  <2>1. Key(d + 1) = IF East(d + 1) THEN (d + 1) - 1 ELSE d + 1
    BY <1>2, KeyOfDate
  <2> QED
    BY <1>2, <2>1
<1>13. d \in (m - Span)..m /\ d - l \in -1..1
  BY <1>1, <1>2, <1>3, <1>4, <1>7, <1>8
<1>14. East(d + 1) => d + 1 \in (m - Span)..m /\ d + 1 - l \in -1..1
  <2>1. d \in Int /\ m \in Int /\ l \in Int /\ Span \in Nat
    BY <1>1, <1>2, <1>3, <1>4
  <2> QED
    BY <1>7, <1>8, <1>9, <2>1
<1>15. \A e \in {d, d + 1} : Key(e) = d => e \in (m - Span)..m /\ e - l \in -1..1
  <2> TAKE e \in {d, d + 1}
  <2> HAVE Key(e) = d
  <2>1. CASE e = d
    BY <1>13, <2>1
  <2>2. CASE e = d + 1
    <3>1. East(d + 1)
      BY <1>12, <2>2
    <3> QED
      BY <1>1, <1>2, <1>3, <1>4, <1>14, <2>2, <3>1
  <2> QED
    BY <2>1, <2>2
<1> QED
  BY <1>1, <1>2, <1>4, <1>10, <1>11, <1>12, <1>15 DEF m, l

\* The log is finite.
LEMMA LogIsFinite == GraphInit /\ [][GraphNext]_GraphVars => []IsFiniteSet(log)
<1>1. GraphInit => IsFiniteSet(log)
  BY FS_EmptySet DEF GraphInit
<1>2. IsFiniteSet(log) /\ [GraphNext]_GraphVars => IsFiniteSet(log)'
  BY FS_AddElement DEF GraphNext, GraphVars, ProfileArrives, Tick, LogActivity
<1> QED
  BY <1>1, <1>2, PTL

\* The level of a square grows with its count.
LEMMA LevelGrows ==
  ASSUME NEW m \in Nat, NEW n \in Nat, m <= n
  PROVE  Level(m) <= Level(n)
BY DEF Level

\* The square of an activity counts it.
LEMMA SquareCounts ==
  ASSUME GraphTypeOK, IsFiniteSet(log), NEW a \in Activities, NEW d, Key(d) = UtcDay(a.at)
  PROVE  Level(Count(d)) >= Level(a.n)
<1> DEFINE S == {x \in Activities : UtcDay(x.at) = Key(d)}
<1>1. S \subseteq log /\ a \in S
  BY DEF Activities
<1>2. IsFiniteSet(S) /\ \A x \in S : x.n \in Nat
  BY <1>1, FS_Subset DEF GraphTypeOK, Amounts
<1>3. Count(d) = Total(S)
  BY DEF Count, Total
<1> HIDE DEF S
<1>4. Count(d) \in Nat /\ Count(d) >= a.n /\ a.n \in Nat
  BY <1>1, <1>2, <1>3, SumOfNaturals
<1> QED
  <2>1. Level(a.n) <= Level(Count(d)) /\ Level(a.n) \in Int /\ Level(Count(d)) \in Int
    BY <1>4, LevelGrows DEF Level
  <2> QED
    BY <2>1

\* An activity is on the squares of the dates that have its key.
LEMMA ActivityIsOnItsSquares ==
  ASSUME GraphTypeOK, IsFiniteSet(log)
  PROVE  OldActivityIsCounted
<1> SUFFICES ASSUME NEW a \in log, now - a.at \in 24..(24 * (Span - 1))
             PROVE  LET d == UtcDay(a.at)
                        squares == {s \in (1..Len(Weeks)) \X (1..7) :
                                      /\ s[2] \in DOMAIN Weeks[s[1]]
                                      /\ Key(Weeks[s[1]][s[2]]) = d}
                    IN /\ Cardinality(squares) = CASE East(d) = East(d + 1) -> 1
                                                   [] ~East(d) /\ East(d + 1) -> 2
                                                   [] East(d) /\ ~East(d + 1) -> 0
                       /\ \A s \in squares :
                            /\ Weeks[s[1]][s[2]] - LocalDay(a.at) \in -1..1
                            /\ Level(Count(Weeks[s[1]][s[2]])) >= Level(a.n)
  BY DEF OldActivityIsCounted
<1> DEFINE b == LocalDay(now) - Span - 1
           n == Span + 1
           W == Weeks
           d == UtcDay(a.at)
           date(s) == W[s[1]][s[2]]
           squares == {s \in (1..Len(W)) \X (1..7) :
                         s[2] \in DOMAIN W[s[1]] /\ Key(W[s[1]][s[2]]) = d}
<1>1. Span \in Nat /\ n \in Nat /\ now \in Nat /\ a.at \in Nat
  BY ContributionAssumption DEF GraphTypeOK, Times, First
<1>2. LocalDay(now) \in Int /\ b \in Int
  BY <1>1, LocalDateIsNear
<1>3. Cut(W, b, n)
  BY WeeksAreCut
<1>4. /\ d \in Int
      /\ \A e \in Int : Key(e) = d => e \in {d, d + 1}
      /\ Key(d) = d <=> ~East(d)
      /\ Key(d + 1) = d <=> East(d + 1)
      /\ \A e \in {d, d + 1} : Key(e) = d =>
           e \in (LocalDay(now) - Span)..LocalDay(now) /\ e - LocalDay(a.at) \in -1..1
  BY DatesOfActivity
<1>5. \A e \in {d, d + 1} : Key(e) = d => e \in (b + 1)..(b + n)
  BY <1>1, <1>2, <1>4
<1> HIDE DEF W, b, n, d
<1>6. \A w \in 1..Len(W) : /\ W[w] \in Seq(Int) /\ DOMAIN W[w] = 1..Len(W[w])
                           /\ Len(W[w]) \in Nat /\ Len(W[w]) <= 7
  BY <1>1, <1>2, <1>3, CutTypes, SevenDays, LenProperties DEF Cut
<1>7. ASSUME NEW s \in squares
      PROVE  /\ s = <<s[1], s[2]>> /\ s[1] \in 1..Len(W) /\ s[2] \in 1..Len(W[s[1]])
             /\ date(s) \in {d, d + 1} /\ Key(date(s)) = d
  <2>1. s = <<s[1], s[2]>> /\ s[1] \in 1..Len(W) /\ s[2] \in 1..Len(W[s[1]]) /\ Key(date(s)) = d
    BY <1>6
  <2>2. date(s) \in Int
    BY <1>3, <2>1, CutTypes DEF Cut
  <2> QED
    BY <1>4, <2>1, <2>2
<1>8. ASSUME NEW s \in squares, NEW t \in squares, date(s) = date(t) PROVE s = t
  <2>1. s[1] = t[1] /\ s[2] = t[2]
    <3>1. /\ s[1] \in 1..Len(W) /\ s[2] \in 1..Len(W[s[1]])
          /\ t[1] \in 1..Len(W) /\ t[2] \in 1..Len(W[t[1]])
          /\ W[s[1]][s[2]] = W[t[1]][t[2]]
      BY <1>7, <1>8
    <3> HIDE DEF date, squares
    <3>2. PICK w, k, v, j : w = s[1] /\ k = s[2] /\ v = t[1] /\ j = t[2]
      OBVIOUS
    <3>3. w \in 1..Len(W) /\ k \in 1..Len(W[w]) /\ v \in 1..Len(W) /\ j \in 1..Len(W[v]) /\ W[w][k] = W[v][j]
      BY <3>1, <3>2
    <3>4. w = v /\ k = j
      BY <1>1, <1>2, <1>3, <3>3, DayHasOneSquare
    <3> QED
      BY <3>2, <3>4
  <2> QED
    BY <1>7, <2>1
<1>9. ASSUME NEW e \in {d, d + 1}, Key(e) = d PROVE \E s \in squares : date(s) = e
  <2>1. e \in (b + 1)..(b + n)
    BY <1>5, <1>9
  <2>2. PICK w \in 1..Len(W) : \E k \in 1..Len(W[w]) : W[w][k] = e
    BY <1>3, <2>1 DEF Cut, DaysPresent
  <2>3. PICK k \in 1..Len(W[w]) : W[w][k] = e
    BY <2>2
  <2> DEFINE s == <<w, k>>
  <2>4. s \in (1..Len(W)) \X (1..7) /\ s[1] = w /\ s[2] = k /\ k \in DOMAIN W[w]
    <3>0. DOMAIN W[w] = 1..Len(W[w]) /\ Len(W[w]) \in Nat /\ Len(W[w]) <= 7
      BY <1>6
    <3>1. k \in 1..7 /\ k \in DOMAIN W[w]
      BY <3>0
    <3> QED
      BY <3>1
  <2> HIDE DEF s
  <2>5. s \in squares /\ date(s) = e
    BY <1>9, <2>3, <2>4
  <2> QED
    BY <2>5
<1>10. ASSUME NEW s \in squares
       PROVE  date(s) - LocalDay(a.at) \in -1..1 /\ Level(Count(date(s))) >= Level(a.n)
  <2>1. a \in Activities
    BY <1>1 DEF Activities
  <2>2. date(s) \in {d, d + 1} /\ Key(date(s)) = d
    BY <1>7
  <2> HIDE DEF date, squares
  <2>3. Level(Count(date(s))) >= Level(a.n)
    BY <2>1, <2>2, SquareCounts DEF d
  <2> QED
    BY <1>4, <2>2, <2>3
<1>11. d # d + 1
  BY <1>4
<1> HIDE DEF squares, date
<1>12. Cardinality(squares) = CASE East(d) = East(d + 1) -> 1
                                [] ~East(d) /\ East(d + 1) -> 2
                                [] East(d) /\ ~East(d + 1) -> 0
  <2>0. East(d) \in BOOLEAN /\ East(d + 1) \in BOOLEAN
    BY DEF East
  <2>1. CASE ~East(d) /\ East(d + 1)
    <3>1. PICK s \in squares : date(s) = d
      BY <1>4, <1>9, <2>1
    <3>2. PICK t \in squares : date(t) = d + 1
      BY <1>4, <1>9, <2>1
    <3>3. squares = {s} \cup {t} /\ t \notin {s}
      BY <1>7, <1>8, <1>11, <3>1, <3>2
    <3>4. IsFiniteSet({s}) /\ Cardinality({s}) = 1
      BY FS_Singleton
    <3>5. Cardinality({s} \cup {t}) = Cardinality({s}) + 1
      BY <3>3, <3>4, FS_AddElement
    <3>6. Cardinality(squares) = 2
      BY <3>3, <3>4, <3>5
    <3> QED
      BY <2>0, <2>1, <3>6
  <2>2. CASE East(d) /\ ~East(d + 1)
    <3>1. squares = {}
      BY <1>4, <1>7, <2>2
    <3>2. Cardinality(squares) = 0
      BY <3>1, FS_EmptySet
    <3> QED
      BY <2>0, <2>2, <3>2
  <2>3. CASE East(d) /\ East(d + 1)
    <3>1. PICK s \in squares : date(s) = d + 1
      BY <1>4, <1>9, <2>3
    <3>2. squares = {s}
      BY <1>4, <1>7, <1>8, <2>3, <3>1
    <3>3. Cardinality(squares) = 1
      BY <3>2, FS_Singleton
    <3> QED
      BY <2>0, <2>3, <3>3
  <2>4. CASE ~East(d) /\ ~East(d + 1)
    <3>1. PICK s \in squares : date(s) = d
      BY <1>4, <1>9, <2>4
    <3>2. squares = {s}
      BY <1>4, <1>7, <1>8, <2>4, <3>1
    <3>3. Cardinality(squares) = 1
      BY <3>2, FS_Singleton
    <3> QED
      BY <2>0, <2>4, <3>3
  <2> QED
    BY <2>1, <2>2, <2>3, <2>4
<1> QED
  BY <1>10, <1>12 DEF squares, date, W, d

\* For every time zone, summer time, length of the graph and log, an activity
\* of the last year that is a day old is counted on one square of one column, but
\* for a change of the clock that puts it on two or on none; each is of its local
\* date or of one beside it (profile/page.tsx:88-121).
THEOREM ActivityIsCounted == GraphSpec => []OldActivityIsCounted
BY GraphTypesAlways, LogIsFinite, ActivityIsOnItsSquares, PTL DEF GraphSpec

-----------------------------------------------------------------------------
(* The pages together.  A step is one of the page that is open and leaves    *)
(* the variables of the others alone.                                        *)

LEMMA PagesStart ==
  PagesInit => /\ LogsInit /\ SessionInit /\ CreateInit /\ InviteInit
               /\ DialogInit /\ ViewInit /\ GraphInit
BY DEF PagesInit

LEMMA PagesStep ==
  ASSUME [PagesNext]_PagesVars
  PROVE  /\ [LogsNext]_LogsVars /\ [SessionNext]_SessionVars /\ [CreateNext]_CreateVars
         /\ [InviteNext]_InviteVars /\ [DialogNext]_DialogVars /\ [ViewNext]_ViewVars
         /\ [GraphNext]_GraphVars
BY DEF PagesNext, PagesVars, On

\* Every page behaves as its own module says, whichever is open.
THEOREM PagesAreApart ==
  PagesSpec => /\ LogsInit /\ [][LogsNext]_LogsVars
               /\ SessionInit /\ [][SessionNext]_SessionVars
               /\ CreateInit /\ [][CreateNext]_CreateVars
               /\ InviteInit /\ [][InviteNext]_InviteVars
               /\ DialogInit /\ [][DialogNext]_DialogVars
               /\ ViewInit /\ [][ViewNext]_ViewVars
               /\ GraphInit /\ [][GraphNext]_GraphVars
BY PagesStart, PagesStep, PTL DEF PagesSpec

\* The types of all the pages.
THEOREM PagesTypes == PagesSpec => []PagesTypeOK
<1>1. PagesSpec => [](page \in PageNames)
  <2>1. PagesInit => page \in PageNames
    BY DEF PagesInit
  <2>2. page \in PageNames /\ [PagesNext]_PagesVars => (page \in PageNames)'
    BY DEF PagesNext, PagesVars
  <2> QED
    BY <2>1, <2>2, PTL DEF PagesSpec
<1>2. FormTypes => CreateTypeOK
  BY DEF FormTypes
<1> QED
  BY <1>1, <1>2, PagesAreApart, LogsAlways, SessionAlways, FormAlways, InviteAlways,
     DialogAlways, ViewTypesAlways, GraphTypesAlways, PTL DEF PagesTypeOK

\* What is proved of each page holds of all of them together: no false
\* sign-out, the branch and the project of a sandbox, the owner and the
\* invitations of a project, the busy button, the order of the log and the
\* graph of activities.
THEOREM PagesAreCorrect ==
  PagesSpec => /\ []NoFalseSignOut
               /\ []ListedBranchIsChosen /\ []SandboxAsSubmitted
               /\ OwnerStays /\ []WithdrawnIsNotOffered
               /\ []BusyHasRequest
               /\ []TerminalShowsLog
               /\ ListsDoNotFlicker
               /\ []OldActivityIsCounted
<1>1. CheckInv => NoFalseSignOut
  BY DEF CheckInv
<1>2. FormInv => ListedBranchIsChosen /\ SandboxAsSubmitted
  BY DEF FormInv
<1>3. MemberInv => WithdrawnIsNotOffered
  BY DEF MemberInv
<1>4. BusyInv => BusyHasRequest
  BY DEF BusyInv, BusyHasRequest, Mine
<1>5. LogsInv => TerminalShowsLog
  BY ShownInOrder
<1> QED
  BY <1>1, <1>2, <1>3, <1>4, <1>5, PagesAreApart, SessionAlways, FormAlways, InviteAlways,
     OwnerAlways, DialogAlways, LogsAlways, FlickersNever, GraphTypesAlways, LogIsFinite,
     ActivityIsOnItsSquares, PTL

=============================================================================
