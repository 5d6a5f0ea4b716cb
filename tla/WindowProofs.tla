---- MODULE WindowProofs ----
(***************************************************************************)
(* Proofs about Window: that one page is open, highlighted and typed to;   *)
(* that a row of the Startup page is on for what starts at login; and that *)
(* the badge and the interfaces are those the last tick found.             *)
(***************************************************************************)

EXTENDS Window, SequenceTheorems, FiniteSetTheorems, WellFoundedInduction, TLAPS

----------------------------------------------------------------------------
(* The sidebar and its pages. *)

\* What is reopened is a page there may be, and not Settings; the assistant's row is there
\* while it is on.
PagesInv ==
    /\ lastView # "settings"
    /\ open =>
        /\ mapped /\ ~mapping => selected = Sidebar!Highlight(active)
        /\ capturing = (IF active \in Sidebar!Searchable THEN active ELSE Sidebar!Nobody)
        /\ active \in views \cap built
        /\ active = "assistant" => aiEnabled
        /\ assistantRow = aiEnabled
        /\ lastPage # "settings" /\ (active = lastPage \/ active = "settings")
        /\ menuActive = showSidebar /\ (showSidebar \/ collapsed)
        /\ "cpu" \in views

LEMMA PagesBuild ==
    ASSUME PagesInv, Sidebar!Build
    PROVE  PagesInv'
<1>1. PICK disks \in SUBSET Sidebar!SubRows :
          LET there == (Sidebar!AllPages \ Sidebar!SubRows) \cup disks
              first == Sidebar!Initial(there)
          IN  /\ views' = there /\ built' = {first} /\ active' = first
              /\ lastPage' = first
              /\ capturing' = IF first \in Sidebar!Searchable THEN first ELSE Sidebar!Nobody
              /\ selected' = Sidebar!Highlight(first)
  BY DEF Sidebar!Build
<1> DEFINE there == (Sidebar!AllPages \ Sidebar!SubRows) \cup disks
           first == Sidebar!Initial(there)
<1>2. "cpu" \in there
  <2>1. "hardware" \in Sidebar!Lists /\ Sidebar!Rows["hardware"] = {"cpu", "memory"}
    BY DEF Sidebar!Rows, Sidebar!Lists
  <2>2. "cpu" \in Sidebar!AllPages /\ "cpu" \notin Sidebar!SubRows
    BY <2>1 DEF Sidebar!AllPages, Sidebar!SubRows
  <2> QED  BY <2>2
<1>3. first \in there /\ first # "settings" /\ (first = "assistant" => aiEnabled)
  BY <1>2 DEF Sidebar!Initial, PagesInv
<1> HIDE DEF there, first
<1>4. /\ views' = there /\ built' = {first} /\ active' = first /\ lastPage' = first
      /\ capturing' = IF first \in Sidebar!Searchable THEN first ELSE Sidebar!Nobody
      /\ selected' = Sidebar!Highlight(first)
  BY <1>1 DEF there, first
<1>5. /\ mapped' = FALSE /\ assistantRow' = aiEnabled /\ aiEnabled' = aiEnabled
      /\ lastView' = lastView /\ showSidebar' = TRUE /\ menuActive' = TRUE
  BY DEF Sidebar!Build, Sidebar!lasting
<1> QED  BY <1>2, <1>3, <1>4, <1>5 DEF PagesInv

LEMMA PagesActivate ==
    ASSUME PagesInv, NEW p \in Sidebar!AllPages, Sidebar!Activate(p)
    PROVE  PagesInv'
<1>1. open /\ p \in views /\ (p = "assistant" => assistantRow) /\ Sidebar!SelectView(p)
      /\ lastView' = lastView /\ aiEnabled' = aiEnabled /\ open' = open /\ views' = views
      /\ assistantRow' = assistantRow
  BY DEF Sidebar!Activate, Sidebar!lasting
<1>2. /\ active' = p /\ built' = built \cup {p}
      /\ lastPage' = (IF p = "settings" THEN lastPage ELSE p)
      /\ capturing' = (IF p \in Sidebar!Searchable THEN p ELSE Sidebar!Nobody)
      /\ selected' = Sidebar!Highlight(p)
      /\ showSidebar' = (showSidebar /\ ~collapsed) /\ menuActive' = showSidebar'
      /\ collapsed' = collapsed
  BY <1>1 DEF Sidebar!SelectView
<1>3. showSidebar' \/ collapsed'
  BY <1>1, <1>2 DEF PagesInv
<1>4. Sidebar!Highlight(active)' = Sidebar!Highlight(p)
  BY <1>2 DEF Sidebar!Highlight
<1>5. lastPage' # "settings" /\ (active' = lastPage' \/ active' = "settings")
  BY <1>1, <1>2 DEF PagesInv
<1>6. active' \in views' \cap built' /\ "cpu" \in views' /\ lastView' # "settings"
      /\ (active' = "assistant" => aiEnabled') /\ assistantRow' = aiEnabled'
  BY <1>1, <1>2 DEF PagesInv
<1> QED  BY <1>2, <1>3, <1>4, <1>5, <1>6 DEF PagesInv

LEMMA PagesNext ==
    ASSUME PagesInv, Sidebar!Next
    PROVE  PagesInv'
<1>1. CASE Sidebar!Build
  BY <1>1, PagesBuild
<1>2. CASE Sidebar!Close
  BY <1>2 DEF Sidebar!Close, PagesInv
<1>3. CASE Sidebar!Map
  BY <1>3 DEF Sidebar!Map, Sidebar!lasting, Sidebar!split, PagesInv
<1>4. CASE Sidebar!AfterMap
  <2>1. selected' = Sidebar!Highlight(active) /\ active' = active
    BY <1>4 DEF Sidebar!AfterMap
  <2>2. Sidebar!Highlight(active)' = Sidebar!Highlight(active)
    BY <2>1 DEF Sidebar!Highlight
  <2> QED  BY <1>4, <2>1, <2>2 DEF Sidebar!AfterMap, Sidebar!lasting, Sidebar!split, PagesInv
<1>5. CASE Sidebar!Unmap
  BY <1>5 DEF Sidebar!Unmap, Sidebar!lasting, Sidebar!split, PagesInv
<1>6. CASE Sidebar!Narrow \/ Sidebar!Widen \/ Sidebar!ToggleSidebar
  <2>1. /\ lastView' = lastView /\ aiEnabled' = aiEnabled /\ open' = open /\ views' = views
        /\ built' = built /\ active' = active /\ lastPage' = lastPage
        /\ capturing' = capturing /\ selected' = selected /\ mapped' = mapped
        /\ mapping' = mapping /\ assistantRow' = assistantRow
        /\ menuActive' = showSidebar' /\ (showSidebar' \/ collapsed')
    BY <1>6 DEF Sidebar!Narrow, Sidebar!Widen, Sidebar!ToggleSidebar, Sidebar!lasting,
                Sidebar!placing, PagesInv
  <2>2. Sidebar!Highlight(active)' = Sidebar!Highlight(active)
    BY <2>1 DEF Sidebar!Highlight
  <2> QED  BY <2>1, <2>2 DEF PagesInv
<1>7. CASE Sidebar!SetAIEnabled
  <2>1. /\ active = "settings" /\ open /\ assistantRow' = aiEnabled'
        /\ built' = built /\ active' = active /\ lastPage' = lastPage
        /\ capturing' = capturing /\ selected' = selected
        /\ collapsed' = collapsed /\ showSidebar' = showSidebar /\ menuActive' = menuActive
        /\ lastView' = lastView /\ open' = open /\ views' = views
        /\ mapped' = mapped /\ mapping' = mapping
    BY <1>7 DEF Sidebar!SetAIEnabled, Sidebar!split, Sidebar!placing
  <2>2. Sidebar!Highlight(active)' = Sidebar!Highlight(active)
    BY <2>1 DEF Sidebar!Highlight
  <2> QED  BY <2>1, <2>2 DEF PagesInv
<1>8. CASE \E p \in Sidebar!AllPages : Sidebar!Activate(p)
  BY <1>8, PagesActivate
<1> QED
  BY <1>1, <1>2, <1>3, <1>4, <1>5, <1>6, <1>7, <1>8 DEF Sidebar!Next

LEMMA PagesStand == ASSUME PagesInv, pageVars' = pageVars PROVE PagesInv'
<1>1. Sidebar!Highlight(active)' = Sidebar!Highlight(active)
  BY DEF pageVars, Sidebar!Highlight
<1> QED  BY <1>1 DEF pageVars, PagesInv

\* With the window up, one page is open: the only row highlighted in three lists that know
\* nothing of each other, the one whose search takes what is typed, there, built, not an
\* assistant that is off, and the one Atlas reopens on unless it is Settings.
THEOREM OneIsOpen == WindowSpec => []OnePage
<1>1. WindowInit => PagesInv
  BY DEF WindowInit, Sidebar!Init, PagesInv
<1>2. PagesInv /\ [WindowNext]_<<vars, pageVars, startupVars>> => PagesInv'
  BY PagesNext, PagesStand DEF WindowNext, AlertsMove, SidebarMoves, StartupMoves
<1>3. PagesInv => OnePage
  BY DEF PagesInv, OnePage, Sidebar!OnePage
<1> QED  BY <1>1, <1>2, <1>3, PTL DEF WindowSpec

----------------------------------------------------------------------------
(* A file of the Startup page. *)

Lines == Startup!Keys \cup Startup!Groups
Plain == {"Hidden=true", "Hidden=false"}
Opening   == {"[Desktop Entry]"}
Spaced    == {"Hidden = true"}
Left      == {"Hidden=false"}
Elsewhere == {"OnlyShowIn"}

\* A file as the page, and withHidden, leave it: its [Desktop Entry] first, at most an
\* action after it, and a key that was put in after one written with spaces.
Good(body) ==
    /\ body \in Seq(Lines) /\ Len(body) >= 1
    /\ body[1] \in Opening
    /\ \A i \in 2 .. Len(body) : body[i] \notin Opening
    /\ \A i \in 2 .. Len(body) - 1 : body[i] \in Startup!Keys
    /\ \A i, j \in 2 .. Len(body) : body[i] \in Spaced /\ body[j] \in Plain => i < j

\* The greatest of some numbers.
LEMMA Greatest ==
    ASSUME NEW n \in Nat, NEW S \in SUBSET (1 .. n), S # {}
    PROVE  \E m \in S : \A i \in S : m >= i
<1> DEFINE T == {k \in 0 .. n : n - k \in S}
           R == OpToRel(<, Nat)
<1>1. T \subseteq Nat /\ T # {}
  <2>1. PICK i \in S : TRUE
    OBVIOUS
  <2>2. n - i \in 0 .. n /\ n - (n - i) = i
    BY <2>1
  <2>3. n - i \in T
    BY <2>1, <2>2
  <2>4. T \subseteq Nat
    OBVIOUS
  <2>5. T # {}
    <3> HIDE DEF T
    <3> QED  BY <2>3
  <2> QED
    <3> HIDE DEF T
    <3> QED  BY <2>4, <2>5
<1>2. \E x \in T : \A y \in T : ~ (<<y, x>> \in R)
  <2> HIDE DEF T, R
  <2> QED  BY <1>1, NatLessThanWellFounded, WFMin DEF R
<1>3. PICK x \in T : \A y \in T : ~ (<<y, x>> \in R)
  BY <1>2
<1>4. \A y \in T : ~ (y < x)
  BY <1>1, <1>3 DEF OpToRel
<1>5. n - x \in S
  BY <1>3
<1>6. \A i \in S : n - i \in T
  OBVIOUS
<1>7. ASSUME NEW i \in S  PROVE n - x >= i
  <2>1. ~ (n - i < x) /\ i \in Int /\ x \in Int /\ n \in Int
    BY <1>4, <1>6
  <2> QED  BY <2>1
<1> QED  BY <1>5, <1>7

LEMMA GreatestIs ==
    ASSUME NEW n \in Nat, NEW S \in SUBSET (1 .. n), S # {}
    PROVE  Startup!Max(S) \in S /\ \A i \in S : Startup!Max(S) >= i
BY Greatest DEF Startup!Max

LEMMA KindsOfLines ==
    /\ Startup!HiddenKeys = Plain \cup Spaced /\ Spaced \cap Plain = {}
    /\ Startup!HiddenKeys \subseteq Startup!Keys /\ Startup!Keys \cap Startup!Groups = {}
    /\ Elsewhere \subseteq Startup!Keys \ Startup!HiddenKeys
    /\ Opening \subseteq Startup!Groups
    /\ \A off \in BOOLEAN : Startup!Hidden(off) \in Plain
                            /\ (Startup!Hidden(off) \notin Left <=> off)
BY DEF Plain, Opening, Spaced, Left, Elsewhere, Startup!HiddenKeys, Startup!Keys, Startup!Groups,
       Startup!Hidden

\* What is said in the entry of such a file.
LEMMA EntryOf ==
    ASSUME NEW body, Good(body)
    PROVE  /\ Startup!InGroup(body) = {i \in 2 .. Len(body) : body[i] \in Startup!Keys}
           /\ DOMAIN body = 1 .. Len(body) /\ Len(body) \in Nat
           /\ \A i \in 1 .. Len(body) : body[i] \in Lines
<1>1. body \in Seq(Lines) /\ Len(body) \in Nat /\ Len(body) >= 1 /\ DOMAIN body = 1 .. Len(body)
      /\ \A i \in 1 .. Len(body) : body[i] \in Lines
  BY LenProperties, ElementOfSeq DEF Good
<1>2. ASSUME NEW i \in 2 .. Len(body)
      PROVE  body[i] \in Startup!Keys <=> body[i] \notin Startup!Groups
  <2>1. i \in 1 .. Len(body)
    BY <1>1
  <2>2. body[i] \in Lines
    BY <1>1, <2>1
  <2> QED  BY <2>2, KindsOfLines DEF Lines
<1>3. body[1] \in Startup!Groups /\ body[1] \in Opening
  BY KindsOfLines DEF Good
<1>4. ASSUME NEW i \in 2 .. Len(body), body[i] \in Startup!Keys
      PROVE  i \in Startup!InGroup(body)
  <2>1. \A k \in 2 .. i : body[k] \notin Startup!Groups
    <3> SUFFICES ASSUME NEW k \in 2 .. i  PROVE body[k] \in Startup!Keys
      BY <1>1, <1>2
    <3>1. CASE k = i
      BY <1>4, <3>1
    <3>2. CASE k # i
      <4>1. k \in 2 .. Len(body) - 1
        BY <1>1, <3>2
      <4> QED  BY <4>1 DEF Good
    <3> QED  BY <3>1, <3>2
  <2>2. 1 \in 1 .. i /\ 1 + 1 = 2 /\ i \in DOMAIN body
    BY <1>1
  <2>3. body[i] \notin Startup!Groups
    BY <1>2, <1>4
  <2>4. 1 \in 1 .. i /\ \A k \in 1 + 1 .. i : body[k] \notin Startup!Groups
    BY <2>1, <2>2
  <2>5. body[1] = "[Desktop Entry]"
    BY <1>3 DEF Opening
  <2> QED  BY <2>2, <2>3, <2>4, <2>5, Zenon DEF Startup!InGroup
<1>5. ASSUME NEW i \in Startup!InGroup(body)
      PROVE  i \in 2 .. Len(body) /\ body[i] \in Startup!Keys
  <2>1. i \in 1 .. Len(body) /\ body[i] \notin Startup!Groups
    BY <1>1 DEF Startup!InGroup
  <2>2. i # 1
    BY <1>3, <2>1
  <2>3. i \in 2 .. Len(body)
    BY <1>1, <2>1, <2>2
  <2> QED  BY <1>2, <2>1, <2>3
<1> QED  BY <1>1, <1>4, <1>5

\* The last word on it.
LEMMA LastWord ==
    ASSUME NEW body, Good(body), NEW at \in 2 .. Len(body), body[at] \in Plain,
           \A i \in 2 .. Len(body) : body[i] \in Plain => body[i] = body[at]
    PROVE  Startup!Disabled(body) <=> body[at] \notin Left
<1> DEFINE said == {i \in Startup!InGroup(body) : body[i] \in Startup!HiddenKeys}
<1>1. Startup!InGroup(body) = {i \in 2 .. Len(body) : body[i] \in Startup!Keys}
      /\ Len(body) \in Nat
  BY EntryOf
<1>2. said \in SUBSET (1 .. Len(body)) /\ at \in said
  <2>1. body[at] \in Startup!Keys /\ body[at] \in Startup!HiddenKeys
    BY KindsOfLines
  <2>2. \A i \in 2 .. Len(body) : i \in 1 .. Len(body)
    BY <1>1
  <2> QED  BY <1>1, <2>1, <2>2
<1>3. Startup!Max(said) \in said /\ Startup!Max(said) >= at
  <2> HIDE DEF said
  <2> QED  BY <1>1, <1>2, GreatestIs
<1>4. Startup!Max(said) \in 2 .. Len(body) /\ body[Startup!Max(said)] \in Startup!HiddenKeys
  BY <1>1, <1>3
<1>5. body[Startup!Max(said)] \in Plain
  <2>1. CASE body[Startup!Max(said)] \in Spaced
    <3>1. Startup!Max(said) < at
      BY <1>4, <2>1 DEF Good
    <3> QED  BY <1>3, <1>4, <3>1
  <2> QED  BY <1>4, <2>1, KindsOfLines
<1>6. body[Startup!Max(said)] = body[at]
  BY <1>4, <1>5
<1>7. said # {}
  BY <1>2
<1> QED  BY <1>6, <1>7 DEF Startup!Disabled, Left


\* Such a file, with its length at hand.
LEMMA GoodWhen ==
    ASSUME NEW body, NEW n \in Nat, Len(body) = n
    PROVE  Good(body) <=>
              /\ body \in Seq(Lines) /\ n >= 1
              /\ body[1] \in Opening
              /\ \A i \in 2 .. n : body[i] \notin Opening
              /\ \A i \in 2 .. n - 1 : body[i] \in Startup!Keys
              /\ \A i, j \in 2 .. n : body[i] \in Spaced /\ body[j] \in Plain => i < j
BY DEF Good

\* Whether it is for this desktop.
LEMMA HereIf ==
    ASSUME NEW body, Good(body)
    PROVE  Startup!RunsHere(body) <=> \A i \in 2 .. Len(body) : body[i] \notin Elsewhere
<1>1. Startup!InGroup(body) = {i \in 2 .. Len(body) : body[i] \in Startup!Keys}
  BY EntryOf
<1>2. Elsewhere = {"OnlyShowIn"} /\ Elsewhere \subseteq Startup!Keys
  BY KindsOfLines DEF Elsewhere
<1> QED  BY <1>1, <1>2 DEF Startup!RunsHere, Startup!Says

\* The lines of such a file that say whether it is hidden, of those withHidden writes.
LEMMA PlainLines ==
    ASSUME NEW body, Good(body)
    PROVE  {i \in Startup!InGroup(body) : body[i] \in {"Hidden=true", "Hidden=false"}}
               = {i \in 2 .. Len(body) : body[i] \in Plain}
<1>1. Startup!InGroup(body) = {i \in 2 .. Len(body) : body[i] \in Startup!Keys}
  BY EntryOf
<1>2. Plain = {"Hidden=true", "Hidden=false"} /\ Plain \subseteq Startup!Keys
  BY DEF Plain, Startup!Keys, Startup!HiddenKeys
<1> QED  BY <1>1, <1>2

\* A key that is put in at the end of the entry is the last word.
LEMMA PutIn ==
    ASSUME NEW body, Good(body), NEW n \in Nat, Len(body) = n,
           \A i \in 2 .. n : body[i] \notin Plain,
           NEW line \in Plain, NEW at \in 2 .. n + 1,
           \/ at = n /\ body[at] \in Startup!Groups
           \/ at = n + 1 /\ \A i \in 2 .. n : body[i] \in Startup!Keys,
           NEW new \in Seq(Lines), Len(new) = n + 1,
           \A i \in 1 .. at - 1 : new[i] = body[i],
           new[at] = line,
           at = n => new[n + 1] = body[at]
    PROVE  /\ Good(new)
           /\ Startup!Disabled(new) <=> line \notin Left
           /\ Startup!RunsHere(new) <=> Startup!RunsHere(body)
<1>1. /\ n >= 1 /\ body[1] \in Opening
      /\ \A i \in 2 .. n : body[i] \notin Opening
      /\ \A i \in 2 .. n - 1 : body[i] \in Startup!Keys
  BY GoodWhen
<1>2. line \in Startup!Keys /\ line \notin Spaced /\ line \notin Opening
      /\ line \notin Elsewhere
  BY KindsOfLines
<1>3. at \in Nat /\ at >= 2 /\ (at = n \/ at = n + 1)
  BY <1>1
\* Where its lines come from.
<1>4. ASSUME NEW i \in 2 .. n + 1
      PROVE  \/ i < at /\ new[i] = body[i] /\ i \in 2 .. n /\ body[i] \in Startup!Keys
             \/ i = at /\ new[i] = line
             \/ i = n + 1 /\ at = n /\ new[i] = body[n] /\ body[n] \in Startup!Groups
                /\ n \in 2 .. n
  <2>1. CASE i < at
    <3>1. i \in 1 .. at - 1 /\ i \in 2 .. n
      BY <1>1, <1>3, <2>1
    <3>2. body[i] \in Startup!Keys
      <4>1. CASE at = n
        <5>1. i \in 2 .. n - 1
          BY <1>1, <2>1, <4>1
        <5> QED  BY <1>1, <5>1
      <4>2. CASE at = n + 1
        <5>1. at # n
          BY <1>1, <4>2
        <5> QED  BY <3>1, <5>1
      <4> QED  BY <1>3, <4>1, <4>2
    <3> QED  BY <2>1, <3>1, <3>2
  <2>2. CASE i = at
    BY <2>2
  <2>3. CASE i > at
    <3>1. i = n + 1 /\ at = n /\ n \in 2 .. n
      BY <1>1, <1>3, <2>3
    <3>2. at # n + 1
      BY <1>1, <3>1
    <3> QED  BY <3>1, <3>2
  <2> QED  BY <1>1, <1>3, <2>1, <2>2, <2>3
<1>5. ASSUME NEW i \in 2 .. n + 1, new[i] \in Plain
      PROVE  i = at
  <2>1. body[n] \in Startup!Groups => body[n] \notin Plain
    BY KindsOfLines
  <2> QED  BY <1>4, <1>5, <2>1
<1>6. Good(new)
  <2>1. new[1] \in Opening
    BY <1>1, <1>3
  <2>2. ASSUME NEW i \in 2 .. n + 1  PROVE new[i] \notin Opening
    <3>1. i \in 2 .. n => body[i] \notin Opening
      BY <1>1
    <3>2. n \in 2 .. n => body[n] \notin Opening
      BY <1>1
    <3> QED  BY <1>2, <1>4, <3>1, <3>2
  <2>3. ASSUME NEW i \in 2 .. n  PROVE new[i] \in Startup!Keys
    <3>1. i \in 2 .. n + 1 /\ i # n + 1
      BY <1>1
    <3> QED  BY <1>2, <1>4, <3>1
  <2>4. ASSUME NEW i \in 2 .. n + 1, NEW j \in 2 .. n + 1, new[i] \in Spaced,
               new[j] \in Plain
        PROVE  i < j
    <3>1. j = at
      BY <1>5, <2>4
    <3>2. body[n] \in Startup!Groups => body[n] \notin Spaced
      BY KindsOfLines
    <3>3. i < at
      BY <1>2, <1>4, <2>4, <3>2
    <3> QED  BY <3>1, <3>3
  <2>5. 2 .. Len(new) = 2 .. n + 1 /\ 2 .. Len(new) - 1 = 2 .. n /\ Len(new) >= 1
    BY <1>1
  <2> QED  BY <2>1, <2>2, <2>3, <2>4, <2>5 DEF Good
<1>7. Startup!Disabled(new) <=> line \notin Left
  <2>1. at \in 2 .. Len(new) /\ new[at] \in Plain
    BY <1>1
  <2>2. \A i \in 2 .. Len(new) : new[i] \in Plain => new[i] = new[at]
    BY <1>1, <1>5
  <2>3. new[at] = line
    OBVIOUS
  <2> QED  BY <1>6, <2>1, <2>2, <2>3, LastWord
<1>8. (\A i \in 2 .. Len(new) : new[i] \notin Elsewhere)
      <=> (\A i \in 2 .. n : body[i] \notin Elsewhere)
  <2>1. body[n] \in Startup!Groups => body[n] \notin Elsewhere
    BY KindsOfLines
  <2>2. ASSUME \A i \in 2 .. n : body[i] \notin Elsewhere, NEW i \in 2 .. n + 1
        PROVE  new[i] \notin Elsewhere
    BY <1>2, <1>4, <2>1, <2>2
  <2>3. ASSUME \A i \in 2 .. n + 1 : new[i] \notin Elsewhere, NEW i \in 2 .. n
        PROVE  body[i] \notin Elsewhere
    <3>1. CASE i < at
      <4>1. i \in 1 .. at - 1 /\ i \in 2 .. n + 1
        BY <1>1, <1>3, <3>1
      <4>2. new[i] = body[i]
        BY <4>1
      <4> QED  BY <2>3, <4>1, <4>2
    <3>2. CASE i >= at
      <4>1. i = n /\ at = n
        BY <1>1, <1>3, <3>2
      <4>2. at # n + 1
        BY <1>1, <4>1
      <4> QED  BY <2>1, <4>1, <4>2
    <3> QED  BY <1>3, <3>1, <3>2
  <2> QED  BY <1>1, <2>2, <2>3
<1> QED  BY <1>6, <1>7, <1>8, HereIf

\* withHidden decides: what it leaves is hidden if and only if it was asked to be, and
\* what else the file says stands.
LEMMA HiddenDecides ==
    ASSUME NEW body, Good(body), NEW off \in BOOLEAN
    PROVE  /\ Good(Startup!WithHidden(body, off))
           /\ Startup!Disabled(Startup!WithHidden(body, off)) <=> off
           /\ Startup!RunsHere(Startup!WithHidden(body, off)) <=> Startup!RunsHere(body)
<1>0. PICK n \in Nat : Len(body) = n
  BY EntryOf
<1> DEFINE line == Startup!Hidden(off)
           said == {i \in Startup!InGroup(body) : body[i] \in {"Hidden=true", "Hidden=false"}}
           ends == {i \in DOMAIN body \ {1} : body[i] \in Startup!Groups}
           new  == Startup!WithHidden(body, off)
<1>1. /\ n \in Nat /\ n >= 1 /\ body[1] \in Opening /\ body \in Seq(Lines)
      /\ \A i \in 2 .. n : body[i] \notin Opening
      /\ \A i \in 2 .. n - 1 : body[i] \in Startup!Keys
      /\ \A i, j \in 2 .. n : body[i] \in Spaced /\ body[j] \in Plain => i < j
      /\ DOMAIN body = 1 .. n /\ \A i \in 1 .. n : body[i] \in Lines
  BY <1>0, EntryOf, GoodWhen
<1>2. /\ line \in Plain /\ (line \notin Left <=> off) /\ line \in Lines
      /\ line \in Startup!Keys /\ line \notin Spaced /\ line \notin Opening
      /\ line \notin Elsewhere
  <2> HIDE DEF line
  <2>1. line \in Plain /\ (line \notin Left <=> off)
    BY KindsOfLines DEF line
  <2> QED  BY <2>1, KindsOfLines DEF Lines
<1>3. said = {i \in 2 .. n : body[i] \in Plain}
  BY <1>0, PlainLines
<1>4. new = IF said # {} THEN [i \in DOMAIN body |-> IF i \in said THEN line ELSE body[i]]
            ELSE IF ends # {} THEN InsertAt(body, Startup!Min(ends), line)
            ELSE Append(body, line)
  BY DEF Startup!WithHidden, Startup!InsertAt, InsertAt
<1>5. CASE said # {}
  <2>1. new = [i \in 1 .. n |-> IF i \in said THEN line ELSE body[i]]
    BY <1>1, <1>4, <1>5
  <2> HIDE DEF new
  <2>2. new \in Seq(Lines) /\ Len(new) = n
    <3>1. \A i \in 1 .. n : (IF i \in said THEN line ELSE body[i]) \in Lines
      BY <1>1, <1>2
    <3> HIDE DEF said, line
    <3>2. new \in [1 .. n -> Lines]
      BY <2>1, <3>1
    <3>3. new \in Seq(Lines)
      BY <1>1, <3>2, SeqDef
    <3> QED  BY <1>1, <2>1, <3>3, LenProperties
  <2>3. \A i \in 1 .. n : new[i] = IF i \in said THEN line ELSE body[i]
    BY <2>1
  <2>4. \A i \in 2 .. n : /\ i \in 1 .. n
                          /\ body[i] \in Plain => new[i] = line
                          /\ body[i] \notin Plain => new[i] = body[i]
    BY <1>1, <1>3, <2>3
  <2> HIDE DEF said, line, ends
  <2>5. Good(new)
    <3>1. new[1] \in Opening
      BY <1>1, <1>3, <2>3
    <3>2. ASSUME NEW i \in 2 .. n  PROVE new[i] \notin Opening
      BY <1>1, <1>2, <2>4
    <3>3. ASSUME NEW i \in 2 .. n - 1  PROVE new[i] \in Startup!Keys
      <4>1. i \in 2 .. n
        BY <1>1
      <4> QED  BY <1>1, <1>2, <2>4, <4>1
    <3>4. ASSUME NEW i \in 2 .. n, NEW j \in 2 .. n, new[i] \in Spaced,
                 new[j] \in Plain
          PROVE  i < j
      <4>1. body[i] \in Spaced /\ body[j] \in Plain
        BY <1>2, <2>4, <3>4
      <4> QED  BY <1>1, <4>1
    <3> QED  BY <1>1, <2>2, <3>1, <3>2, <3>3, <3>4, GoodWhen
  <2>6. PICK at \in said : TRUE
    BY <1>5
  <2>7. at \in 2 .. Len(new) /\ new[at] = line /\ new[at] \in Plain
    BY <1>2, <1>3, <2>2, <2>4
  <2>8. \A i \in 2 .. Len(new) : new[i] \in Plain => new[i] = new[at]
    BY <2>2, <2>4, <2>7
  <2>9. Startup!Disabled(new) <=> off
    BY <1>2, <2>5, <2>7, <2>8, LastWord
  <2>10. (\A i \in 2 .. Len(new) : new[i] \notin Elsewhere)
         <=> (\A i \in 2 .. n : body[i] \notin Elsewhere)
    <3>1. Elsewhere \cap Plain = {}
      BY KindsOfLines
    <3> QED  BY <1>2, <2>2, <2>4, <3>1
  <2> QED  BY <1>0, <2>5, <2>9, <2>10, HereIf DEF new
<1>6. CASE said = {}
  <2>1. \A i \in 2 .. n : body[i] \notin Plain
    BY <1>3, <1>6
  <2>2. ASSUME NEW i \in 2 .. n - 1  PROVE i \notin ends
    <3>1. body[i] \in Startup!Keys
      BY <1>1, <2>2
    <3> QED  BY <3>1, KindsOfLines
  <2>3. CASE ends # {}
    <3>1. ends = {n} /\ n \in 2 .. n /\ body[n] \in Startup!Groups
      <4>1. PICK e \in ends : TRUE
        BY <2>3
      <4>2. \A i \in ends : i = n
        BY <1>1, <2>2
      <4>3. n \in ends
        BY <4>1, <4>2
      <4> QED  BY <1>1, <4>2, <4>3
    <3>2. Startup!Min(ends) = n
      <4> HIDE DEF ends
      <4> QED  BY <1>1, <3>1 DEF Startup!Min
    <3>3. new = SubSeq(body, 1, n - 1) \o <<line>> \o SubSeq(body, n, n)
      BY <1>0, <1>4, <1>6, <2>3, <3>2 DEF InsertAt
    <3>4. /\ new \in Seq(Lines) /\ Len(new) = n + 1 /\ new[n] = line /\ new[n + 1] = body[n]
          /\ \A i \in 1 .. n - 1 : new[i] = body[i]
      <4> HIDE DEF new, line, said, ends
      <4>1. SubSeq(body, 1, n - 1) \in Seq(Lines) /\ Len(SubSeq(body, 1, n - 1)) = n - 1
            /\ \A i \in 1 .. n - 1 : SubSeq(body, 1, n - 1)[i] = body[i]
        BY <1>1
      <4>2. SubSeq(body, n, n) \in Seq(Lines) /\ Len(SubSeq(body, n, n)) = 1
            /\ SubSeq(body, n, n)[1] = body[n]
        BY <1>1, <3>1
      <4>3. <<line>> \in Seq(Lines) /\ Len(<<line>>) = 1 /\ <<line>>[1] = line
        BY <1>2
      <4> QED  BY <1>1, <3>1, <3>3, <4>1, <4>2, <4>3
    <3> HIDE DEF new, line, said, ends
    <3>5. n \in 2 .. n + 1
      BY <1>1, <3>1
    <3>6. Good(new) /\ (Startup!Disabled(new) <=> line \notin Left)
          /\ (Startup!RunsHere(new) <=> Startup!RunsHere(body))
      BY <1>0, <1>2, <2>1, <3>1, <3>4, <3>5, PutIn
    <3> QED  BY <1>2, <3>6 DEF new
  <2>4. CASE ends = {}
    <3>1. new = Append(body, line)
      BY <1>4, <1>6, <2>4
    <3>2. new \in Seq(Lines) /\ Len(new) = n + 1 /\ new[n + 1] = line
          /\ \A i \in 1 .. n : new[i] = body[i]
      <4> HIDE DEF new, line, said, ends
      <4> QED  BY <1>1, <1>2, <3>1
    <3>3. \A i \in 2 .. n : body[i] \in Startup!Keys
      <4>1. ASSUME NEW i \in 2 .. n  PROVE body[i] \notin Startup!Groups /\ body[i] \in Lines
        BY <1>1, <2>4
      <4> QED  BY <4>1 DEF Lines
    <3> HIDE DEF new, line, said, ends
    <3>4. n + 1 \in 2 .. n + 1 /\ (n + 1) - 1 = n /\ n + 1 # n
      BY <1>1
    <3>5. Good(new) /\ (Startup!Disabled(new) <=> line \notin Left)
          /\ (Startup!RunsHere(new) <=> Startup!RunsHere(body))
      BY <1>0, <1>2, <2>1, <3>2, <3>3, <3>4, PutIn
    <3> QED  BY <1>2, <3>5 DEF new
  <2> QED  BY <2>3, <2>4
<1> QED  BY <1>5, <1>6

LEMMA NoSuchFile == ~ Good(Startup!NoFile) /\ ~ Good(Startup!Emptied)
<1>1. Startup!NoFile[1] \notin Opening
  BY DEF Startup!NoFile, Opening
<1>2. Len(Startup!Emptied) = 0
  BY DEF Startup!Emptied
<1> QED  BY <1>1, <1>2 DEF Good

\* Two sequences, one after the other.
LEMMA ConcatAt ==
    ASSUME NEW S, NEW s \in Seq(S), NEW t \in Seq(S)
    PROVE  /\ s \o t \in Seq(S) /\ Len(s \o t) = Len(s) + Len(t)
           /\ \A i \in 1 .. Len(s) : (s \o t)[i] = s[i]
           /\ \A i \in Len(s) + 1 .. Len(s) + Len(t) : (s \o t)[i] = t[i - Len(s)]
<1> DEFINE both == s \o t
<1>0. PICK a \in Nat, b \in Nat : Len(s) = a /\ Len(t) = b
  BY LenProperties
<1>1. /\ both \in Seq(S) /\ Len(both) = a + b
      /\ \A i \in 1 .. a + b : both[i] = IF i <= a THEN s[i] ELSE t[i - a]
  BY <1>0, ConcatProperties, Zenon
<1> HIDE DEF both
<1>2. ASSUME NEW i \in 1 .. a  PROVE both[i] = s[i]
  <2>1. i \in 1 .. a + b /\ i <= a
    OBVIOUS
  <2> QED  BY <1>1, <2>1
<1>3. ASSUME NEW i \in a + 1 .. a + b  PROVE both[i] = t[i - a]
  <2>1. i \in 1 .. a + b /\ ~ (i <= a)
    OBVIOUS
  <2> QED  BY <1>1, <2>1
<1> QED  BY <1>0, <1>1, <1>2, <1>3, Zenon DEF both

\* An entry that says each thing once, and perhaps the line of an action after it.
LEMMA Joined ==
    ASSUME NEW opening \in Opening, NEW m \in Nat, NEW keys \in [1 .. m -> Startup!Keys],
           Startup!Once(keys),
           NEW r \in {0, 1}, NEW rest \in Seq(Lines), Len(rest) = r,
           r = 1 => rest[1] \in Startup!Groups \ Opening,
           NEW body, body = <<opening>> \o keys \o rest
    PROVE  Good(body)
<1>3. keys \in Seq(Startup!Keys) /\ Len(keys) = m /\ \A i \in 1 .. m : keys[i] \in Startup!Keys
  <2>1. keys \in Seq(Startup!Keys)
    BY SeqDef
  <2> QED  BY <2>1, LenProperties
<1>4. /\ Opening \subseteq Lines /\ Startup!Keys \subseteq Lines
      /\ Startup!Keys \cap Startup!Groups = {} /\ Opening \subseteq Startup!Groups
      /\ Plain \subseteq Startup!Keys /\ Plain \subseteq Startup!HiddenKeys
      /\ Spaced \subseteq Startup!HiddenKeys /\ Spaced \cap Plain = {}
      /\ Spaced \subseteq Startup!Keys
  BY KindsOfLines DEF Lines
<1> DEFINE first == <<opening>>
<1>6. first \in Seq(Lines) /\ Len(first) = 1 /\ first[1] \in Opening
  BY <1>4
<1> HIDE DEF first
<1>7. keys \in Seq(Lines)
  <2>1. keys \in [1 .. m -> Lines]
    BY <1>4
  <2> QED  BY <2>1, SeqDef
<1> DEFINE front == first \o keys
<1>8. /\ front \in Seq(Lines) /\ Len(front) = m + 1 /\ front[1] \in Opening
      /\ \A i \in 2 .. m + 1 : front[i] = keys[i - 1]
  <2> HIDE DEF front
  <2>1. PICK one \in Nat : one = 1
    OBVIOUS
  <2>2. /\ front \in Seq(Lines) /\ Len(front) = one + m
        /\ \A i \in 1 .. one : front[i] = first[i]
        /\ \A i \in one + 1 .. one + m : front[i] = keys[i - one]
    <3>0. front = first \o keys
      BY DEF front
    <3>1. first \in Seq(Lines) /\ Len(first) = one /\ one \in Nat
      BY <1>6, <2>1
    <3>2. keys \in Seq(Lines) /\ Len(keys) = m /\ m \in Nat
      BY <1>3, <1>7
    <3> QED  BY ONLY <3>0, <3>1, <3>2, ConcatAt
  <2>3. 1 \in 1 .. one /\ one + m = m + 1 /\ one + 1 = 2
    BY <2>1
  <2> QED  BY <1>6, <2>1, <2>2, <2>3
<1>9. body = front \o rest
  BY DEF first
<1> HIDE DEF front
<1>10. PICK n \in Nat : n = m + 1 + r
  OBVIOUS
<1>11. /\ body \in Seq(Lines) /\ Len(body) = n
       /\ \A i \in 1 .. m + 1 : body[i] = front[i]
       /\ r = 1 => body[n] = rest[1]
  <2>1. PICK k \in Nat : k = m + 1
    OBVIOUS
  <2>2. /\ body \in Seq(Lines) /\ Len(body) = k + r
        /\ \A i \in 1 .. k : body[i] = front[i]
        /\ \A i \in k + 1 .. k + r : body[i] = rest[i - k]
    <3>1. front \in Seq(Lines) /\ Len(front) = k /\ k \in Nat
      BY <1>8, <2>1
    <3>2. rest \in Seq(Lines) /\ Len(rest) = r /\ r \in Nat
      OBVIOUS
    <3> QED  BY ONLY <1>9, <3>1, <3>2, ConcatAt
  <2>3. r = 1 => n \in k + 1 .. k + r /\ n - k = 1
    BY <1>10, <2>1
  <2> QED  BY <1>10, <2>1, <2>2, <2>3
<1>12. ASSUME NEW i \in 2 .. n
       PROVE  \/ /\ i \in 2 .. m + 1 /\ i - 1 \in 1 .. m /\ body[i] = keys[i - 1]
                 /\ body[i] \in Startup!Keys
              \/ i = n /\ r = 1 /\ body[i] \in Startup!Groups \ Opening
  <2>1. CASE i <= m + 1
    <3>1. i \in 2 .. m + 1 /\ i \in 1 .. m + 1 /\ i - 1 \in 1 .. m
      BY <2>1
    <3>2. body[i] = front[i] /\ front[i] = keys[i - 1] /\ keys[i - 1] \in Startup!Keys
      BY <1>3, <1>8, <1>11, <3>1
    <3> QED  BY <3>1, <3>2
  <2>2. CASE ~ (i <= m + 1)
    <3>1. i = n /\ r = 1
      BY <1>10, <2>2
    <3> QED  BY <1>11, <3>1
  <2> QED  BY <2>1, <2>2
<1>13. n >= 1 /\ body[1] \in Opening
  <2>1. 1 \in 1 .. m + 1
    OBVIOUS
  <2> QED  BY <1>8, <1>10, <1>11, <2>1
<1>14. \A i \in 2 .. n : body[i] \notin Opening
  BY <1>4, <1>12
<1>15. ASSUME NEW i \in 2 .. n - 1  PROVE body[i] \in Startup!Keys
  <2>1. i \in 2 .. n /\ i # n
    OBVIOUS
  <2> QED  BY <1>12, <2>1
<1>16. ASSUME NEW i \in 2 .. n, NEW j \in 2 .. n, body[i] \in Spaced, body[j] \in Plain
       PROVE  i < j
  <2>1. /\ i - 1 \in 1 .. m /\ keys[i - 1] \in Spaced
        /\ j - 1 \in 1 .. m /\ keys[j - 1] \in Plain
    BY <1>4, <1>12, <1>16
  <2>2. DOMAIN keys = 1 .. m
    OBVIOUS
  <2>3. {keys[i - 1], keys[j - 1]} \subseteq Startup!HiddenKeys
    BY <1>4, <2>1
  <2>4. i - 1 = j - 1
    BY <2>1, <2>2, <2>3 DEF Startup!Once
  <2> QED  BY <1>4, <2>1, <2>4
<1> QED  BY <1>11, <1>13, <1>14, <1>15, <1>16, GoodWhen

\* The files packages install, and a user's own, are such files.
LEMMA BodiesAreGood == ASSUME NEW body \in Startup!Bodies  PROVE Good(body)
<1> DEFINE opening == "[Desktop Entry]"
           action  == "[Desktop Action]"
<1>1. opening \in Opening /\ action \in Startup!Groups \ Opening /\ action \in Lines
  BY DEF Opening, Startup!Groups, Lines
<1>2. PICK keys \in Startup!Entries, rest \in Startup!Actions : body = Startup!File(keys, rest)
  BY DEF Startup!Bodies
<1>3. /\ Startup!Once(keys) /\ keys \in BoundedSeq(Startup!Keys, MaxKeys)
      /\ body = <<opening>> \o keys \o rest
      /\ rest \in {<<>>, <<action>>}
  <2>1. Startup!Once(keys) /\ keys \in BoundedSeq(Startup!Keys, MaxKeys)
    BY <1>2 DEF Startup!Entries, Startup!BoundedSeq, BoundedSeq, Startup!SeqOf, SeqOf
  <2>2. body = <<opening>> \o keys \o rest /\ rest \in {<<>>, <<action>>}
    BY <1>2 DEF Startup!File, Startup!Actions
  <2> QED  BY <2>1, <2>2
<1> HIDE DEF opening, action
<1>4. PICK m \in Nat : keys \in [1 .. m -> Startup!Keys]
  <2>1. PICK m \in 0 .. MaxKeys : keys \in [1 .. m -> Startup!Keys]
    <3>1. keys \in UNION {[1 .. m -> Startup!Keys] : m \in 0 .. MaxKeys}
      BY <1>3, Zenon DEF BoundedSeq, SeqOf
    <3> QED  BY ONLY <3>1
  <2>2. m \in Nat
    BY KeysAssumption
  <2> QED  BY <2>1, <2>2
<1>5. PICK r \in {0, 1} : /\ rest \in Seq(Lines) /\ Len(rest) = r
                          /\ r = 1 => rest[1] \in Startup!Groups \ Opening
  <2>1. CASE rest = <<>>
    BY <2>1
  <2>2. CASE rest = <<action>>
    <3>1. rest \in Seq(Lines) /\ Len(rest) = 1 /\ rest[1] = action
      BY <1>1, <2>2
    <3> QED  BY <1>1, <3>1
  <2> QED  BY <1>3, <2>1, <2>2
<1> QED  BY <1>1, <1>3, <1>4, <1>5, Joined

\* The user's file that only switches a packaged one off.
Bare == <<"[Desktop Entry]", "Hidden=true">>

LEMMA BareIsGood == Good(Bare) /\ Startup!Disabled(Bare) /\ Startup!RunsHere(Bare)
<1> DEFINE opening == "[Desktop Entry]"
           line    == "Hidden=true"
<1>1. Bare = <<opening, line>>
  BY DEF Bare
<1>2. /\ opening \in Opening /\ opening \in Lines /\ line \in Lines /\ line \in Plain
      /\ line \notin Opening /\ line \notin Spaced /\ line \notin Left /\ line \notin Elsewhere
  BY DEF Opening, Plain, Spaced, Left, Elsewhere, Lines, Startup!Groups, Startup!Keys,
         Startup!HiddenKeys
<1> HIDE DEF opening, line
<1>3. Bare \in Seq(Lines) /\ Len(Bare) = 2 /\ Bare[1] = opening /\ Bare[2] = line
  BY <1>1, <1>2
<1>4. (\A i \in 2 .. 2 : i = 2) /\ 2 .. 2 - 1 = {} /\ 2 \in 2 .. 2 /\ 2 \in Nat /\ 2 >= 1
  OBVIOUS
<1>5. \A i, j \in 2 .. 2 : Bare[i] \in Spaced /\ Bare[j] \in Plain => i < j
  BY <1>2, <1>3, <1>4
<1>6. Good(Bare)
  BY <1>2, <1>3, <1>4, <1>5, GoodWhen
<1>7. \A i \in 2 .. Len(Bare) : Bare[i] = line
  BY <1>3, <1>4
<1>8. Startup!Disabled(Bare)
  BY <1>2, <1>3, <1>4, <1>6, <1>7, LastWord
<1>9. Startup!RunsHere(Bare)
  BY <1>2, <1>6, <1>7, HereIf
<1> QED  BY <1>6, <1>8, <1>9

\* What the files are, as packages install them and the page switches them: the
\* packaged one is not hidden, and one of the user's beside it only switches it off.
FilesInv ==
    /\ system # Startup!NoFile => Good(system) /\ ~ Startup!Disabled(system)
    /\ user # Startup!NoFile => Good(user)
    /\ system # Startup!NoFile /\ user # Startup!NoFile =>
           /\ Startup!Disabled(user)
           /\ Startup!RunsHere(user) <=> Startup!RunsHere(system)

EntryType ==
    entry \in [listed : BOOLEAN, system : BOOLEAN, shadows : BOOLEAN, disabled : BOOLEAN,
               here : BOOLEAN, active : BOOLEAN]

\* What a row knows: of an entry of the system's, that it is on unless the user has a
\* file for it; of the user's own, what that file says.
RowKnows ==
    IF entry.system \/ entry.shadows
    THEN /\ system # Startup!NoFile
         /\ entry.here <=> Startup!RunsHere(system)
         /\ entry.active <=> user = Startup!NoFile
    ELSE /\ system = Startup!NoFile /\ user # Startup!NoFile
         /\ entry.here <=> Startup!RunsHere(user)
         /\ entry.active <=> ~ Startup!Disabled(user)

RowInv == EntryType /\ (opened /\ entry.listed => RowKnows)

StartupInv == FilesInv /\ RowInv

LEMMA SaysBool ==
    ASSUME NEW body
    PROVE  Startup!Disabled(body) \in BOOLEAN /\ Startup!RunsHere(body) \in BOOLEAN
BY DEF Startup!Disabled, Startup!RunsHere

\* The files the page finds.
LEMMA FilesFound ==
    ASSUME StartupPermitted = {}, NEW packaged, NEW own,
           packaged # Startup!NoFile => Good(packaged) /\ ~ Startup!Disabled(packaged),
           own \in Startup!UserBodies(packaged)
    PROVE  /\ own # Startup!NoFile => Good(own)
           /\ packaged # Startup!NoFile /\ own # Startup!NoFile =>
                  /\ Startup!Disabled(own)
                  /\ Startup!RunsHere(own) <=> Startup!RunsHere(packaged)
<1>2. CASE packaged = Startup!NoFile
  <2>1. own \in Startup!Bodies \cup {Startup!NoFile}
    BY <1>2 DEF Startup!UserBodies
  <2> QED  BY <1>2, <2>1, BodiesAreGood
<1>3. CASE packaged # Startup!NoFile
  <2>1. \/ own = Startup!NoFile
        \/ own \in Startup!Copies[Startup!RunsHere(packaged)]
        \/ Startup!RunsHere(packaged) /\ own = Bare
    <3>1. own \in {Startup!NoFile} \cup Startup!Copies[Startup!RunsHere(packaged)] \cup {}
                  \cup IF Startup!RunsHere(packaged) THEN {Bare} ELSE {}
      <4>1. "customised" \notin StartupPermitted /\ "updated" \notin StartupPermitted
            /\ "bare" \notin StartupPermitted
        OBVIOUS
      <4> QED  BY <1>3, <4>1, Zenon DEF Startup!UserBodies, Bare
    <3> QED  BY <3>1
  <2>2. CASE own = Startup!NoFile
    BY <2>2
  <2>3. CASE own \in Startup!Copies[Startup!RunsHere(packaged)]
    <3>1. Startup!RunsHere(packaged) \in BOOLEAN
      BY SaysBool
    <3>2. PICK former \in Startup!PackagedBodies :
              /\ own = Startup!WithHidden(former, TRUE)
              /\ Startup!RunsHere(former) = Startup!RunsHere(packaged)
      BY <2>3, <3>1 DEF Startup!Copies
    <3>3. Good(former)
      BY BodiesAreGood DEF Startup!PackagedBodies
    <3> QED  BY <1>3, <3>2, <3>3, HiddenDecides
  <2>4. CASE Startup!RunsHere(packaged) /\ own = Bare
    BY <2>4, BareIsGood
  <2> QED  BY <2>1, <2>2, <2>3, <2>4
<1> QED  BY <1>2, <1>3

\* A row that is read anew.
LEMMA RowRead ==
    ASSUME FilesInv, NEW all, Startup!Rebuild(all), UNCHANGED <<system, user>>
    PROVE  EntryType' /\ (entry.listed => RowKnows)'
<1>1. \/ entry' = Startup!NoEntry
      \/ entry' = Startup!Entry /\ (system # Startup!NoFile \/ user # Startup!NoFile)
  BY DEF Startup!Rebuild, Startup!Listed
<1>2. Startup!Disabled(Startup!InForce) \in BOOLEAN /\ Startup!RunsHere(Startup!InForce) \in BOOLEAN
  BY SaysBool
<1>3. CASE entry' = Startup!NoEntry
  BY <1>3 DEF Startup!NoEntry, EntryType
<1>4. CASE entry' = Startup!Entry /\ (system # Startup!NoFile \/ user # Startup!NoFile)
  <2>1. EntryType'
    BY <1>2, <1>4 DEF EntryType, Startup!Entry, Startup!Shadowing
  <2>2. /\ entry'.system = (user = Startup!NoFile)
        /\ entry'.shadows = (system # Startup!NoFile /\ user # Startup!NoFile)
        /\ entry'.here = Startup!RunsHere(Startup!InForce)
        /\ entry'.active = ~ Startup!Disabled(Startup!InForce)
    BY <1>4, Zenon DEF Startup!Entry, Startup!Shadowing
  <2>3. user # Startup!NoFile => Startup!InForce = user
    BY DEF Startup!InForce
  <2>4. user = Startup!NoFile => Startup!InForce = system
    BY DEF Startup!InForce
  <2>6. RowKnows'
    BY <1>4, <2>2, <2>3, <2>4 DEF RowKnows, FilesInv
  <2> QED  BY <2>1, <2>6
<1> QED  BY <1>1, <1>3, <1>4

\* A row's switch.
LEMMA SwitchKeeps ==
    ASSUME StartupPermitted = {}, StartupInv, Startup!Switch
    PROVE  StartupInv'
<1>1. opened /\ entry.listed /\ RowKnows /\ FilesInv /\ EntryType
  BY DEF StartupInv, RowInv, Startup!Switch
<1>2. entry.active \in BOOLEAN
  BY <1>1 DEF EntryType
<1>3. ASSUME user' # Startup!Emptied
      PROVE  /\ entry' = [entry EXCEPT !.active = ~ @, !.disabled = entry.active]
             /\ EntryType'
             /\ entry'.active = ~ entry.active
             /\ entry'.system = entry.system /\ entry'.shadows = entry.shadows
             /\ entry'.here = entry.here
  <2>1. entry' = [entry EXCEPT !.active = ~ @, !.disabled = entry.active]
    BY <1>3 DEF Startup!Switch
  <2> QED  BY <1>1, <2>1 DEF EntryType
<1>4. ASSUME NEW body, Startup!Write(body)
      PROVE  user' = body /\ system' = system
  BY <1>4 DEF Startup!Write
<1>5. CASE entry.active /\ (entry.system \/ entry.shadows)
  <2>1. user = Startup!NoFile /\ system # Startup!NoFile /\ Good(system)
    BY <1>1, <1>5 DEF RowKnows, FilesInv
  <2>2. Startup!TurnOff
    BY <1>5 DEF Startup!Switch
  <2>3. PICK new : new = Startup!WithHidden(system, TRUE)
    OBVIOUS
  <2>4. user' = new /\ system' = system
    BY <1>4, <2>1, <2>2, <2>3 DEF Startup!TurnOff, Startup!RewriteHidden
  <2>5. /\ Good(new) /\ Startup!Disabled(new)
        /\ Startup!RunsHere(new) <=> Startup!RunsHere(system)
    BY <2>1, <2>3, HiddenDecides
  <2>6. new # Startup!NoFile /\ new # Startup!Emptied
    BY <2>5, NoSuchFile
  <2>7. FilesInv'
    BY <1>1, <2>1, <2>4, <2>5 DEF FilesInv
  <2>8. RowKnows'
    BY <1>1, <1>3, <1>5, <2>1, <2>4, <2>6 DEF RowKnows
  <2> QED  BY <1>3, <2>4, <2>6, <2>7, <2>8 DEF StartupInv, RowInv
<1>6. CASE ~ entry.active /\ (entry.system \/ entry.shadows)
  <2>1. system # Startup!NoFile
    BY <1>1, <1>6 DEF RowKnows
  <2>2. user' = Startup!NoFile /\ system' = system
    BY <1>6 DEF Startup!Switch, Startup!TurnOn
  <2>3. user' # Startup!Emptied
    BY <2>2 DEF Startup!NoFile, Startup!Emptied
  <2>4. FilesInv'
    BY <1>1, <2>2 DEF FilesInv
  <2>5. RowKnows'
    BY <1>1, <1>3, <1>6, <2>1, <2>2, <2>3 DEF RowKnows
  <2> QED  BY <1>3, <2>3, <2>4, <2>5 DEF StartupInv, RowInv
<1>7. CASE ~ (entry.system \/ entry.shadows)
  <2>1. system = Startup!NoFile /\ user # Startup!NoFile /\ Good(user)
    BY <1>1, <1>7 DEF RowKnows, FilesInv
  <2>2. PICK off, new : /\ off \in BOOLEAN /\ off = entry.active
                         /\ new = Startup!WithHidden(user, off)
    BY <1>2
  <2>3. Startup!RewriteHidden(off)
    BY <1>2, <1>7, <2>2 DEF Startup!Switch, Startup!TurnOn, Startup!TurnOff
  <2>4. user' = new /\ system' = system
    BY <1>4, <2>2, <2>3 DEF Startup!RewriteHidden
  <2>5. /\ Good(new) /\ (Startup!Disabled(new) <=> off)
        /\ Startup!RunsHere(new) <=> Startup!RunsHere(user)
    BY <2>1, <2>2, HiddenDecides
  <2>6. new # Startup!NoFile /\ new # Startup!Emptied
    BY <2>5, NoSuchFile
  <2>7. FilesInv'
    BY <1>1, <2>1, <2>4, <2>5 DEF FilesInv
  <2>8. RowKnows'
    BY <1>1, <1>2, <1>3, <1>7, <2>1, <2>2, <2>4, <2>5, <2>6 DEF RowKnows
  <2> QED  BY <1>3, <2>4, <2>6, <2>7, <2>8 DEF StartupInv, RowInv
<1> QED  BY <1>5, <1>6, <1>7

LEMMA StartupNext ==
    ASSUME StartupPermitted = {}, StartupInv, Startup!Next
    PROVE  StartupInv'
<1> USE DEF StartupInv, RowInv
<1>1. ASSUME NEW all, Startup!Rebuild(all), UNCHANGED <<system, user>>
      PROVE  StartupInv'
  <2>1. EntryType' /\ (entry.listed => RowKnows)'
    BY <1>1, RowRead
  <2>2. FilesInv'
    BY <1>1 DEF FilesInv
  <2> QED  BY <2>1, <2>2
<1>2. CASE Startup!OpenPage
  <2>1. Startup!Rebuild(FALSE) /\ UNCHANGED <<system, user>>
    BY <1>2 DEF Startup!OpenPage
  <2> QED  BY <1>1, <2>1
<1>3. CASE Startup!Refresh
  <2>1. PICK all : all = showSystem
    OBVIOUS
  <2>2. Startup!Rebuild(all) /\ UNCHANGED <<system, user>>
    BY <1>3, <2>1 DEF Startup!Refresh
  <2> QED  BY <1>1, <2>2
<1>4. CASE Startup!ToggleSystem
  <2>1. PICK all : all = showSystem'
    OBVIOUS
  <2>2. Startup!Rebuild(all) /\ UNCHANGED <<system, user>>
    BY <1>4, <2>1 DEF Startup!ToggleSystem
  <2> QED  BY <1>1, <2>2
<1>5. CASE Startup!Switch
  BY <1>5, SwitchKeeps
<1>6. CASE Startup!SwitchFails
  BY <1>6 DEF Startup!SwitchFails, FilesInv, EntryType, RowKnows
<1>7. CASE Startup!CloseAtlas
  BY <1>7 DEF Startup!CloseAtlas, Startup!NoEntry, FilesInv, EntryType
<1>8. CASE Startup!Outside
  <2>1. ~ opened /\ UNCHANGED <<entry, opened>>
    BY <1>8 DEF Startup!Outside
  <2>2. \/ \E body \in Startup!PackagedBodies \cup {Startup!NoFile} :
               /\ system' = body
               /\ user \in Startup!UserBodies(body)
               /\ UNCHANGED user
        \/ \E body \in Startup!UserBodies(system) : user' = body /\ UNCHANGED system
    BY <1>8 DEF Startup!Outside
  <2>3. PICK packaged, own :
            /\ packaged = system' /\ own = user'
            /\ packaged # Startup!NoFile => Good(packaged) /\ ~ Startup!Disabled(packaged)
            /\ own \in Startup!UserBodies(packaged)
    <3>1. CASE \E body \in Startup!PackagedBodies \cup {Startup!NoFile} :
                  /\ system' = body
                  /\ user \in Startup!UserBodies(body)
                  /\ UNCHANGED user
      <4>1. PICK body \in Startup!PackagedBodies \cup {Startup!NoFile} :
                /\ system' = body
                /\ user \in Startup!UserBodies(body)
                /\ UNCHANGED user
        BY <3>1
      <4>2. body # Startup!NoFile => Good(body) /\ ~ Startup!Disabled(body)
        BY BodiesAreGood DEF Startup!PackagedBodies
      <4> QED  BY <4>1, <4>2
    <3>2. CASE \E body \in Startup!UserBodies(system) : user' = body /\ UNCHANGED system
      BY <3>2 DEF FilesInv
    <3> QED  BY <2>2, <3>1, <3>2
  <2>4. FilesInv'
    BY <2>3, FilesFound DEF FilesInv
  <2> QED  BY <2>1, <2>4 DEF EntryType
<1> QED  BY <1>2, <1>3, <1>4, <1>5, <1>6, <1>7, <1>8 DEF Startup!Next

LEMMA StartupStands ==
    ASSUME StartupInv, UNCHANGED startupVars
    PROVE  StartupInv'
BY DEF startupVars, StartupInv, RowInv, FilesInv, EntryType, RowKnows

LEMMA StartupBegins == ASSUME StartupPermitted = {}, Startup!Init  PROVE StartupInv
<1>1. system # Startup!NoFile => Good(system) /\ ~ Startup!Disabled(system)
  BY BodiesAreGood DEF Startup!Init, Startup!PackagedBodies
<1>2. user \in Startup!UserBodies(system) /\ ~ opened /\ entry = Startup!NoEntry
  BY DEF Startup!Init
<1>3. PICK packaged, own : packaged = system /\ own = user
  OBVIOUS
<1>4. FilesInv
  BY <1>1, <1>2, <1>3, FilesFound DEF FilesInv
<1>5. EntryType
  BY <1>2 DEF EntryType, Startup!NoEntry
<1> QED  BY <1>2, <1>4, <1>5 DEF StartupInv, RowInv

LEMMA RowIsTrue == ASSUME StartupInv  PROVE ShownIsTrue
<1> SUFFICES ASSUME opened, entry.listed
             PROVE  Startup!Starts <=> entry.active /\ entry.here
  BY DEF ShownIsTrue, Startup!ShownIsTrue
<1>1. RowKnows /\ FilesInv
  BY DEF StartupInv, RowInv
<1>2. PICK force : force = Startup!InForce
  OBVIOUS
<1>3. Startup!Listed /\ Good(force)
  BY <1>1, <1>2 DEF RowKnows, FilesInv, Startup!Listed, Startup!InForce
<1>4. Startup!Starts <=> ~ Startup!Disabled(force) /\ Startup!RunsHere(force)
  <2>1. Startup!Disabled(force) \in BOOLEAN /\ force # Startup!Emptied
    BY <1>3, SaysBool, NoSuchFile
  <2> QED  BY <1>2, <1>3, <2>1 DEF Startup!Starts
<1>5. CASE user = Startup!NoFile
  <2>1. force = system
    BY <1>2, <1>5 DEF Startup!InForce
  <2> QED  BY <1>1, <1>4, <1>5, <2>1 DEF RowKnows, FilesInv
<1>6. CASE user # Startup!NoFile
  <2>1. force = user
    BY <1>2, <1>6 DEF Startup!InForce
  <2> QED  BY <1>1, <1>4, <1>6, <2>1 DEF RowKnows, FilesInv
<1> QED  BY <1>5, <1>6

\* A row of the Startup page that is on, and not said to be for another desktop, is a
\* program that starts at login, and no other row is, however often they were switched
\* (ui/startup.go:127): while nothing of Startup!Happenings is so. No user's file says
\* more of a packaged entry than that it is off, or only that of one for another desktop;
\* no packaged entry is hidden, or changes the desktops it is for under the copy the page
\* made of it; nobody else writes behind the open page; the disk is not full.
THEOREM SwitchesAreTrue == StartupPermitted = {} /\ WindowSpec => []ShownIsTrue
<1> SUFFICES ASSUME StartupPermitted = {}  PROVE WindowSpec => []ShownIsTrue
  OBVIOUS
<1>1. WindowInit => StartupInv
  BY StartupBegins DEF WindowInit
<1>2. ASSUME StartupInv, [WindowNext]_<<vars, pageVars, startupVars>>
      PROVE  StartupInv'
  <2>1. Startup!Next \/ UNCHANGED startupVars
    BY <1>2 DEF WindowNext, AlertsMove, SidebarMoves, StartupMoves
  <2> QED  BY <1>2, <2>1, StartupNext, StartupStands
<1>3. StartupInv => ShownIsTrue
  BY RowIsTrue
<1> QED  BY <1>1, <1>2, <1>3, PTL DEF WindowSpec

----------------------------------------------------------------------------
(* What the tick finds. *)

\* The least of some numbers.
LEMMA Least ==
    ASSUME NEW S \in SUBSET Nat, S # {}
    PROVE  \E m \in S : \A i \in S : m <= i
<1> DEFINE R == OpToRel(<, Nat)
<1>1. \E x \in S : \A y \in S : ~ (<<y, x>> \in R)
  <2> HIDE DEF R
  <2> QED  BY NatLessThanWellFounded, WFMin DEF R
<1>2. PICK x \in S : \A y \in S : ~ (<<y, x>> \in R)
  BY <1>1
<1>3. \A y \in S : ~ (y < x)
  BY <1>2 DEF OpToRel
<1>4. ASSUME NEW y \in S  PROVE x <= y
  <2>1. ~ (y < x) /\ x \in Nat /\ y \in Nat
    BY <1>3
  <2> QED  BY <2>1
<1> QED  BY <1>4

Telling(drive, level) == [level |-> level, title |-> drive.verdict, about |-> drive.name]

\* What OfDrives says of more and more of the drives.
Told(drives, verdicts, level, f) ==
    [n \in 0 .. Len(drives) |->
        IF n = 0 THEN <<>>
        ELSE IF drives[n].verdict \in verdicts
             THEN Append(f[n - 1], [level |-> level, title |-> drives[n].verdict,
                                    about |-> drives[n].name])
             ELSE f[n - 1]]

LEMMA OfDrivesIs ==
    ASSUME NEW drives, NEW verdicts, NEW level, NEW f, f = Told(drives, verdicts, level, f)
    PROVE  \E g : /\ g = Told(drives, verdicts, level, g)
                  /\ OfDrives(drives, verdicts, level) = g[Len(drives)]
BY Zenon DEF OfDrives, Told

\* It says something of each that has such a verdict, and nothing else.
LEMMA OfDrivesSays ==
    ASSUME NEW S, NEW D, NEW drives \in Seq(D), NEW verdicts, NEW level,
           \A i \in 1 .. Len(drives) :
               drives[i].verdict \in verdicts => Telling(drives[i], level) \in S
    PROVE  OfDrives(drives, verdicts, level) \in Seq(S)
<1>1. PICK L \in Nat : Len(drives) = L
  BY LenProperties
<1> DEFINE Next1(k, s) == IF drives[k].verdict \in verdicts
                          THEN Append(s, Telling(drives[k], level)) ELSE s
           Goes(n, f) == /\ f \in [0 .. n -> Seq(S)] /\ f[0] = <<>>
                         /\ \A k \in 1 .. n : f[k] = Next1(k, f[k - 1])
           Never == {n \in 0 .. L : ~ \E f : Goes(n, f)}
<1>2. ASSUME NEW k \in 1 .. L, NEW s \in Seq(S)
      PROVE  Next1(k, s) \in Seq(S)
  BY <1>1, <1>2
<1>3. Never = {}
  <2> SUFFICES ASSUME Never # {}  PROVE FALSE
    OBVIOUS
  <2>1. Never \in SUBSET Nat
    OBVIOUS
  <2>2. PICK n \in Never : \A i \in Never : n <= i
    <3> HIDE DEF Never
    <3> QED  BY <2>1, Least
  <2>3. CASE n = 0
    <3>1. Goes(0, [k \in 0 .. 0 |-> <<>>])
      BY EmptySeq
    <3> QED  BY <2>2, <2>3, <3>1
  <2>4. CASE n # 0
    <3>1. n - 1 \in 0 .. L /\ ~ (n <= n - 1) /\ n \in 1 .. L
      BY <2>2, <2>4
    <3>2. n - 1 \notin Never
      <4> HIDE DEF Never
      <4> QED  BY <2>2, <3>1
    <3>3. PICK f : Goes(n - 1, f)
      BY <3>1, <3>2
    <3> DEFINE g == [k \in 0 .. n |-> IF k = n THEN Next1(n, f[n - 1]) ELSE f[k]]
    <3>4. f[n - 1] \in Seq(S)
      BY <3>1, <3>3
    <3>5. Next1(n, f[n - 1]) \in Seq(S)
      BY <1>2, <3>1, <3>4
    <3> HIDE DEF Next1
    <3>6. g \in [0 .. n -> Seq(S)]
      <4>1. ASSUME NEW k \in 0 .. n, k # n  PROVE k \in 0 .. n - 1
        BY <3>1, <4>1
      <4> QED  BY <3>3, <3>5, <4>1
    <3>7. g[0] = <<>>
      BY <3>1, <3>3
    <3>8. ASSUME NEW k \in 1 .. n  PROVE g[k] = Next1(k, g[k - 1])
      <4>1. k \in 0 .. n /\ k - 1 \in 0 .. n /\ k - 1 # n /\ (k # n => k \in 1 .. n - 1)
        BY <3>1
      <4>2. g[k - 1] = f[k - 1]
        BY <4>1
      <4>3. CASE k = n
        BY <4>1, <4>2, <4>3
      <4>4. CASE k # n
        BY <3>3, <4>1, <4>2, <4>4
      <4> QED  BY <4>3, <4>4
    <3>9. Goes(n, g)
      <4> HIDE DEF g
      <4> QED  BY <3>6, <3>7, <3>8
    <3> HIDE DEF g, Goes
    <3> QED  BY <2>2, <3>9
  <2> QED  BY <2>3, <2>4
<1>4. PICK f : Goes(L, f)
  <2>1. L \in 0 .. L
    OBVIOUS
  <2> HIDE DEF Goes
  <2> QED  BY <1>3, <2>1
<1>5. f = Told(drives, verdicts, level, f)
  <2> DEFINE told == Told(drives, verdicts, level, f)
  <2>1. DOMAIN told = 0 .. L /\ \A n \in 0 .. L : told[n] = IF n = 0 THEN <<>> ELSE Next1(n, f[n - 1])
    BY <1>1 DEF Told, Telling
  <2>2. told = [n \in 0 .. L |-> IF n = 0 THEN <<>> ELSE Next1(n, f[n - 1])]
    BY <1>1, Zenon DEF Told, Telling
  <2> HIDE DEF told, Next1
  <2>3. \A n \in 0 .. L : n # 0 => n \in 1 .. L
    OBVIOUS
  <2>4. \A n \in 0 .. L : f[n] = told[n]
    BY <1>4, <2>1, <2>3
  <2>5. f = [n \in 0 .. L |-> f[n]]
    BY <1>4
  <2>6. told = [n \in 0 .. L |-> told[n]]
    BY <2>2
  <2>7. f = told
    BY <2>4, <2>5, <2>6
  <2> QED  BY <2>7 DEF told
<1>6. PICK g : /\ g = Told(drives, verdicts, level, g)
               /\ OfDrives(drives, verdicts, level) = g[Len(drives)]
  BY <1>5, OfDrivesIs
<1> DEFINE Odd == {n \in 0 .. L : g[n] \notin Seq(S)}
<1>7. \A n \in 0 .. L : g[n] = IF n = 0 THEN <<>> ELSE Next1(n, g[n - 1])
  BY <1>1, <1>6, Zenon DEF Told, Telling
<1>8. Odd = {}
  <2> SUFFICES ASSUME Odd # {}  PROVE FALSE
    OBVIOUS
  <2>1. Odd \in SUBSET Nat
    OBVIOUS
  <2>2. PICK n \in Odd : \A i \in Odd : n <= i
    <3> HIDE DEF Odd
    <3> QED  BY <2>1, Least
  <2> HIDE DEF Next1
  <2>3. CASE n = 0
    BY <1>7, <2>2, <2>3, EmptySeq
  <2>4. CASE n # 0
    <3>1. n - 1 \in 0 .. L /\ ~ (n <= n - 1) /\ n \in 1 .. L
      BY <2>2, <2>4
    <3>2. g[n - 1] \in Seq(S)
      BY <2>2, <3>1
    <3> QED  BY <1>2, <1>7, <2>2, <2>4, <3>1, <3>2
  <2> QED  BY <2>3, <2>4
<1> QED  BY <1>1, <1>6, <1>8

\* Each thing there may be to say has its level.
CriticalTitles == {"Processor is running hot", "Graphics card is running hot", "failing"}

Titles ==
    CriticalTitles \cup
    {"Running out of memory", "Swapping heavily", "Disk nearly full", "spare low", "worn",
     "A background service has failed", "Background services have failed"}

Abouts == {"CPU", "GPU", "memory", "swap"} \cup Disks \cup Drives \cup SUBSET Units

Alert(title, about) ==
    [level |-> IF title \in CriticalTitles THEN "critical" ELSE "warning",
     title |-> title, about |-> about]

Sayings == {Alert(title, about) : title \in Titles, about \in Abouts}

Healths == [name : Drives, verdict : {"fine", "failing", "spare low", "worn"}]

LEMMA IsSaying ==
    ASSUME NEW title \in Titles, NEW about \in Abouts
    PROVE  /\ title \in CriticalTitles => Critical(title, about) \in Sayings
           /\ title \notin CriticalTitles => Warning(title, about) \in Sayings
<1>1. Alert(title, about) \in Sayings
  BY DEF Sayings
<1>2. title \in CriticalTitles => Alert(title, about) = Critical(title, about)
  BY DEF Alert, Critical
<1>3. title \notin CriticalTitles => Alert(title, about) = Warning(title, about)
  BY DEF Alert, Warning
<1> QED  BY <1>1, <1>2, <1>3

LEMMA OfSnapshotSays ==
    ASSUME NEW found
    PROVE  CriticalOfSnapshot(found) \in Seq(Sayings) /\ WarningsOfSnapshot(found) \in Seq(Sayings)
<1>1. /\ Critical("Processor is running hot", "CPU") \in Sayings
      /\ Critical("Graphics card is running hot", "GPU") \in Sayings
      /\ Warning("Running out of memory", "memory") \in Sayings
      /\ Warning("Swapping heavily", "swap") \in Sayings
      /\ \A d \in Disks : Warning("Disk nearly full", d) \in Sayings
  <2>1. {"Processor is running hot", "Graphics card is running hot"} \subseteq Titles \cap CriticalTitles
    BY DEF Titles, CriticalTitles
  <2>2. {"Running out of memory", "Swapping heavily", "Disk nearly full"} \subseteq Titles \ CriticalTitles
    BY DEF Titles, CriticalTitles
  <2>3. {"CPU", "GPU", "memory", "swap"} \subseteq Abouts /\ Disks \subseteq Abouts
    BY DEF Abouts
  <2> QED  BY <2>1, <2>2, <2>3, IsSaying
<1>2. \A s \in Sayings : <<s>> \in Seq(Sayings)
  OBVIOUS
<1>3. \A s, t \in Seq(Sayings) : s \o t \in Seq(Sayings)
  BY ConcatAt
<1>4. <<>> \in Seq(Sayings)
  BY EmptySeq
<1>5. CriticalOfSnapshot(found) \in Seq(Sayings)
  BY <1>1, <1>2, <1>3, <1>4, Zenon DEF CriticalOfSnapshot
<1> DEFINE disks == {d \in Disks : <<"full", d>> \in found}
           full  == SetToSeq(disks)
<1>6. PICK n \in Nat : full \in [1 .. n -> Disks]
  <2>1. IsFiniteSet(disks)
    BY MachineAssumption, FS_Subset
  <2>2. Cardinality(disks) \in Nat /\ ExistsBijection(1 .. Cardinality(disks), disks)
    BY <2>1, FS_CardinalityType
  <2>3. \E f \in [1 .. Cardinality(disks) -> disks] : IsInjective(f)
    <3> HIDE DEF disks
    <3> QED  BY <2>2 DEF ExistsBijection, Bijection, Injection, IsInjective
  <2>4. full \in [1 .. Cardinality(disks) -> disks]
    BY <2>3 DEF SetToSeq
  <2>5. disks \subseteq Disks
    OBVIOUS
  <2> HIDE DEF disks, full
  <2> QED  BY <2>2, <2>4, <2>5
<1> HIDE DEF disks, full
<1> DEFINE warnings == [i \in DOMAIN full |-> Warning("Disk nearly full", full[i])]
<1>7. warnings \in Seq(Sayings)
  <2>1. DOMAIN full = 1 .. n /\ \A i \in 1 .. n : full[i] \in Disks
    BY <1>6
  <2>2. warnings \in [1 .. n -> Sayings]
    BY <1>1, <2>1
  <2> HIDE DEF warnings
  <2> QED  BY <2>2, SeqDef
<1>8. WarningsOfSnapshot(found) =
          (IF "little memory" \in found THEN <<Warning("Running out of memory", "memory")>>
           ELSE <<>>)
          \o (IF "much swap" \in found THEN <<Warning("Swapping heavily", "swap")>> ELSE <<>>)
          \o warnings
  BY Zenon DEF WarningsOfSnapshot, full, disks
<1> HIDE DEF warnings
<1>9. WarningsOfSnapshot(found) \in Seq(Sayings)
  <2> DEFINE little == IF "little memory" \in found
                       THEN <<Warning("Running out of memory", "memory")>> ELSE <<>>
             much   == IF "much swap" \in found
                       THEN <<Warning("Swapping heavily", "swap")>> ELSE <<>>
  <2>1. little \in Seq(Sayings) /\ much \in Seq(Sayings)
    BY <1>1, <1>2, <1>4, Zenon
  <2>2. WarningsOfSnapshot(found) = little \o much \o warnings
    BY <1>8
  <2> HIDE DEF little, much
  <2> QED  BY <1>3, <1>7, <2>1, <2>2
<1> QED  BY <1>5, <1>9

\* All there is to say.
LEMMA CheckSays ==
    ASSUME NEW found, NEW failed \in SUBSET Units, NEW drives \in Seq(Healths)
    PROVE  Check(found, failed, drives) \in Seq(Sayings)
<1>1. \A s, t \in Seq(Sayings) : s \o t \in Seq(Sayings)
  BY ConcatAt
<1>2. /\ "failing" \in Titles \cap CriticalTitles
      /\ {"spare low", "worn", "A background service has failed",
          "Background services have failed"} \subseteq Titles \ CriticalTitles
  BY DEF Titles, CriticalTitles
<1>3. \A i \in 1 .. Len(drives) : drives[i].name \in Abouts
  <2> SUFFICES ASSUME NEW i \in 1 .. Len(drives)  PROVE drives[i].name \in Abouts
    OBVIOUS
  <2>1. drives[i] \in Healths
    BY ElementOfSeq
  <2> QED  BY <2>1 DEF Healths, Abouts
<1>4. OfDrives(drives, {"failing"}, "critical") \in Seq(Sayings)
  <2>1. ASSUME NEW i \in 1 .. Len(drives), drives[i].verdict \in {"failing"}
        PROVE  Telling(drives[i], "critical") \in Sayings
    <3>1. Telling(drives[i], "critical") = Critical("failing", drives[i].name)
      BY <2>1 DEF Telling, Critical
    <3> QED  BY <1>2, <1>3, <3>1, IsSaying
  <2> QED  BY <2>1, OfDrivesSays
<1>5. OfDrives(drives, {"spare low", "worn"}, "warning") \in Seq(Sayings)
  <2>1. ASSUME NEW i \in 1 .. Len(drives), drives[i].verdict \in {"spare low", "worn"}
        PROVE  Telling(drives[i], "warning") \in Sayings
    <3>1. Telling(drives[i], "warning") = Warning(drives[i].verdict, drives[i].name)
      BY DEF Telling, Warning
    <3> QED  BY <1>2, <1>3, <2>1, <3>1, IsSaying
  <2> QED  BY <2>1, OfDrivesSays
<1>6. OfServices(failed) \in Seq(Sayings)
  <2>1. failed \in Abouts
    BY DEF Abouts
  <2>2. Warning(IF Cardinality(failed) = 1 THEN "A background service has failed"
                ELSE "Background services have failed", failed) \in Sayings
    BY <1>2, <2>1, IsSaying
  <2>3. \A s \in Sayings : <<s>> \in Seq(Sayings)
    OBVIOUS
  <2> QED  BY <2>2, <2>3, EmptySeq, Zenon DEF OfServices
<1> QED  BY <1>1, <1>4, <1>5, <1>6, OfSnapshotSays, Zenon DEF Check

\* Two lists that say the same are the same.
LEMMA KeyDecides ==
    ASSUME NEW s \in Seq(Sayings), NEW t \in Seq(Sayings), Key(s) = Key(t)
    PROVE  s = t
<1>1. PICK n \in Nat : s \in [1 .. n -> Sayings]
  BY SeqDef
<1>2. PICK m \in Nat : t \in [1 .. m -> Sayings]
  BY SeqDef
<1>3. DOMAIN s = 1 .. n /\ DOMAIN t = 1 .. m
  BY <1>1, <1>2
<1>4. DOMAIN Key(s) = DOMAIN s /\ DOMAIN Key(t) = DOMAIN t
  BY DEF Key
<1>5. ASSUME NEW i \in DOMAIN s  PROVE s[i] = t[i]
  <2>1. s[i] \in Sayings /\ t[i] \in Sayings
    BY <1>1, <1>2, <1>3, <1>4
  <2>2. Key(s)[i] = <<s[i].title, s[i].about>> /\ Key(t)[i] = <<t[i].title, t[i].about>>
    BY <1>4 DEF Key
  <2>3. s[i].title = t[i].title /\ s[i].about = t[i].about
    BY <2>2
  <2>4. \A a \in Sayings : a = Alert(a.title, a.about)
    BY DEF Sayings, Alert
  <2> QED  BY <2>1, <2>3, <2>4
<1> QED  BY <1>1, <1>2, <1>3, <1>4, <1>5

LEMMA SomethingIsSaid ==
    ASSUME NEW s \in Seq(Sayings), s # <<>>
    PROVE  Key(s) # <<>>
<1>1. DOMAIN Key(s) = DOMAIN s
  BY DEF Key
<1>2. DOMAIN s # {}
  <2>1. PICK n \in Nat : s \in [1 .. n -> Sayings] /\ n = Len(s)
    BY SeqDef, LenProperties
  <2>2. n # 0
    BY <2>1, EmptySeq
  <2> QED  BY <2>1, <2>2
<1>3. DOMAIN <<>> = {}
  OBVIOUS
<1> QED  BY <1>1, <1>2, <1>3

\* The interface in use comes first.
LEMMA ActiveIsFirst ==
    ASSUME NEW net \in ToSet(Nets)
    PROVE  Order[net][1] = net
<1>1. PICK n \in Nat : n = Len(Nets) /\ DOMAIN Nets = 1 .. n
  BY MachineAssumption, LenProperties
<1>2. Order[net] = <<net>> \o RemoveAt(Nets, CHOOSE i \in DOMAIN Nets : Nets[i] = net)
  <2>1. net # NoNet /\ net \in ToSet(Nets) \cup {NoNet}
    BY MachineAssumption
  <2> QED  BY <2>1 DEF Order
<1>3. PICK at \in 1 .. n : at = CHOOSE i \in DOMAIN Nets : Nets[i] = net
  <2>1. \E i \in DOMAIN Nets : Nets[i] = net
    BY DEF ToSet
  <2> QED  BY <1>1, <2>1
<1> DEFINE rest == RemoveAt(Nets, at)
<1>4. rest \in Seq(ToSet(Nets))
  <2>1. rest = SubSeq(Nets, 1, at - 1) \o SubSeq(Nets, at + 1, n)
    BY <1>1 DEF RemoveAt
  <2>2. SubSeq(Nets, 1, at - 1) \in Seq(ToSet(Nets))
    BY <1>1, MachineAssumption
  <2>3. SubSeq(Nets, at + 1, n) \in Seq(ToSet(Nets))
    BY <1>1, MachineAssumption
  <2> HIDE DEF rest
  <2> QED  BY <2>1, <2>2, <2>3
<1>5. Order[net] = <<net>> \o rest
  BY <1>2, <1>3
<1> HIDE DEF rest
<1>6. <<net>> \in Seq(ToSet(Nets)) /\ Len(<<net>>) = 1 /\ <<net>>[1] = net /\ 1 \in 1 .. 1
  OBVIOUS
<1> DEFINE first == <<net>>
<1> HIDE DEF first
<1>7. (first \o rest)[1] = first[1]
  <2>1. first \in Seq(ToSet(Nets)) /\ 1 \in 1 .. Len(first)
    BY <1>6 DEF first
  <2> QED  BY <1>4, <2>1, ConcatAt
<1> QED  BY <1>5, <1>6, <1>7 DEF first

\* What has been asked, and answered, of the services and the drives there are.
PollsInv ==
    /\ failedUnits \in SUBSET Units /\ failedSvc \in SUBSET Units
    /\ driveHealth \in Seq(Healths)
    /\ polls \in [1 .. MaxPolls -> [at : {"none", "services", "drives", "hung"}, failed : SUBSET Units,
                                    drives : Seq(Healths), left : SUBSET Drives]]
    /\ idle \in Seq([failed : SUBSET Units, drives : Seq(Healths)])

NetsInv ==
    /\ activeNet \in ToSet(Nets) /\ ticked.net \in ToSet(Nets)
    /\ netCurrent = Order[ticked.net] /\ netIcon = IsWireless(ticked.net)

\* What is remembered of the list is what the last tick found, so that a list that seems
\* the same is the same, and the badge's.
BadgeInv ==
    /\ ticked.alerts \in Seq(Sayings)
    /\ alertShown = IF ticked.alerts = <<>> THEN <<>> ELSE Key(ticked.alerts)
    /\ DOMAIN badge = {"visible", "says", "critical"}
    /\ badge.visible \in BOOLEAN
    /\ badge.visible <=> ticked.alerts # <<>>
    /\ badge.visible => /\ badge.says = ticked.alerts
                        /\ badge.critical <=> Worst(ticked.alerts) = "critical"

TickInv == PollsInv /\ NetsInv /\ BadgeInv

LEMMA TickKeepsNets ==
    ASSUME NetsInv, ReorderNets, ticked'.net = activeNet, activeNet' = activeNet
    PROVE  NetsInv'
<1>1. CASE Order[activeNet] = netCurrent
  <2>1. Order[activeNet][1] = activeNet /\ Order[ticked.net][1] = ticked.net
    BY ActiveIsFirst DEF NetsInv
  <2>2. activeNet = ticked.net
    BY <1>1, <2>1 DEF NetsInv
  <2> QED  BY <1>1, <2>2 DEF NetsInv, ReorderNets, network
<1>2. CASE Order[activeNet] # netCurrent
  BY <1>2 DEF NetsInv, ReorderNets
<1> QED  BY <1>1, <1>2

LEMMA TickKeepsBadge ==
    ASSUME BadgeInv, NEW found \in Seq(Sayings), ShowAlerts(found), ticked'.alerts = found
    PROVE  BadgeInv'
<1>1. CASE found = <<>>
  <2>1. alertShown' = <<>> /\ badge' = [badge EXCEPT !.visible = FALSE]
    BY <1>1 DEF ShowAlerts
  <2>2. DOMAIN badge' = {"visible", "says", "critical"} /\ badge'.visible = FALSE
    BY <2>1 DEF BadgeInv
  <2> QED  BY <1>1, <2>1, <2>2 DEF BadgeInv
<1>2. CASE found # <<>> /\ Key(found) = alertShown
  <2>1. badge' = badge /\ alertShown' = alertShown
    BY <1>2 DEF ShowAlerts
  <2>2. Key(found) # <<>>
    BY <1>2, SomethingIsSaid
  <2>3. ticked.alerts # <<>> /\ Key(found) = Key(ticked.alerts)
    BY <1>2, <2>2 DEF BadgeInv
  <2>4. found = ticked.alerts
    BY <2>3, KeyDecides DEF BadgeInv
  <2> QED  BY <2>1, <2>4 DEF BadgeInv
<1>3. CASE found # <<>> /\ Key(found) # alertShown
  <2>1. /\ alertShown' = Key(found)
        /\ badge' = [visible |-> TRUE, says |-> found, critical |-> Worst(found) = "critical"]
    BY <1>3 DEF ShowAlerts
  <2>2. /\ DOMAIN badge' = {"visible", "says", "critical"} /\ badge'.visible = TRUE
        /\ badge'.says = found /\ badge'.critical = (Worst(found) = "critical")
    BY <2>1
  <2> QED  BY <1>3, <2>1, <2>2 DEF BadgeInv
<1> QED  BY <1>1, <1>2, <1>3

LEMMA TickKeeps == ASSUME TickInv, Tick  PROVE TickInv'
<1> USE DEF TickInv
<1>1. PICK found : found = Check(problems, failedSvc, driveHealth)
  OBVIOUS
<1>2. ShowAlerts(found) /\ ticked' = [alerts |-> found, net |-> activeNet]
  BY <1>1 DEF Tick
<1>3. found \in Seq(Sayings)
  BY <1>1, CheckSays DEF PollsInv
<1>4. BadgeInv'
  <2>1. ticked'.alerts = found
    BY <1>2
  <2> QED  BY <1>2, <1>3, <2>1, TickKeepsBadge
<1>5. NetsInv'
  <2>1. ticked'.net = activeNet /\ ReorderNets /\ activeNet' = activeNet
    BY <1>2 DEF Tick, machine
  <2> QED  BY <2>1, TickKeepsNets
<1>6. PollsInv'
  <2>1. UNCHANGED <<failedUnits, failedSvc, driveHealth, idle>> /\ Ask
    BY DEF Tick, machine
  <2>2. polls' = polls \/ \E p : polls' = [polls EXCEPT ![p] =
                                              [NoPoll EXCEPT !.at = "services", !.left = Drives]]
    BY <2>1 DEF Ask
  <2>3. [NoPoll EXCEPT !.at = "services", !.left = Drives]
            \in [at : {"none", "services", "drives", "hung"}, failed : SUBSET Units,
                 drives : Seq(Healths), left : SUBSET Drives]
    BY EmptySeq DEF NoPoll
  <2> QED  BY <2>1, <2>2, <2>3 DEF PollsInv
<1> QED  BY <1>4, <1>5, <1>6

LEMMA PollKeeps ==
    ASSUME TickInv, NEW p \in 1 .. MaxPolls, PollStep(p)
    PROVE  TickInv'
<1> USE DEF TickInv
<1>1. UNCHANGED <<failedUnits, activeNet, failedSvc, driveHealth, alertShown, badge, netCurrent,
                  netIcon, ticked>>
  BY DEF PollStep, AskServices, AskDrive, Post, machine, alerts, network
<1>2. NetsInv' /\ BadgeInv'
  BY <1>1 DEF NetsInv, BadgeInv
<1>3. /\ polls[p].failed \in SUBSET Units /\ polls[p].drives \in Seq(Healths)
      /\ polls[p].left \in SUBSET Drives
  BY DEF PollsInv
<1>4. CASE AskServices(p)
  <2>1. PICK failed \in SUBSET Units, at \in {"drives", "hung"} :
            polls' = [polls EXCEPT ![p].failed = failed, ![p].at = at]
    BY <1>4 DEF AskServices, PollsInv
  <2>2. idle' = idle
    BY <1>4 DEF AskServices
  <2> QED  BY <1>1, <1>2, <2>1, <2>2 DEF PollsInv
<1>5. CASE AskDrive(p)
  <2>0. polls[p].at = "drives"
    BY <1>5 DEF AskDrive
  <2>1. PICK d \in polls[p].left, answers \in BOOLEAN, goes \in {"drives", "hung"} :
            polls' = [polls EXCEPT
                         ![p].at = goes, ![p].left = @ \ {d},
                         ![p].drives = IF answers /\ Reports(logs[d])
                                       THEN Append(@, [name |-> d, verdict |-> Verdict(logs[d])])
                                       ELSE @]
    BY <1>5, <2>0 DEF AskDrive, PollsInv
  <2>2. [name |-> d, verdict |-> Verdict(logs[d])] \in Healths
    BY <1>3 DEF Healths, Verdict
  <2>3. (IF answers /\ Reports(logs[d])
         THEN Append(polls[p].drives, [name |-> d, verdict |-> Verdict(logs[d])])
         ELSE polls[p].drives) \in Seq(Healths)
    BY <1>3, <2>2
  <2>4. polls[p].left \ {d} \in SUBSET Drives
    BY <1>3
  <2>5. PICK at \in {"drives", "hung"}, left \in SUBSET Drives, drives \in Seq(Healths) :
            polls' = [polls EXCEPT ![p].at = at, ![p].left = left, ![p].drives = drives]
    BY <2>1, <2>3, <2>4
  <2>6. idle' = idle
    BY <1>5 DEF AskDrive
  <2>7. [polls[p] EXCEPT !.at = at, !.left = left, !.drives = drives]
            \in [at : {"none", "services", "drives", "hung"}, failed : SUBSET Units,
                 drives : Seq(Healths), left : SUBSET Drives]
    BY <2>5 DEF PollsInv
  <2>8. polls' = [polls EXCEPT ![p] = [polls[p] EXCEPT !.at = at, !.left = left,
                                                       !.drives = drives]]
    BY <2>5
  <2>9. PollsInv'
    BY <1>1, <2>6, <2>7, <2>8 DEF PollsInv
  <2> QED  BY <1>2, <2>9
<1>6. CASE Post(p)
  <2>1. /\ idle' = Append(idle, [failed |-> polls[p].failed, drives |-> polls[p].drives])
        /\ polls' = [polls EXCEPT ![p] = NoPoll]
    BY <1>6 DEF Post
  <2>2. NoPoll \in [at : {"none", "services", "drives", "hung"}, failed : SUBSET Units,
                    drives : Seq(Healths), left : SUBSET Drives]
    BY EmptySeq DEF NoPoll
  <2>3. idle' \in Seq([failed : SUBSET Units, drives : Seq(Healths)])
    BY <1>3, <2>1 DEF PollsInv
  <2> QED  BY <1>1, <1>2, <2>1, <2>2, <2>3 DEF PollsInv
<1> QED  BY <1>4, <1>5, <1>6 DEF PollStep

LEMMA AlertsNext ==
    ASSUME "offline" \notin Permitted, TickInv, Next
    PROVE  TickInv'
<1> USE DEF TickInv
<1>1. CASE Tick
  BY <1>1, TickKeeps
<1>2. CASE Elapse
  BY <1>2 DEF Elapse, machine, alerts, network, PollsInv, NetsInv, BadgeInv
<1>3. CASE Take
  <2>1. /\ Head(idle) \in [failed : SUBSET Units, drives : Seq(Healths)]
        /\ Tail(idle) \in Seq([failed : SUBSET Units, drives : Seq(Healths)])
    BY <1>3, HeadTailProperties DEF Take, PollsInv
  <2>2. Head(idle).failed \in SUBSET Units /\ Head(idle).drives \in Seq(Healths)
    BY <2>1
  <2>3. PollsInv'
    BY <1>3, <2>1, <2>2 DEF Take, machine, PollsInv
  <2>4. NetsInv' /\ BadgeInv'
    BY <1>3 DEF Take, machine, network, NetsInv, BadgeInv
  <2> QED  BY <2>3, <2>4
<1>4. CASE SetVisible
  BY <1>4 DEF SetVisible, machine, alerts, network, PollsInv, NetsInv, BadgeInv
<1>5. CASE Machine
  <2>1. UNCHANGED <<failedSvc, driveHealth, alertShown, badge, netCurrent, netIcon, polls, idle,
                    ticked>>
    BY <1>5 DEF Machine, alerts, network
  <2>2. failedUnits' = failedUnits \/ failedUnits' \in SUBSET Units
    BY <1>5 DEF Machine
  <2>3. activeNet' = activeNet \/ activeNet' \in ToSet(Nets)
    BY <1>5 DEF Machine, InUse
  <2> QED  BY <2>1, <2>2, <2>3 DEF PollsInv, NetsInv, BadgeInv
<1>6. ASSUME NEW p \in 1 .. MaxPolls, PollStep(p)  PROVE TickInv'
  BY <1>6, PollKeeps
<1> QED  BY <1>1, <1>2, <1>3, <1>4, <1>5, <1>6 DEF Next

LEMMA AlertsStand == ASSUME TickInv, UNCHANGED vars  PROVE TickInv'
BY DEF TickInv, vars, machine, alerts, network, PollsInv, NetsInv, BadgeInv

LEMMA AlertsBegin == ASSUME "offline" \notin Permitted, Init  PROVE TickInv
<1>1. PollsInv
  <2>1. NoPoll \in [at : {"none", "services", "drives", "hung"}, failed : SUBSET Units,
                    drives : Seq(Healths), left : SUBSET Drives]
    BY EmptySeq DEF NoPoll
  <2> QED  BY <2>1, EmptySeq DEF Init, PollsInv
<1>2. NetsInv
  BY DEF Init, InUse, NetsInv
<1>3. BadgeInv
  BY EmptySeq DEF Init, NoBadge, BadgeInv
<1> QED  BY <1>1, <1>2, <1>3 DEF TickInv

\* Since a tick, the window shows what that tick found, though it leaves alone what seems
\* not to have changed (ui/window.go:586): while some interface is in use, whatever
\* systemd and the drives answer and in whichever order the answers come.
THEOREM TicksAreShown == "offline" \notin Permitted /\ WindowSpec => []TickIsShown
<1> SUFFICES ASSUME "offline" \notin Permitted  PROVE WindowSpec => []TickIsShown
  OBVIOUS
<1>1. WindowInit => TickInv
  BY AlertsBegin DEF WindowInit
<1>2. ASSUME TickInv, [WindowNext]_<<vars, pageVars, startupVars>>
      PROVE  TickInv'
  <2>1. Next \/ UNCHANGED vars
    BY <1>2 DEF WindowNext, AlertsMove, SidebarMoves, StartupMoves
  <2> QED  BY <1>2, <2>1, AlertsNext, AlertsStand
<1>3. TickInv => TickIsShown
  BY DEF TickInv, NetsInv, BadgeInv, TickIsShown
<1> QED  BY <1>1, <1>2, <1>3, PTL DEF WindowSpec

\* What is proved of the tick, of the sidebar or of the Startup page alone holds in the
\* window too: each does there what it is specified to do.
THEOREM WindowPartsAsSpecified == WindowSpec => Spec /\ Sidebar!Spec /\ Startup!Spec
<1>1. WindowInit => Init /\ Sidebar!Init /\ Startup!Init
  BY DEF WindowInit
<1>2. [WindowNext]_<<vars, pageVars, startupVars>> => [Next]_vars
  BY DEF WindowNext, AlertsMove, SidebarMoves, StartupMoves
<1>3. ASSUME [WindowNext]_<<vars, pageVars, startupVars>>
      PROVE  [Sidebar!Next]_(Sidebar!vars)
  BY <1>3 DEF WindowNext, AlertsMove, SidebarMoves, StartupMoves, pageVars, Sidebar!vars,
              Sidebar!lasting, Sidebar!split, Sidebar!placing
<1>4. ASSUME [WindowNext]_<<vars, pageVars, startupVars>>
      PROVE  [Startup!Next]_(Startup!vars)
  BY <1>4 DEF WindowNext, AlertsMove, SidebarMoves, StartupMoves, startupVars, Startup!vars
<1> QED  BY <1>1, <1>2, <1>3, <1>4, PTL DEF WindowSpec, Spec, Sidebar!Spec, Startup!Spec
=============================================================================
