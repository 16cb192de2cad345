----------------------------- MODULE LinkProofs -----------------------------
(***************************************************************************)
(* What a link carries: reports towards the host (HidClient) and LEDs      *)
(* towards the keyboards (Leds).  The reports of keyboards and the media   *)
(* keys come out as what they are because the parser gives each kind the   *)
(* ID that its page is under in the map (PageGivesId), for any map; each   *)
(* subscription knows the kind of its reference in the map as it was read  *)
(* (LinkInv); and where no ID is known, length and first bytes decide.     *)
(***************************************************************************)
EXTENDS HidClient, Leds, DataLemmas

----------------------------------------------------------------------------
(* The report-map parser.                                                  *)

\* run[i] is the parser's state after i items.
IsRun(run, items) ==
    /\ run[0] = ParserStart
    /\ \A i \in 1 .. Len(items) : run[i] = TakeItem(run[i - 1], items[i])

\* The recursion that parse is defined by has a solution; by induction on the
\* number of items taken.
LEMMA ParserRuns ==
  ASSUME NEW items \in Seq(Item)
  PROVE  \E run : IsRun(run, items) /\ parse(items) = run[Len(items)].desc
<1> DEFINE Fits(run, n) ==
             run = [i \in 0 .. n |-> IF i = 0 THEN ParserStart
                                       ELSE TakeItem(run[i - 1], items[i])]
           without == {n \in Nat : ~ \E run : Fits(run, n)}
           parser == CHOOSE run : Fits(run, Len(items))
<1>1. Len(items) \in Nat
  OBVIOUS
<1>2. without = {}
  <2> SUFFICES ASSUME without # {} PROVE FALSE
    OBVIOUS
  <2>1. PICK n \in without : \A m \in without : n <= m
    BY LeastExists
  <2>2. CASE n = 0
    <3> DEFINE run == [i \in 0 .. 0 |-> ParserStart]
    <3>1. Fits(run, 0)
      OBVIOUS
    <3> QED
      BY <2>1, <2>2, <3>1
  <2>3. CASE n # 0
    <3>1. n - 1 \in Nat /\ n \in Nat /\ ~ (n <= n - 1)
      BY <2>1, <2>3
    <3>2. PICK run : Fits(run, n - 1)
      BY <2>1, <3>1
    <3> DEFINE longer == [i \in 0 .. n |-> IF i <= n - 1 THEN run[i]
                                             ELSE TakeItem(run[n - 1], items[n])]
    <3>3. ASSUME NEW i \in 0 .. n
          PROVE  longer[i] = IF i = 0 THEN ParserStart ELSE TakeItem(longer[i - 1], items[i])
      <4>1. CASE i = n
        <5>1. longer[n] = TakeItem(run[n - 1], items[n]) /\ longer[n - 1] = run[n - 1]
          BY <3>1
        <5> HIDE DEF longer
        <5> QED
          BY <4>1, <5>1, <2>3
      <4>2. CASE i # n
        <5>1. i \in 0 .. n - 1 /\ (i # 0 => i - 1 \in 0 .. n - 1)
          BY <3>1, <4>2
        <5>2. longer[i] = run[i] /\ (i # 0 => longer[i - 1] = run[i - 1])
          BY <3>1, <5>1
        <5>3. run[i] = IF i = 0 THEN ParserStart ELSE TakeItem(run[i - 1], items[i])
          BY <3>2, <5>1
        <5> QED
          BY ONLY <5>2, <5>3
      <4> QED
        BY <4>1, <4>2
    <3>4. longer = [i \in 0 .. n |-> longer[i]]
      OBVIOUS
    <3> HIDE DEF longer
    <3>5. Fits(longer, n)
      BY <3>3, <3>4
    <3> QED
      BY <2>1, <3>5
  <2> QED
    BY <2>2, <2>3
<1>3. Fits(parser, Len(items))
  <2>1. \E run : Fits(run, Len(items))
    BY <1>1, <1>2
  <2> HIDE DEF Fits
  <2> QED
    BY <2>1
<1>4. parse(items) = parser[Len(items)].desc
  BY DEF parse
<1> HIDE DEF parser
<1>5. IsRun(parser, items)
  <2>1. parser[0] = ParserStart
    BY <1>1, <1>3
  <2>2. ASSUME NEW i \in 1 .. Len(items)
        PROVE  parser[i] = TakeItem(parser[i - 1], items[i])
    BY <1>1, <1>3
  <2> QED
    BY <2>1, <2>2 DEF IsRun
<1> QED
  BY <1>4, <1>5

ParserState ==
    [page : Page, usage : UsageName, report_id : 0 .. 255,
     desc : [has : SUBSET ReportKind, id : [ReportKind -> 0 .. 255]]]

LEMMA InputGives ==
  ASSUME NEW p \in ParserState
  PROVE  WithInput(p) \in [has : SUBSET ReportKind, id : [ReportKind -> 0 .. 255]]
<1>1. InputKinds(p) \subseteq ReportKind
  BY DEF InputKinds, ReportKind
<1>2. /\ p.desc.has \in SUBSET ReportKind /\ p.desc.id \in [ReportKind -> 0 .. 255]
      /\ p.report_id \in 0 .. 255
  BY DEF ParserState
<1> QED
  BY <1>1, <1>2 DEF WithInput

\* What one item does to the parts of the state.
LEMMA ItemTaken ==
  ASSUME NEW p \in ParserState, NEW item \in Item
  PROVE  /\ TakeItem(p, item) \in ParserState
         /\ TakeItem(p, item).page = IF item.item = "UsagePage" THEN item.page ELSE p.page
         /\ TakeItem(p, item).report_id =
               IF item.item = "ReportId" THEN item.id ELSE p.report_id
         /\ TakeItem(p, item).desc = IF item = Input THEN WithInput(p) ELSE p.desc
<1>1. CASE item \in [item : {"UsagePage"}, page : Page]
  <2>1. item.item = "UsagePage" /\ item.page \in Page /\ item # Input
    BY <1>1 DEF Input
  <2> QED
    BY <2>1 DEF TakeItem, ParserState, UsageName
<1>2. CASE item \in [item : {"Usage"}, usage : UsageName]
  <2>1. item.item = "Usage" /\ item.usage \in UsageName /\ item # Input
    BY <1>2 DEF Input
  <2> QED
    BY <2>1 DEF TakeItem, ParserState, UsageName
<1>3. CASE item \in [item : {"ReportId"}, id : 1 .. 255]
  <2>1. item.item = "ReportId" /\ item.id \in 0 .. 255 /\ item # Input
    BY <1>3 DEF Input
  <2> QED
    BY <2>1 DEF TakeItem, ParserState, UsageName
<1>4. CASE item = Input
  <2>1. item.item = "Input"
    BY <1>4 DEF Input
  <2>2. TakeItem(p, item) = [p EXCEPT !.desc = WithInput(p), !.usage = "none"]
    BY <2>1 DEF TakeItem
  <2>3. WithInput(p) \in [has : SUBSET ReportKind, id : [ReportKind -> 0 .. 255]]
    BY InputGives
  <2> QED
    BY <1>4, <2>1, <2>2, <2>3 DEF ParserState, UsageName
<1>5. CASE item = OtherMain
  <2>1. item.item = "OtherMain" /\ item # Input
    BY <1>5 DEF OtherMain, Input
  <2> QED
    BY <2>1 DEF TakeItem, ParserState, UsageName
<1>6. CASE item = Ignored
  <2>1. item.item = "Ignored" /\ item # Input
    BY <1>6 DEF Ignored, Input
  <2> QED
    BY <2>1 DEF TakeItem, ParserState, UsageName
<1> QED
  BY <1>1, <1>2, <1>3, <1>4, <1>5, <1>6 DEF Item

LEMMA RunIsTyped ==
  ASSUME NEW items \in Seq(Item), NEW run, IsRun(run, items)
  PROVE  \A i \in 0 .. Len(items) : run[i] \in ParserState
<1> DEFINE S == {i \in 0 .. Len(items) : run[i] \in ParserState}
<1>1. Len(items) \in Nat /\ \A i \in 1 .. Len(items) : items[i] \in Item
  OBVIOUS
<1>2. run[0] = ParserStart /\ \A i \in 1 .. Len(items) : run[i] = TakeItem(run[i - 1], items[i])
  BY DEF IsRun
<1>3. 0 \in S
  <2>1. [k \in ReportKind |-> 0] \in [ReportKind -> 0 .. 255] /\ {} \in SUBSET ReportKind
    OBVIOUS
  <2>2. NoDescriptor \in [has : SUBSET ReportKind, id : [ReportKind -> 0 .. 255]]
    BY <2>1 DEF NoDescriptor
  <2>3. ParserStart \in ParserState
    <3>1. "Unknown" \in Page /\ "none" \in UsageName /\ 0 \in 0 .. 255
      BY DEF Page, UsageName
    <3> QED
      BY <2>2, <3>1 DEF ParserStart, ParserState
  <2> QED
    BY <1>1, <1>2, <2>3
<1>4. ASSUME NEW i \in 1 .. Len(items), i - 1 \in S PROVE i \in S
  <2>1. run[i - 1] \in ParserState /\ items[i] \in Item /\ i \in 0 .. Len(items)
    BY <1>1, <1>4
  <2>2. run[i] \in ParserState
    BY <1>2, <2>1, ItemTaken
  <2> QED
    BY <2>1, <2>2
<1> HIDE DEF S
<1>5. \A i \in 0 .. Len(items) : i \in S
  BY <1>1, <1>3, <1>4, UpTo
<1> QED
  BY <1>5 DEF S

\* One round of the loop, on a run.
LEMMA Round ==
  ASSUME NEW items \in Seq(Item), NEW run, IsRun(run, items), NEW i \in 1 .. Len(items)
  PROVE  /\ i \in Nat /\ i - 1 \in 0 .. Len(items) /\ items[i] \in Item
         /\ run[i - 1] \in ParserState /\ run[i] \in ParserState
         /\ run[i].page = IF items[i].item = "UsagePage" THEN items[i].page
                            ELSE run[i - 1].page
         /\ run[i].report_id = IF items[i].item = "ReportId" THEN items[i].id
                                 ELSE run[i - 1].report_id
         /\ run[i].desc = IF items[i] = Input THEN WithInput(run[i - 1])
                            ELSE run[i - 1].desc
<1>1. i \in Nat /\ i - 1 \in 0 .. Len(items) /\ items[i] \in Item
  OBVIOUS
<1>2. run[i - 1] \in ParserState
  BY <1>1, RunIsTyped
<1>3. run[i] = TakeItem(run[i - 1], items[i])
  BY DEF IsRun
<1> QED
  BY <1>1, <1>2, <1>3, ItemTaken

LEMMA Started ==
  /\ ParserStart.page = "Unknown" /\ ParserStart.report_id = 0
  /\ \A k \in ReportKind : ParserStart.desc.id[k] = 0
BY DEF ParserStart, NoDescriptor

\* The page in force is the last that was named.
LEMMA PageIsLast ==
  ASSUME NEW items \in Seq(Item), NEW run, IsRun(run, items)
  PROVE  \A i \in 0 .. Len(items) : \A page :
            (\E j \in 1 .. i : /\ items[j] = UsagePage(page)
                              /\ \A k \in j + 1 .. i : items[k].item # "UsagePage")
              <=> (run[i].page = page /\ \E j \in 1 .. i : items[j].item = "UsagePage")
<1> DEFINE On(i, page) == \E j \in 1 .. i : /\ items[j] = UsagePage(page)
                                            /\ \A k \in j + 1 .. i : items[k].item # "UsagePage"
           Some(i) == \E j \in 1 .. i : items[j].item = "UsagePage"
           S == {i \in 0 .. Len(items) : \A page : On(i, page) <=> run[i].page = page /\ Some(i)}
<1>1. Len(items) \in Nat
  OBVIOUS
<1>2. 0 \in S
  BY <1>1
<1>3. ASSUME NEW i \in 1 .. Len(items), i - 1 \in S PROVE i \in S
  <2>1. /\ i \in Nat /\ items[i] \in Item
        /\ run[i].page = IF items[i].item = "UsagePage" THEN items[i].page
                           ELSE run[i - 1].page
    BY Round
  <2>2. \A page : On(i - 1, page) <=> run[i - 1].page = page /\ Some(i - 1)
    BY <1>3
  <2>3. CASE items[i].item = "UsagePage"
    <3>1. items[i] = UsagePage(items[i].page)
      BY <2>1, <2>3 DEF Item, UsagePage, Input, OtherMain, Ignored
    <3>2. Some(i) /\ On(i, items[i].page)
      BY <2>1, <2>3, <3>1
    <3>3. ASSUME NEW page, On(i, page) PROVE page = items[i].page
      <4>1. PICK j \in 1 .. i : /\ items[j] = UsagePage(page)
                                /\ \A k \in j + 1 .. i : items[k].item # "UsagePage"
        BY <3>3
      <4>2. j = i
        <5>1. j # i => i \in j + 1 .. i
          BY <2>1
        <5> QED
          BY <2>3, <4>1, <5>1
      <4> QED
        BY <4>1, <4>2 DEF UsagePage
    <3>4. run[i].page = items[i].page
      BY <2>1, <2>3
    <3> HIDE DEF On, Some
    <3> QED
      BY <3>2, <3>3, <3>4
  <2>4. CASE items[i].item # "UsagePage"
    <3>1. ASSUME NEW page PROVE On(i, page) <=> On(i - 1, page)
      <4>1. ASSUME On(i, page) PROVE On(i - 1, page)
        <5>1. PICK j \in 1 .. i : /\ items[j] = UsagePage(page)
                                  /\ \A k \in j + 1 .. i : items[k].item # "UsagePage"
          BY <4>1
        <5>2. items[j].item = "UsagePage"
          BY <5>1 DEF UsagePage
        <5>3. j \in 1 .. i - 1
          BY <2>1, <2>4, <5>2
        <5> QED
          BY <2>1, <5>1, <5>3
      <4>2. ASSUME On(i - 1, page) PROVE On(i, page)
        <5>1. PICK j \in 1 .. i - 1 : /\ items[j] = UsagePage(page)
                                      /\ \A k \in j + 1 .. i - 1 : items[k].item # "UsagePage"
          BY <4>2
        <5>2. \A k \in j + 1 .. i : k = i \/ k \in j + 1 .. i - 1
          BY <2>1
        <5>3. j \in 1 .. i
          BY <2>1
        <5> QED
          BY <2>4, <5>1, <5>2, <5>3
      <4> QED
        BY <4>1, <4>2
    <3>2. Some(i) <=> Some(i - 1)
      <4>1. \A j \in 1 .. i : j = i \/ j \in 1 .. i - 1
        BY <2>1
      <4>2. \A j \in 1 .. i - 1 : j \in 1 .. i
        BY <2>1
      <4> QED
        BY <2>4, <4>1, <4>2
    <3>3. run[i].page = run[i - 1].page
      BY <2>1, <2>4
    <3> HIDE DEF On, Some
    <3> QED
      BY <2>2, <3>1, <3>2, <3>3
  <2> QED
    BY <2>3, <2>4
<1> HIDE DEF S
<1>4. \A i \in 0 .. Len(items) : i \in S
  BY <1>1, <1>2, <1>3, UpTo
<1> QED
  BY <1>4 DEF S
\* So is the report ID.
LEMMA IdIsLast ==
  ASSUME NEW items \in Seq(Item), NEW run, IsRun(run, items)
  PROVE  \A i \in 0 .. Len(items) : \A id :
            (\E j \in 1 .. i : /\ items[j] = ReportId(id)
                              /\ \A k \in j + 1 .. i : items[k].item # "ReportId")
              <=> (run[i].report_id = id /\ \E j \in 1 .. i : items[j].item = "ReportId")
<1> DEFINE On(i, id) == \E j \in 1 .. i : /\ items[j] = ReportId(id)
                                            /\ \A k \in j + 1 .. i : items[k].item # "ReportId"
           Some(i) == \E j \in 1 .. i : items[j].item = "ReportId"
           S == {i \in 0 .. Len(items) : \A id : On(i, id) <=> run[i].report_id = id /\ Some(i)}
<1>1. Len(items) \in Nat
  OBVIOUS
<1>2. 0 \in S
  BY <1>1
<1>3. ASSUME NEW i \in 1 .. Len(items), i - 1 \in S PROVE i \in S
  <2>1. /\ i \in Nat /\ items[i] \in Item
        /\ run[i].report_id = IF items[i].item = "ReportId" THEN items[i].id
                           ELSE run[i - 1].report_id
    BY Round
  <2>2. \A id : On(i - 1, id) <=> run[i - 1].report_id = id /\ Some(i - 1)
    BY <1>3
  <2>3. CASE items[i].item = "ReportId"
    <3>1. items[i] = ReportId(items[i].id)
      BY <2>1, <2>3 DEF Item, ReportId, Input, OtherMain, Ignored
    <3>2. Some(i) /\ On(i, items[i].id)
      BY <2>1, <2>3, <3>1
    <3>3. ASSUME NEW id, On(i, id) PROVE id = items[i].id
      <4>1. PICK j \in 1 .. i : /\ items[j] = ReportId(id)
                                /\ \A k \in j + 1 .. i : items[k].item # "ReportId"
        BY <3>3
      <4>2. j = i
        <5>1. j # i => i \in j + 1 .. i
          BY <2>1
        <5> QED
          BY <2>3, <4>1, <5>1
      <4> QED
        BY <4>1, <4>2 DEF ReportId
    <3>4. run[i].report_id = items[i].id
      BY <2>1, <2>3
    <3> HIDE DEF On, Some
    <3> QED
      BY <3>2, <3>3, <3>4
  <2>4. CASE items[i].item # "ReportId"
    <3>1. ASSUME NEW id PROVE On(i, id) <=> On(i - 1, id)
      <4>1. ASSUME On(i, id) PROVE On(i - 1, id)
        <5>1. PICK j \in 1 .. i : /\ items[j] = ReportId(id)
                                  /\ \A k \in j + 1 .. i : items[k].item # "ReportId"
          BY <4>1
        <5>2. items[j].item = "ReportId"
          BY <5>1 DEF ReportId
        <5>3. j \in 1 .. i - 1
          BY <2>1, <2>4, <5>2
        <5> QED
          BY <2>1, <5>1, <5>3
      <4>2. ASSUME On(i - 1, id) PROVE On(i, id)
        <5>1. PICK j \in 1 .. i - 1 : /\ items[j] = ReportId(id)
                                      /\ \A k \in j + 1 .. i - 1 : items[k].item # "ReportId"
          BY <4>2
        <5>2. \A k \in j + 1 .. i : k = i \/ k \in j + 1 .. i - 1
          BY <2>1
        <5>3. j \in 1 .. i
          BY <2>1
        <5> QED
          BY <2>4, <5>1, <5>2, <5>3
      <4> QED
        BY <4>1, <4>2
    <3>2. Some(i) <=> Some(i - 1)
      <4>1. \A j \in 1 .. i : j = i \/ j \in 1 .. i - 1
        BY <2>1
      <4>2. \A j \in 1 .. i - 1 : j \in 1 .. i
        BY <2>1
      <4> QED
        BY <2>4, <4>1, <4>2
    <3>3. run[i].report_id = run[i - 1].report_id
      BY <2>1, <2>4
    <3> HIDE DEF On, Some
    <3> QED
      BY <2>2, <3>1, <3>2, <3>3
  <2> QED
    BY <2>3, <2>4
<1> HIDE DEF S
<1>4. \A i \in 0 .. Len(items) : i \in S
  BY <1>1, <1>2, <1>3, UpTo
<1> QED
  BY <1>4 DEF S

\* Before the first, there is none.
LEMMA NoneNamed ==
  ASSUME NEW items \in Seq(Item), NEW run, IsRun(run, items)
  PROVE  \A i \in 0 .. Len(items) :
            /\ (\A j \in 1 .. i : items[j].item # "UsagePage") => run[i].page = "Unknown"
            /\ (\A j \in 1 .. i : items[j].item # "ReportId") => run[i].report_id = 0
<1> DEFINE S == {i \in 0 .. Len(items) :
                   /\ (\A j \in 1 .. i : items[j].item # "UsagePage") => run[i].page = "Unknown"
                   /\ (\A j \in 1 .. i : items[j].item # "ReportId") => run[i].report_id = 0}
<1>1. Len(items) \in Nat /\ run[0] = ParserStart
  BY DEF IsRun
<1>2. 0 \in S
  BY <1>1, Started
<1>3. ASSUME NEW i \in 1 .. Len(items), i - 1 \in S PROVE i \in S
  <2>1. /\ i \in Nat
        /\ run[i].page = IF items[i].item = "UsagePage" THEN items[i].page
                           ELSE run[i - 1].page
        /\ run[i].report_id = IF items[i].item = "ReportId" THEN items[i].id
                                ELSE run[i - 1].report_id
    BY Round
  <2>2. i \in 1 .. i /\ \A j \in 1 .. i - 1 : j \in 1 .. i
    BY <2>1
  <2>3. ASSUME \A j \in 1 .. i : items[j].item # "UsagePage" PROVE run[i].page = "Unknown"
    BY <1>3, <2>1, <2>2, <2>3
  <2>4. ASSUME \A j \in 1 .. i : items[j].item # "ReportId" PROVE run[i].report_id = 0
    BY <1>3, <2>1, <2>2, <2>4
  <2> QED
    BY <2>3, <2>4
<1> HIDE DEF S
<1>4. \A i \in 0 .. Len(items) : i \in S
  BY <1>1, <1>2, <1>3, UpTo
<1> QED
  BY <1>4 DEF S

\* So an Input item is met on its page and within its report.
LEMMA MetAtInput ==
  ASSUME NEW items \in Seq(Item), NEW run, IsRun(run, items),
         NEW i \in 1 .. Len(items), items[i] = Input
  PROVE  /\ \A page : page # "Unknown" => (InputOn(items, i, page) <=> run[i - 1].page = page)
         /\ \A id : id # 0 => (InReport(items, i, id) <=> run[i - 1].report_id = id)
<1>1. i \in 0 .. Len(items) /\ items[i].item = "Input"
  BY DEF Input
<1>2. run[i].page = run[i - 1].page /\ run[i].report_id = run[i - 1].report_id
  BY <1>1, Round
<1>3. ASSUME NEW page, page # "Unknown"
      PROVE  InputOn(items, i, page) <=> run[i - 1].page = page
  <2>1. InputOn(items, i, page)
          <=> run[i].page = page /\ \E j \in 1 .. i : items[j].item = "UsagePage"
    BY <1>1, PageIsLast DEF InputOn
  <2>2. run[i].page = page => \E j \in 1 .. i : items[j].item = "UsagePage"
    BY <1>1, <1>3, NoneNamed
  <2> QED
    BY <1>2, <2>1, <2>2
<1>4. ASSUME NEW id, id # 0 PROVE InReport(items, i, id) <=> run[i - 1].report_id = id
  <2>1. InReport(items, i, id)
          <=> run[i].report_id = id /\ \E j \in 1 .. i : items[j].item = "ReportId"
    BY <1>1, IdIsLast DEF InReport
  <2>2. run[i].report_id = id => \E j \in 1 .. i : items[j].item = "ReportId"
    BY <1>1, <1>4, NoneNamed
  <2> QED
    BY <1>2, <2>1, <2>2
<1> QED
  BY <1>3, <1>4

\* The page a kind is recognised by.
KindPage == [keyboard |-> "Keyboard", mouse |-> "GenericDesktop", consumer |-> "Consumer"]

LEMMA KindByPage ==
  ASSUME NEW p, NEW k \in ReportKind
  PROVE  /\ KindPage[k] # "Unknown"
         /\ k \in InputKinds(p) => p.page = KindPage[k]
         /\ k # "mouse" /\ p.page = KindPage[k] => k \in InputKinds(p)
BY DEF KindPage, InputKinds, ReportKind

\* What an item does to the ID of a kind.
LEMMA IdTaken ==
  ASSUME NEW items \in Seq(Item), NEW run, IsRun(run, items),
         NEW i \in 1 .. Len(items), NEW k \in ReportKind
  PROVE  run[i].desc.id[k] = IF /\ items[i] = Input /\ k \in InputKinds(run[i - 1])
                                /\ run[i - 1].desc.id[k] = 0
                               THEN run[i - 1].report_id ELSE run[i - 1].desc.id[k]
<1>1. run[i].desc = IF items[i] = Input THEN WithInput(run[i - 1]) ELSE run[i - 1].desc
  BY Round
<1>2. WithInput(run[i - 1]).id[k] =
        IF k \in InputKinds(run[i - 1]) /\ run[i - 1].desc.id[k] = 0
          THEN run[i - 1].report_id ELSE run[i - 1].desc.id[k]
  BY DEF WithInput
<1> QED
  BY <1>1, <1>2

\* A kind that has its page in one report alone gets that report's ID.
LEMMA PageGivesId ==
  ASSUME NEW items \in Seq(Item), NEW k \in {"keyboard", "consumer"}, NEW id \in 1 .. 255,
         HasPage(items, id, KindPage[k])
  PROVE  parse(items).id[k] = id
<1>1. PICK run : IsRun(run, items) /\ parse(items) = run[Len(items)].desc
  BY ParserRuns
<1> DEFINE Done(i) == \E j \in 1 .. i : InputOn(items, j, KindPage[k])
           S == {i \in 0 .. Len(items) : /\ run[i].desc.id[k] \in {0, id}
                                         /\ Done(i) => run[i].desc.id[k] = id}
<1>2. Len(items) \in Nat /\ DOMAIN items = 1 .. Len(items) /\ run[0] = ParserStart
  BY <1>1 DEF IsRun
<1>3. k \in ReportKind /\ k # "mouse" /\ id # 0
  BY DEF ReportKind
<1>4. 0 \in S
  BY <1>2, <1>3, Started
<1>5. ASSUME NEW i \in 1 .. Len(items), i - 1 \in S PROVE i \in S
  <2>1. run[i - 1].desc.id[k] \in {0, id} /\ (Done(i - 1) => run[i - 1].desc.id[k] = id)
    BY <1>5
  <2>2. Done(i) => InputOn(items, i, KindPage[k]) \/ Done(i - 1)
    <3>1. \A j \in 1 .. i : j = i \/ j \in 1 .. i - 1
      OBVIOUS
    <3> QED
      BY <3>1
  <2>3. InputOn(items, i, KindPage[k])
          => items[i] = Input /\ k \in InputKinds(run[i - 1]) /\ run[i - 1].report_id = id
    <3> SUFFICES ASSUME InputOn(items, i, KindPage[k])
                 PROVE  items[i] = Input /\ k \in InputKinds(run[i - 1])
                          /\ run[i - 1].report_id = id
      OBVIOUS
    <3>1. items[i] = Input
      BY DEF InputOn
    <3>2. InReport(items, i, id)
      BY <1>2 DEF HasPage
    <3> QED
      BY <1>1, <1>3, <3>1, <3>2, MetAtInput, KindByPage
  <2>4. items[i] = Input /\ k \in InputKinds(run[i - 1]) => InputOn(items, i, KindPage[k])
    BY <1>1, <1>3, MetAtInput, KindByPage
  <2>5. run[i].desc.id[k] = IF /\ items[i] = Input /\ k \in InputKinds(run[i - 1])
                               /\ run[i - 1].desc.id[k] = 0
                              THEN run[i - 1].report_id ELSE run[i - 1].desc.id[k]
    BY <1>1, <1>3, IdTaken
  <2> HIDE DEF Done
  <2>6. run[i].desc.id[k] \in {0, id}
    BY <2>1, <2>3, <2>4, <2>5
  <2>7. Done(i) => run[i].desc.id[k] = id
    BY <1>3, <2>1, <2>2, <2>3, <2>5
  <2> QED
    BY <2>6, <2>7
<1> HIDE DEF S
<1>6. \A i \in 0 .. Len(items) : i \in S
  BY <1>2, <1>4, <1>5, UpTo
<1>7. Len(items) \in S /\ Done(Len(items))
  BY <1>2, <1>6 DEF HasPage
<1> HIDE DEF Done
<1> QED
  BY <1>1, <1>7 DEF S

\* A kind that has nothing of its page in a report does not get that report's ID.
LEMMA OtherPagesGiveNone ==
  ASSUME NEW items \in Seq(Item), NEW k \in ReportKind, NEW id \in 1 .. 255,
         LacksPage(items, id, KindPage[k])
  PROVE  parse(items).id[k] # id
<1>1. PICK run : IsRun(run, items) /\ parse(items) = run[Len(items)].desc
  BY ParserRuns
<1> DEFINE S == {i \in 0 .. Len(items) : run[i].desc.id[k] # id}
<1>2. Len(items) \in Nat /\ DOMAIN items = 1 .. Len(items) /\ run[0] = ParserStart
  BY <1>1 DEF IsRun
<1>3. 0 \in S
  <2>1. run[0].desc.id[k] = 0 /\ id # 0
    BY <1>2, Started
  <2> QED
    BY <1>2, <2>1
<1>4. ASSUME NEW i \in 1 .. Len(items), i - 1 \in S PROVE i \in S
  <2>1. ASSUME items[i] = Input, k \in InputKinds(run[i - 1]) PROVE run[i - 1].report_id # id
    <3>1. InputOn(items, i, KindPage[k])
      BY <1>1, <2>1, MetAtInput, KindByPage
    <3>2. ~ InReport(items, i, id)
      BY <1>2, <3>1 DEF LacksPage
    <3> QED
      BY <1>1, <2>1, <3>2, MetAtInput
  <2>2. run[i].desc.id[k] = IF /\ items[i] = Input /\ k \in InputKinds(run[i - 1])
                               /\ run[i - 1].desc.id[k] = 0
                              THEN run[i - 1].report_id ELSE run[i - 1].desc.id[k]
    BY <1>1, IdTaken
  <2> QED
    BY <1>4, <2>1, <2>2
<1> HIDE DEF S
<1>5. \A i \in 0 .. Len(items) : i \in S
  BY <1>2, <1>3, <1>4, UpTo
<1>6. Len(items) \in S
  BY <1>2, <1>5
<1> QED
  BY <1>1, <1>6 DEF S

\* A map without IDs gives none.
LEMMA NoIdsGiveNone ==
  ASSUME NEW items \in Seq(Item), \A i \in DOMAIN items : items[i].item # "ReportId"
  PROVE  ~ has_report_ids(parse(items))
<1>1. PICK run : IsRun(run, items) /\ parse(items) = run[Len(items)].desc
  BY ParserRuns
<1> DEFINE S == {i \in 0 .. Len(items) : \A k \in ReportKind : run[i].desc.id[k] = 0}
<1>2. Len(items) \in Nat /\ DOMAIN items = 1 .. Len(items) /\ run[0] = ParserStart
  BY <1>1 DEF IsRun
<1>3. 0 \in S
  BY <1>2, Started
<1>4. ASSUME NEW i \in 1 .. Len(items), i - 1 \in S PROVE i \in S
  <2>1. i - 1 \in 0 .. Len(items) /\ \A j \in 1 .. i - 1 : j \in DOMAIN items
    BY <1>2
  <2>2. run[i - 1].report_id = 0
    BY <1>1, <2>1, NoneNamed
  <2>3. ASSUME NEW k \in ReportKind PROVE run[i].desc.id[k] = 0
    BY <1>1, <1>4, <2>2, IdTaken
  <2> QED
    BY <2>3
<1> HIDE DEF S
<1>5. \A i \in 0 .. Len(items) : i \in S
  BY <1>2, <1>3, <1>4, UpTo
<1>6. Len(items) \in S
  BY <1>2, <1>5
<1> QED
  BY <1>1, <1>6 DEF S, has_report_ids

LEMMA NonZeroId == \A id \in 0 .. 255 : id # 0 => id \in 1 .. 255
OBVIOUS

\* What the parser makes of a map serves the reports that the map describes.
LEMMA MapsAreRead ==
  ASSUME NEW items \in Seq(Item), NEW report \in Characteristic, Describes(items, report),
         \/ report.kind = "keyboard"
         \/ report.kind = "consumer" /\ Usage("AC Pan") \notin ToSet(items)
  PROVE  \/ ~ has_report_ids(parse(items))
         \/ report_kind_for_id(parse(items), report.id) = report.kind
<1>1. CASE report.id = 0
  BY <1>1, NoIdsGiveNone DEF Describes
<1>2. CASE report.id # 0
  <2>1. report.id \in 1 .. 255
    <3>1. report.id \in 0 .. 255
      BY DEF Characteristic
    <3> QED
      BY ONLY <1>2, <3>1, NonZeroId
  <2>2. /\ KindPage["keyboard"] = "Keyboard" /\ KindPage["consumer"] = "Consumer"
        /\ KindPage["mouse"] = "GenericDesktop" /\ {"keyboard", "mouse", "consumer"} \subseteq ReportKind
    BY DEF KindPage, ReportKind
  <2>3. CASE report.kind = "keyboard"
    <3>1. HasPage(items, report.id, KindPage["keyboard"])
      BY <1>2, <2>2, <2>3 DEF Describes
    <3>2. parse(items).id["keyboard"] = report.id
      BY <2>1, <3>1, PageGivesId
    <3> QED
      BY <1>2, <2>3, <3>2 DEF report_kind_for_id
  <2>4. CASE report.kind = "consumer" /\ Usage("AC Pan") \notin ToSet(items)
    <3>1. /\ HasPage(items, report.id, KindPage["consumer"])
          /\ LacksPage(items, report.id, KindPage["keyboard"])
          /\ LacksPage(items, report.id, KindPage["mouse"])
      BY <1>2, <2>2, <2>4 DEF Describes
    <3>2. parse(items).id["consumer"] = report.id
      BY <2>1, <3>1, PageGivesId
    <3>3. parse(items).id["keyboard"] # report.id /\ parse(items).id["mouse"] # report.id
      BY <2>1, <2>2, <3>1, OtherPagesGiveNone
    <3> QED
      BY <1>2, <2>4, <3>2, <3>3 DEF report_kind_for_id
  <2> QED
    BY <2>3, <2>4
<1> QED
  BY <1>1, <1>2

----------------------------------------------------------------------------
(* Classification.                                                         *)

LEMMA NoIdNoKind ==
  ASSUME NEW desc, ~ has_report_ids(desc), NEW id
  PROVE  report_kind_for_id(desc, id) = "none"
<1>1. \A k \in {"keyboard", "mouse", "consumer"} : desc.id[k] = 0
  BY DEF has_report_ids, ReportKind
<1> QED
  BY <1>1 DEF report_kind_for_id

\* Where no ID is expected, a keyboard's report is known by its length, and
\* its first byte does not make an ID of itself.
LEMMA KeysAreKnown ==
  ASSUME NEW data \in Seq(0 .. 255), Len(data) = 8, data[2] = 0,
         NEW desc, ~ has_report_ids(desc)
  PROVE  classify("none", data, desc) = keyboard(data)
<1>1. keyboard(data) # NoReport
  BY DEF keyboard, NoReport
<1>2. classify_report(0, data) = keyboard(data)
  BY DEF classify_report, IdKind, infer_from_length
<1>3. classify_report_id_prefix(data) = NoReport
  BY DEF classify_report_id_prefix
<1>4. classify_notification(data) = keyboard(data)
  BY <1>2, <1>3 DEF classify_notification, OrElse
<1>5. classify_notification_with_hint(data, desc) = keyboard(data)
  BY <1>1, <1>2, <1>4 DEF classify_notification_with_hint, OrElse
<1> QED
  BY <1>5 DEF classify

\* The same of media keys.
LEMMA MediaKeysAreKnown ==
  ASSUME NEW data \in Seq(0 .. 255), Len(data) = 2, data[2] < 16,
         NEW desc, ~ has_report_ids(desc)
  PROVE  classify("none", data, desc) = consumer(data)
<1>1. consumer(data) # NoReport
  BY DEF consumer, NoReport
<1>2. classify_report(0, data) = consumer(data)
  BY DEF classify_report, IdKind, infer_from_length
<1>3. classify_report_id_prefix(data) = NoReport
  BY DEF classify_report_id_prefix
<1>4. classify_notification(data) = consumer(data)
  BY <1>2, <1>3 DEF classify_notification, OrElse
<1>5. classify_notification_with_hint(data, desc) = consumer(data)
  BY <1>1, <1>2, <1>4 DEF classify_notification_with_hint, OrElse
<1> QED
  BY <1>5 DEF classify

LEMMA ClassifyType ==
  ASSUME NEW kind, NEW data, NEW desc
  PROVE  classify(kind, data, desc).kind \in ReportKind \cup {"none"}
<1>1. \A d : keyboard(d).kind \in {"keyboard", "none"}
  BY DEF keyboard, NoReport
<1>2. \A d : mouse(d).kind \in {"mouse", "none"}
  BY DEF mouse, NoReport
<1>3. \A d : consumer(d).kind \in {"consumer", "none"}
  BY DEF consumer, NoReport
<1>4. NoReport.kind = "none"
  BY DEF NoReport
<1>5. \A k, d : parse_by_kind(k, d).kind \in ReportKind \cup {"none"}
  BY <1>1, <1>2, <1>3, <1>4 DEF parse_by_kind, ReportKind
<1>6. \A d : infer_from_length(d).kind \in ReportKind \cup {"none"}
  BY <1>1, <1>2, <1>3, <1>4 DEF infer_from_length, ReportKind
<1>7. \A id, d : classify_report(id, d).kind \in ReportKind \cup {"none"}
  BY <1>5, <1>6 DEF classify_report
<1>8. \A d : classify_report_id_prefix(d).kind \in ReportKind \cup {"none"}
  BY <1>4, <1>5 DEF classify_report_id_prefix
<1>9. \A d : classify_notification(d).kind \in ReportKind \cup {"none"}
  BY <1>7, <1>8 DEF classify_notification, OrElse
<1>10. classify_notification_with_hint(data, desc).kind \in ReportKind \cup {"none"}
  BY <1>5, <1>7, <1>9 DEF classify_notification_with_hint, OrElse
<1> QED
  BY <1>5, <1>10 DEF classify

----------------------------------------------------------------------------
(* Discovery and subscription.                                             *)

\* The characteristics that were gone through.
Settled == 1 .. Len(Reports(peripheral)) - Len(todo)

\* A subscription knows the kind that its reference has in the map as read.
IsSettled(s) ==
    /\ s.report \in Settled /\ peripheral.reports[s.report].cccd
    /\ s.kind = IF s.report \in refRead /\ peripheral.reports[s.report].type = "Input"
                  THEN report_kind_for_id(descriptor, peripheral.reports[s.report].id)
                  ELSE "none"

\* The state without what was notified.
LinkInv ==
    /\ peripheral \in Peripheral
    /\ stage \in {"discovering", "mapping", "subscribing", "running", "failed"}
    /\ mapRead \in 0 .. Len(peripheral.map)
    /\ stage \in {"subscribing", "running"} =>
          descriptor = parse(SubSeq(peripheral.map, 1, mapRead))
    /\ descriptor.has \subseteq ReportKind
    /\ Len(todo) <= Len(Reports(peripheral))
    /\ todo \in Seq(Characteristic)
    /\ \A j \in 1 .. Len(todo) :
          todo[j] = peripheral.reports[Len(Reports(peripheral)) - Len(todo) + j]
    /\ refRead \subseteq Settled
    /\ subscriptions \in Seq([report : 1 .. MAX_REPORTS, kind : ReportKind \cup {"none"}])
    /\ stage \in {"discovering", "mapping"} => subscriptions = <<>>
    /\ \A s \in DOMAIN subscriptions : IsSettled(subscriptions[s])
    /\ keyboard_led_handle \in 0 .. MAX_REPORTS

\* What was forwarded is what the characteristic's subscription makes of it.
SentInv ==
    \/ sent = NothingSent /\ forwarded = NoReport
    \/ /\ stage = "running"
       /\ \E s \in DOMAIN subscriptions :
             /\ sent.from = subscriptions[s].report
             /\ sent.data \in Payload[KindOf(sent.from)]
             /\ forwarded = classify(subscriptions[s].kind, sent.data, descriptor)

ClientInv == LinkInv /\ SentInv

LEMMA KeptReports ==
  ASSUME NEW p \in Peripheral
  PROVE  /\ Reports(p) \in Seq(Characteristic)
         /\ Len(Reports(p)) <= MAX_REPORTS /\ Len(Reports(p)) <= Len(p.reports)
         /\ Len(Reports(p)) \in Nat
         /\ \A i \in 1 .. Len(Reports(p)) : Reports(p)[i] = p.reports[i]
<1>1. p.reports \in Seq(Characteristic) /\ Len(p.reports) \in Nat /\ MAX_REPORTS \in Nat
  BY PeripheralAssumption, MaxReportsAssumption
<1> DEFINE n == IF Len(p.reports) < MAX_REPORTS THEN Len(p.reports) ELSE MAX_REPORTS
<1>2. n \in Nat /\ n <= Len(p.reports) /\ n <= MAX_REPORTS
  BY <1>1
<1>3. Reports(p) = SubSeq(p.reports, 1, n)
  BY DEF Reports
<1> HIDE DEF n
<1>4. /\ SubSeq(p.reports, 1, n) \in Seq(Characteristic) /\ Len(SubSeq(p.reports, 1, n)) = n
      /\ \A i \in 1 .. n : SubSeq(p.reports, 1, n)[i] = p.reports[i]
  BY <1>1, <1>2
<1> QED
  BY <1>2, <1>3, <1>4

LEMMA KindForIdType ==
  ASSUME NEW desc, NEW id
  PROVE  report_kind_for_id(desc, id) \in ReportKind \cup {"none"}
BY DEF report_kind_for_id, ReportKind

LEMMA ParsedKinds ==
  ASSUME NEW items \in Seq(Item)
  PROVE  parse(items).has \subseteq ReportKind
<1>1. PICK run : IsRun(run, items) /\ parse(items) = run[Len(items)].desc
  BY ParserRuns
<1>2. run[Len(items)] \in ParserState
  BY <1>1, RunIsTyped
<1> QED
  BY <1>1, <1>2 DEF ParserState

\* A link starts with everything before it.
Fresh ==
    /\ peripheral \in Peripheral /\ stage = "discovering" /\ mapRead = 0
    /\ descriptor = NoDescriptor /\ refRead = {} /\ todo = Reports(peripheral)
    /\ subscriptions = <<>> /\ keyboard_led_handle = 0
    /\ sent = NothingSent /\ forwarded = NoReport

LEMMA FreshLink == Fresh => ClientInv
<1> SUFFICES ASSUME Fresh PROVE ClientInv
  OBVIOUS
<1> USE DEF Fresh
<1>1. /\ Reports(peripheral) \in Seq(Characteristic)
      /\ Len(Reports(peripheral)) \in Nat
      /\ \A i \in 1 .. Len(Reports(peripheral)) : Reports(peripheral)[i] = peripheral.reports[i]
  BY KeptReports
<1>2. peripheral.map \in Seq(Item) /\ Len(peripheral.map) \in Nat
  BY PeripheralAssumption
<1>3. MAX_REPORTS \in Nat
  BY MaxReportsAssumption
<1>4. <<>> \in Seq([report : 1 .. MAX_REPORTS, kind : ReportKind \cup {"none"}])
        /\ DOMAIN <<>> = {}
  OBVIOUS
<1>5. mapRead \in 0 .. Len(peripheral.map) /\ keyboard_led_handle \in 0 .. MAX_REPORTS
  BY <1>2, <1>3
<1>6. descriptor.has \subseteq ReportKind
  BY DEF NoDescriptor
<1>7. \A j \in 1 .. Len(todo) :
          todo[j] = peripheral.reports[Len(Reports(peripheral)) - Len(todo) + j]
  <2>1. ASSUME NEW j \in 1 .. Len(Reports(peripheral))
        PROVE  Len(Reports(peripheral)) - Len(Reports(peripheral)) + j = j
    BY <1>1
  <2> QED
    BY <1>1, <2>1
<1>8. Len(todo) <= Len(Reports(peripheral))
  BY <1>1
<1> QED
  BY <1>1, <1>4, <1>5, <1>6, <1>7, <1>8 DEF ClientInv, LinkInv, SentInv

LEMMA ClientInitially == Init => ClientInv
BY FreshLink DEF Init, Fresh

\* As long as a link's state stays, so do its subscriptions.
LEMMA FailsKeeps ==
  ASSUME ClientInv, Fails, sent = NothingSent, forwarded = NoReport
  PROVE  ClientInv'
<1>1. UNCHANGED <<peripheral, mapRead, descriptor, clientVars, reportVars>> /\ stage' = "failed"
  BY DEF Fails
<1> QED
  BY <1>1 DEF ClientInv, LinkInv, SentInv, IsSettled, Settled, clientVars, reportVars

LEMMA DiscoversKeeps ==
  ASSUME ClientInv, Discovers
  PROVE  ClientInv'
<1>1. stage = "discovering" /\ sent = NothingSent /\ forwarded = NoReport
  BY DEF Discovers, ClientInv, SentInv
<1>2. CASE Fails
  BY <1>1, <1>2, FailsKeeps
<1>3. CASE ~ Fails
  <2>1. stage' = "mapping" /\ UNCHANGED <<peripheral, mapRead, descriptor, clientVars, reportVars>>
    BY <1>3 DEF Discovers
  <2> QED
    BY <1>1, <2>1 DEF ClientInv, LinkInv, SentInv, IsSettled, Settled, clientVars, reportVars
<1> QED
  BY <1>2, <1>3

LEMMA ReadsMapKeeps ==
  ASSUME ClientInv, NEW n \in 0 .. Len(peripheral.map), ReadsMap(n)
  PROVE  ClientInv'
<1>1. /\ stage = "mapping" /\ stage' = "subscribing" /\ mapRead' = n
      /\ descriptor' = parse(SubSeq(peripheral.map, 1, n))
      /\ UNCHANGED <<peripheral, clientVars, reportVars>>
  BY DEF ReadsMap
<1>2. sent = NothingSent /\ forwarded = NoReport /\ subscriptions = <<>>
  BY <1>1 DEF ClientInv, SentInv, LinkInv
<1>3. peripheral.map \in Seq(Item)
  BY PeripheralAssumption DEF ClientInv, LinkInv
<1>4. SubSeq(peripheral.map, 1, n) \in Seq(Item)
  BY <1>3
<1>5. descriptor'.has \subseteq ReportKind
  BY <1>1, <1>4, ParsedKinds
<1>6. DOMAIN <<>> = {}
  OBVIOUS
<1> QED
  BY <1>1, <1>2, <1>5, <1>6
  DEF ClientInv, LinkInv, SentInv, IsSettled, Settled, clientVars, reportVars

LEMMA SubscribesAllKeeps ==
  ASSUME ClientInv, SubscribesAll
  PROVE  ClientInv'
<1>1. stage = "subscribing" /\ sent = NothingSent /\ forwarded = NoReport
  BY DEF SubscribesAll, ClientInv, SentInv
<1>2. CASE Fails
  BY <1>1, <1>2, FailsKeeps
<1>3. CASE ~ Fails
  <2>1. stage' = "running" /\ UNCHANGED <<peripheral, mapRead, descriptor, clientVars, reportVars>>
    BY <1>3 DEF SubscribesAll
  <2> QED
    BY <1>1, <2>1 DEF ClientInv, LinkInv, SentInv, IsSettled, Settled, clientVars, reportVars
<1> QED
  BY <1>2, <1>3

LEMMA NotifiedKeeps ==
  ASSUME ClientInv, NEW s \in DOMAIN subscriptions,
         NEW data \in Payload[KindOf(subscriptions[s].report)], Notified(s, data)
  PROVE  ClientInv'
<1>1. /\ stage = "running"
      /\ UNCHANGED <<peripheral, stage, mapRead, descriptor, clientVars>>
      /\ sent' = [from |-> subscriptions[s].report, data |-> data]
      /\ forwarded' = classify(subscriptions[s].kind, data, descriptor)
  BY DEF Notified
<1>2. LinkInv'
  BY <1>1 DEF ClientInv, LinkInv, IsSettled, Settled, clientVars
<1>3. SentInv'
  BY <1>1 DEF SentInv, KindOf, clientVars
<1> QED
  BY <1>2, <1>3 DEF ClientInv

LEMMA LinkEndsKeeps ==
  ASSUME LinkEnds
  PROVE  ClientInv'
<1>1. Fresh'
  BY DEF LinkEnds, Fresh
<1> QED
  BY <1>1, FreshLink, PTL

\* The next characteristic is in todo, and was not looked at before.
LEMMA SubscribesKeeps ==
  ASSUME ClientInv, NEW refOk \in BOOLEAN, NEW cccdOk \in BOOLEAN, Subscribes(refOk, cccdOk)
  PROVE  ClientInv'
<1> DEFINE report == Head(todo)
           n == Len(Reports(peripheral)) - Len(todo) + 1
           kind == IF refOk /\ report.type = "Input"
                     THEN report_kind_for_id(descriptor, report.id) ELSE "none"
           entry == [report |-> n, kind |-> kind]
<1>1. /\ stage = "subscribing" /\ todo # <<>> /\ todo' = Tail(todo)
      /\ refRead' = IF refOk THEN refRead \cup {n} ELSE refRead
      /\ subscriptions' = IF report.cccd /\ cccdOk
                            THEN Append(subscriptions, entry) ELSE subscriptions
      /\ keyboard_led_handle' =
            IF ~report.cccd /\ refOk /\ report.type = "Output" /\ keyboard_led_handle = 0
              THEN n ELSE keyboard_led_handle
      /\ UNCHANGED <<peripheral, stage, mapRead, descriptor, reportVars>>
  BY DEF Subscribes
<1>2. sent = NothingSent /\ forwarded = NoReport
  BY <1>1 DEF ClientInv, SentInv
<1>3. /\ Len(Reports(peripheral)) \in Nat /\ Len(Reports(peripheral)) <= MAX_REPORTS
      /\ MAX_REPORTS \in Nat
  BY KeptReports, MaxReportsAssumption DEF ClientInv, LinkInv
<1>4. /\ todo \in Seq(Characteristic) /\ Len(todo) <= Len(Reports(peripheral))
      /\ \A j \in 1 .. Len(todo) :
            todo[j] = peripheral.reports[Len(Reports(peripheral)) - Len(todo) + j]
  BY DEF ClientInv, LinkInv
<1>5. /\ Len(todo) \in Nat \ {0} /\ Tail(todo) \in Seq(Characteristic)
      /\ Len(Tail(todo)) = Len(todo) - 1 /\ Head(todo) = todo[1]
      /\ \A j \in 1 .. Len(todo) - 1 : Tail(todo)[j] = todo[j + 1]
  BY <1>1, <1>4
<1>6. /\ n \in 1 .. MAX_REPORTS /\ n \in Nat
      /\ Len(Reports(peripheral)) - Len(Tail(todo)) = n
      /\ Settled = 1 .. n - 1 /\ Settled' = 1 .. n
  <2>1. n \in 1 .. MAX_REPORTS /\ n \in Nat /\ Len(Reports(peripheral)) - Len(Tail(todo)) = n
          /\ Len(Reports(peripheral)) - Len(todo) = n - 1
    BY <1>3, <1>4, <1>5
  <2> HIDE DEF n
  <2> QED
    BY <1>1, <2>1 DEF Settled
<1>7. report = peripheral.reports[n]
  BY <1>3, <1>4, <1>5
<1>8. kind \in ReportKind \cup {"none"}
  BY KindForIdType
<1> HIDE DEF kind
<1>9. \A j \in 1 .. Len(todo') :
          todo'[j] = peripheral.reports[Len(Reports(peripheral)) - Len(todo') + j]
  <2> SUFFICES ASSUME NEW j \in 1 .. Len(todo) - 1
               PROVE  Tail(todo)[j] = peripheral.reports[n + j]
    BY <1>1, <1>5, <1>6
  <2>1. j + 1 \in 1 .. Len(todo) /\ Len(Reports(peripheral)) - Len(todo) + (j + 1) = n + j
    BY <1>3, <1>5
  <2> QED
    BY <1>4, <1>5, <2>1
<1> HIDE DEF n, report
<1>10. /\ subscriptions \in Seq([report : 1 .. MAX_REPORTS, kind : ReportKind \cup {"none"}])
       /\ entry \in [report : 1 .. MAX_REPORTS, kind : ReportKind \cup {"none"}]
  BY <1>6, <1>8 DEF ClientInv, LinkInv
<1>11. subscriptions' \in Seq([report : 1 .. MAX_REPORTS, kind : ReportKind \cup {"none"}])
  <2> HIDE DEF entry
  <2>1. Append(subscriptions, entry)
          \in Seq([report : 1 .. MAX_REPORTS, kind : ReportKind \cup {"none"}])
    BY <1>10, AppendProperties
  <2> QED
    BY <1>1, <1>10, <2>1
<1>12. refRead \subseteq 1 .. n - 1 /\ refRead' \subseteq 1 .. n
  <2>1. refRead \subseteq 1 .. n - 1
    BY <1>6 DEF ClientInv, LinkInv
  <2>2. 1 .. n - 1 \subseteq 1 .. n /\ n \in 1 .. n
    BY <1>6
  <2> QED
    BY <1>1, <2>1, <2>2
\* The earlier subscriptions are of other characteristics.
<1>13. ASSUME NEW s \in DOMAIN subscriptions PROVE IsSettled(subscriptions[s])'
  <2> DEFINE c == subscriptions[s]
  <2>1. IsSettled(c)
    BY DEF ClientInv, LinkInv
  <2>2. c.report \in 1 .. n - 1 /\ c.report # n /\ c.report \in 1 .. n
    BY <1>6, <2>1 DEF IsSettled
  <2>3. c.report \in refRead' <=> c.report \in refRead
    BY <1>1, <2>2
  <2>4. subscriptions'[s] = c
    <3>1. \A i \in DOMAIN subscriptions : Append(subscriptions, entry)[i] = subscriptions[i]
      BY <1>10
    <3> QED
      BY <1>1, <3>1
  <2> HIDE DEF c
  <2> QED
    BY <1>1, <1>6, <2>1, <2>2, <2>3, <2>4 DEF IsSettled
<1>14. report.cccd /\ cccdOk =>
         /\ entry.report \in 1 .. n /\ peripheral.reports[entry.report].cccd
         /\ entry.kind = IF entry.report \in refRead' /\ peripheral.reports[entry.report].type = "Input"
                           THEN report_kind_for_id(descriptor, peripheral.reports[entry.report].id)
                           ELSE "none"
  <2>1. n \in refRead' <=> refOk
    <3>1. n \notin 1 .. n - 1
      BY <1>6
    <3> QED
      BY <1>1, <1>12, <3>1
  <2>2. n \in 1 .. n
    BY <1>6
  <2> QED
    BY <1>7, <2>1, <2>2 DEF kind
<1> HIDE DEF entry
<1>15. \A s \in DOMAIN subscriptions' : IsSettled(subscriptions[s])'
  <2>1. CASE report.cccd /\ cccdOk
    <3>1. subscriptions' = Append(subscriptions, entry)
      BY <1>1, <2>1
    <3>2. /\ DOMAIN Append(subscriptions, entry) = DOMAIN subscriptions \cup {Len(subscriptions) + 1}
          /\ Append(subscriptions, entry)[Len(subscriptions) + 1] = entry
      BY <1>10
    <3>3. subscriptions'[Len(subscriptions) + 1] = entry
      BY <3>1, <3>2
    <3>4. ASSUME NEW s \in DOMAIN subscriptions', s = Len(subscriptions) + 1
          PROVE  IsSettled(subscriptions[s])'
      <4>1. subscriptions'[s] = entry /\ descriptor' = descriptor /\ peripheral' = peripheral
        BY <1>1, <3>3, <3>4
      <4> QED
        BY <1>6, <1>14, <2>1, <4>1 DEF IsSettled
    <3>5. \A s \in DOMAIN subscriptions' : s \in DOMAIN subscriptions \/ s = Len(subscriptions) + 1
      BY <3>1, <3>2
    <3> QED
      BY <1>13, <3>4, <3>5
  <2>2. CASE ~ (report.cccd /\ cccdOk)
    BY <1>1, <1>13, <2>2
  <2> QED
    BY <2>1, <2>2
<1>16. keyboard_led_handle' \in 0 .. MAX_REPORTS
  <2>1. keyboard_led_handle \in 0 .. MAX_REPORTS /\ n \in 0 .. MAX_REPORTS
    BY <1>6 DEF ClientInv, LinkInv
  <2> QED
    BY <1>1, <2>1
<1>17. /\ todo' \in Seq(Characteristic) /\ Len(todo') <= Len(Reports(peripheral'))
  BY <1>1, <1>3, <1>4, <1>5
<1>18. LinkInv'
  <2>1. /\ peripheral' = peripheral /\ stage' = "subscribing" /\ mapRead' = mapRead
        /\ descriptor' = descriptor
    BY <1>1
  <2>2. /\ peripheral \in Peripheral /\ mapRead \in 0 .. Len(peripheral.map)
        /\ descriptor = parse(SubSeq(peripheral.map, 1, mapRead))
        /\ descriptor.has \subseteq ReportKind
    BY <1>1 DEF ClientInv, LinkInv
  <2> QED
    BY <1>6, <1>9, <1>11, <1>12, <1>15, <1>16, <1>17, <2>1, <2>2 DEF LinkInv
<1>19. SentInv'
  BY <1>1, <1>2 DEF SentInv, reportVars
<1> QED
  BY <1>18, <1>19 DEF ClientInv

LEMMA ClientStep == ClientInv /\ [Next]_vars => ClientInv'
<1> SUFFICES ASSUME ClientInv, [Next]_vars PROVE ClientInv'
  OBVIOUS
<1>1. CASE UNCHANGED vars
  BY <1>1 DEF vars, clientVars, reportVars, ClientInv, LinkInv, SentInv, IsSettled, Settled, KindOf
<1> QED
  BY <1>1, DiscoversKeeps, ReadsMapKeeps, SubscribesKeeps, SubscribesAllKeeps, NotifiedKeeps,
     LinkEndsKeeps DEF Next

LEMMA ClientInvariant == Spec => []ClientInv
BY ClientInitially, ClientStep, PTL DEF Spec

\* The parser, the subscriptions and what was classified have their types, and
\* no more characteristics are kept than there is room for.
THEOREM ClientTypeCorrect == Spec => []TypeOK
<1>1. ClientInv => TypeOK
  <2> SUFFICES ASSUME ClientInv PROVE TypeOK
    OBVIOUS
  <2>1. /\ Len(Reports(peripheral)) \in Nat /\ Len(Reports(peripheral)) <= MAX_REPORTS
        /\ MAX_REPORTS \in Nat
    BY KeptReports, MaxReportsAssumption DEF ClientInv, LinkInv
  <2>2. Len(todo) \in Nat /\ Len(todo) <= Len(Reports(peripheral))
    BY DEF ClientInv, LinkInv
  <2>3. Settled \subseteq 1 .. MAX_REPORTS /\ Len(todo) <= MAX_REPORTS
    BY <2>1, <2>2 DEF Settled
  <2>4. refRead \subseteq 1 .. MAX_REPORTS
    BY <2>3 DEF ClientInv, LinkInv
  <2>5. sent.from \in 0 .. MAX_REPORTS /\ forwarded.kind \in ReportKind \cup {"none"}
    <3>1. CASE sent = NothingSent /\ forwarded = NoReport
      BY <2>1, <3>1 DEF NothingSent, NoReport
    <3>2. CASE ~ (sent = NothingSent /\ forwarded = NoReport)
      <4>1. PICK s \in DOMAIN subscriptions :
              /\ sent.from = subscriptions[s].report
              /\ forwarded = classify(subscriptions[s].kind, sent.data, descriptor)
        BY <3>2 DEF ClientInv, SentInv
      <4>2. subscriptions[s].report \in Settled
        BY DEF ClientInv, LinkInv, IsSettled
      <4>3. \A i \in 1 .. MAX_REPORTS : i \in 0 .. MAX_REPORTS
        BY <2>1
      <4> QED
        BY <2>3, <4>1, <4>2, <4>3, ClassifyType
    <3> QED
      BY <3>1, <3>2
  <2> QED
    BY <2>3, <2>4, <2>5 DEF ClientInv, LinkInv, TypeOK
<1> QED
  BY <1>1, ClientInvariant, PTL

\* A report that was notified is of a characteristic that the map describes,
\* and was classified by the kind of its subscription.
LEMMA SentBySubscription ==
  ASSUME ClientInv, sent.from # 0
  PROVE  \E report \in Characteristic :
            /\ report = peripheral.reports[sent.from]
            /\ report.type = "Input" /\ Describes(peripheral.map, report)
            /\ sent.data \in Payload[report.kind]
            /\ forwarded =
                 classify(IF sent.from \in refRead
                            THEN report_kind_for_id(descriptor, report.id) ELSE "none",
                          sent.data, descriptor)
            /\ FullyRead => descriptor = parse(peripheral.map)
<1>1. PICK s \in DOMAIN subscriptions :
        /\ stage = "running"
        /\ sent.from = subscriptions[s].report
        /\ sent.data \in Payload[KindOf(sent.from)]
        /\ forwarded = classify(subscriptions[s].kind, sent.data, descriptor)
  BY DEF ClientInv, SentInv, NothingSent
<1> DEFINE report == peripheral.reports[sent.from]
<1>2. IsSettled(subscriptions[s])
  BY DEF ClientInv, LinkInv
<1>3. /\ peripheral \in Peripheral
      /\ peripheral.reports \in Seq(Characteristic) /\ peripheral.map \in Seq(Item)
  BY PeripheralAssumption DEF ClientInv, LinkInv
<1>4. sent.from \in DOMAIN peripheral.reports
  <2>1. Len(Reports(peripheral)) \in Nat /\ Len(Reports(peripheral)) <= Len(peripheral.reports)
    BY <1>3, KeptReports
  <2>2. Len(todo) \in Nat /\ Len(peripheral.reports) \in Nat
    BY <1>3 DEF ClientInv, LinkInv
  <2>3. sent.from \in 1 .. Len(Reports(peripheral)) - Len(todo)
    BY <1>1, <1>2 DEF IsSettled, Settled
  <2>4. sent.from \in 1 .. Len(peripheral.reports)
    BY <2>1, <2>2, <2>3
  <2> QED
    BY <1>3, <2>4
<1>5. /\ report \in Characteristic /\ report.cccd
      /\ report.type = "Input" /\ Describes(peripheral.map, report)
  BY <1>1, <1>2, <1>3, <1>4, PeripheralAssumption DEF IsSettled
<1>6. subscriptions[s].kind = IF sent.from \in refRead
                                THEN report_kind_for_id(descriptor, report.id) ELSE "none"
  BY <1>1, <1>2, <1>5 DEF IsSettled
<1>7. FullyRead => descriptor = parse(peripheral.map)
  <2>1. descriptor = parse(SubSeq(peripheral.map, 1, mapRead))
    BY <1>1 DEF ClientInv, LinkInv
  <2>2. SubSeq(peripheral.map, 1, Len(peripheral.map)) = peripheral.map
    BY <1>3, SubSeqFull
  <2> QED
    BY <2>1, <2>2 DEF FullyRead
<1> QED
  BY <1>1, <1>5, <1>6, <1>7 DEF KindOf

\* Reports of keyboards reach the host as they are, whatever the peripheral
\* has besides and in whatever order it lists it.
THEOREM KeysAreForwarded == Spec => []KeyboardReportsGetThrough
<1>1. ClientInv => KeyboardReportsGetThrough
  <2> SUFFICES ASSUME ClientInv, SentBy("keyboard"), FullyRead \/ ~ has_report_ids(descriptor)
               PROVE  forwarded = keyboard(sent.data)
    BY DEF KeyboardReportsGetThrough
  <2>1. sent.from # 0 /\ peripheral.reports[sent.from].kind = "keyboard"
    BY DEF SentBy, KindOf
  <2>2. PICK report \in Characteristic :
            /\ report = peripheral.reports[sent.from]
            /\ report.type = "Input" /\ Describes(peripheral.map, report)
            /\ sent.data \in Payload[report.kind]
            /\ forwarded =
                 classify(IF sent.from \in refRead
                            THEN report_kind_for_id(descriptor, report.id) ELSE "none",
                          sent.data, descriptor)
            /\ FullyRead => descriptor = parse(peripheral.map)
    BY <2>1, SentBySubscription
  <2>3. report.kind = "keyboard"
    BY <2>1, <2>2
  <2>4. CASE ~ has_report_ids(descriptor)
    <3>1. report_kind_for_id(descriptor, report.id) = "none"
      BY <2>4, NoIdNoKind
    <3>2. sent.data \in Seq(0 .. 255) /\ Len(sent.data) = 8 /\ sent.data[2] = 0
      BY <2>2, <2>3, PayloadAssumption
    <3>3. classify("none", sent.data, descriptor) = keyboard(sent.data)
      BY <2>4, <3>2, KeysAreKnown
    <3> QED
      BY <2>2, <3>1, <3>3
  <2>5. CASE has_report_ids(descriptor)
    <3>1. FullyRead /\ descriptor = parse(peripheral.map) /\ sent.from \in refRead
      BY <2>2, <2>5 DEF FullyRead
    <3>2. peripheral.map \in Seq(Item)
      BY PeripheralAssumption DEF ClientInv, LinkInv
    <3>3. report_kind_for_id(descriptor, report.id) = "keyboard"
      BY <2>2, <2>3, <2>5, <3>1, <3>2, MapsAreRead
    <3> QED
      BY <2>2, <3>1, <3>3 DEF classify, parse_by_kind
  <2> QED
    BY <2>4, <2>5
<1> QED
  BY <1>1, ClientInvariant, PTL

\* So do the media keys of a peripheral without horizontal scroll.
THEOREM MediaKeysAreForwarded == Spec => []MediaKeysGetThrough
<1>1. ClientInv => MediaKeysGetThrough
  <2> SUFFICES ASSUME ClientInv, SentBy("consumer"), FullyRead,
                      Usage("AC Pan") \notin ToSet(peripheral.map)
               PROVE  forwarded = consumer(sent.data)
    BY DEF MediaKeysGetThrough
  <2>1. sent.from # 0 /\ peripheral.reports[sent.from].kind = "consumer"
    BY DEF SentBy, KindOf
  <2>2. PICK report \in Characteristic :
            /\ report = peripheral.reports[sent.from]
            /\ report.type = "Input" /\ Describes(peripheral.map, report)
            /\ sent.data \in Payload[report.kind]
            /\ forwarded =
                 classify(IF sent.from \in refRead
                            THEN report_kind_for_id(descriptor, report.id) ELSE "none",
                          sent.data, descriptor)
            /\ FullyRead => descriptor = parse(peripheral.map)
    BY <2>1, SentBySubscription
  <2>3. report.kind = "consumer" /\ sent.from \in refRead /\ descriptor = parse(peripheral.map)
    BY <2>1, <2>2 DEF FullyRead
  <2>4. CASE ~ has_report_ids(descriptor)
    <3>1. report_kind_for_id(descriptor, report.id) = "none"
      BY <2>4, NoIdNoKind
    <3>2. sent.data \in Seq(0 .. 255) /\ Len(sent.data) = 2 /\ sent.data[2] < 16
      BY <2>2, <2>3, PayloadAssumption
    <3>3. classify("none", sent.data, descriptor) = consumer(sent.data)
      BY <2>4, <3>2, MediaKeysAreKnown
    <3> QED
      BY <2>2, <3>1, <3>3
  <2>5. CASE has_report_ids(descriptor)
    <3>1. peripheral.map \in Seq(Item)
      BY PeripheralAssumption DEF ClientInv, LinkInv
    <3>2. report_kind_for_id(descriptor, report.id) = "consumer"
      BY <2>2, <2>3, <2>5, <3>1, MapsAreRead
    <3> QED
      BY <2>2, <2>3, <3>2 DEF classify, parse_by_kind
  <2> QED
    BY <2>4, <2>5
<1> QED
  BY <1>1, ClientInvariant, PTL

----------------------------------------------------------------------------
(* The LEDs.  LampsKeepUp is not inductive: what a keyboard is shown next  *)
(* is the value that write_leds holds, which must be the newest unless a   *)
(* change is marked.                                                       *)

\* A write under way is of the newest value, unless the receiver has a newer
\* one to return; and before the first report no receiver has one.
WritesAreCurrent ==
    /\ \A w \in Workers : ~unseen[w] /\ written[w] # NotSet => written[w] = leds
    /\ \A w \in Workers : unseen[w] => leds # NotSet

LedsInv == LedsTypeOK /\ WritesAreCurrent /\ LampsKeepUp

\* What the handler publishes is a set of LEDs, and never "no report yet".
LEMMA PublishedIsLeds ==
    ASSUME NEW byte \in SUBSET Bits
    PROVE  from_byte(byte) \in KeyboardLeds /\ from_byte(byte) # NotSet
<1>1. from_byte(byte) \in SUBSET DEFINED /\ from_byte(byte) \in SUBSET Bits
  BY DEF from_byte
<1> QED
  BY <1>1, LedsAssumption DEF KeyboardLeds

LEMMA LedsInitially == LedsInit => LedsInv
BY DEF LedsInit, LedsInv, LedsTypeOK, WritesAreCurrent, LampsKeepUp, AtRest, Link, Dark,
       KeyboardLeds

LEMMA LedsStep == LedsInv /\ [LedsNext]_ledsVars => LedsInv'
<1> SUFFICES ASSUME LedsInv, [LedsNext]_ledsVars PROVE LedsInv'
  OBVIOUS
<1> USE DEF LedsInv, WritesAreCurrent, LampsKeepUp, AtRest
<1>1. ASSUME NEW byte \in SUBSET Bits, HostSets(byte) PROVE LedsInv'
  BY <1>1, PublishedIsLeds DEF HostSets, LedsTypeOK
<1>2. ASSUME NEW w \in Workers, NEW kind \in {"keyboard", "other"}, LinkStarts(w, kind)
      PROVE  LedsInv'
  <2>1. LedsTypeOK'
    BY <1>2 DEF LinkStarts, LedsTypeOK, Link, Dark, KeyboardLeds
  <2> QED
    BY <1>2, <2>1 DEF LinkStarts, LedsTypeOK
<1>3. ASSUME NEW w \in Workers, LinkDrops(w) PROVE LedsInv'
  BY <1>3 DEF LinkDrops, LedsTypeOK, Link
<1>4. ASSUME NEW w \in Workers, Changed(w) PROVE LedsInv'
  <2>1. LedsTypeOK'
    BY <1>4 DEF Changed, LedsTypeOK
  <2>2. leds # NotSet
    BY <1>4 DEF Changed
  <2>3. WritesAreCurrent'
    BY <1>4, <2>2 DEF Changed, LedsTypeOK
  <2>4. LampsKeepUp'
    BY <1>4, <2>2 DEF Changed, LedsTypeOK
  <2> QED
    BY <2>1, <2>3, <2>4
<1>5. ASSUME NEW w \in Workers, NEW ok \in BOOLEAN, Wrote(w, ok) PROVE LedsInv'
  <2>1. LedsTypeOK'
    BY <1>5 DEF Wrote, LedsTypeOK
  <2>2. WritesAreCurrent'
    BY <1>5 DEF Wrote, LedsTypeOK
  <2>3. LampsKeepUp'
    BY <1>5 DEF Wrote, LedsTypeOK
  <2> QED
    BY <2>1, <2>2, <2>3
<1>6. CASE UNCHANGED ledsVars
  BY <1>6 DEF ledsVars, LedsTypeOK
<1> QED
  BY <1>1, <1>2, <1>3, <1>4, <1>5, <1>6 DEF LedsNext

\* Every value is a set of LEDs, in the Watch, under way and on the lamps.
THEOREM LedsTypeCorrect == LedsSpec => []LedsTypeOK
<1>1. LedsInv => LedsTypeOK
  BY DEF LedsInv
<1> QED
  BY LedsInitially, LedsStep, <1>1, PTL DEF LedsSpec

\* A keyboard that was told the LEDs on its link shows the host's newest state
\* whenever nothing is under way to it.
THEOREM LampsFollowHost == LedsSpec => []LampsKeepUp
<1>1. LedsInv => LampsKeepUp
  BY DEF LedsInv
<1> QED
  BY LedsInitially, LedsStep, <1>1, PTL DEF LedsSpec
=============================================================================
