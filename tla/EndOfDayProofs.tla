-------------------------- MODULE EndOfDayProofs --------------------------
(* What the end of the day guarantees, whatever jobs are enabled, however   *)
(* long a session and the window before the close are, and whichever        *)
(* workers die.                                                             *)
EXTENDS EndOfDay, TLAPS

-----------------------------------------------------------------------------
(* What a worker has still to do *)

\* The steps that the program of a job is made of.
Duties(j) ==
    CASE j = "forward" ->
            ({"process", "exit", "enter"} \X {"equity", "option"}) \cup {<<"work", "equity">>}
      [] j = "ai_monitor" -> {"process", "exit"} \X {"ai"}
      [] j = "ai_gated" ->
            ({"process", "exit", "enter"} \X {"ai"}) \cup {<<"work", "equity">>}
      [] j = "eod_guard" ->
            ({"exit"} \X DayLines) \cup
            {<<"cancel", "equity">>, <<"process", "ai">>, <<"work", "equity">>}
      [] OTHER -> {<<"work", "equity">>}

LEMMA Tuples ==
    ASSUME NEW S, NEW a \in S, NEW b \in S, NEW c \in S, NEW d \in S
    PROVE  /\ <<>> \in Seq(S) /\ <<a>> \in Seq(S) /\ <<a, b>> \in Seq(S)
           /\ <<a, b, c, d>> \in Seq(S)
OBVIOUS

LEMMA LongTuples ==
    ASSUME NEW S, NEW a \in S, NEW b \in S, NEW c \in S, NEW d \in S, NEW e \in S,
           NEW f \in S, NEW g \in S
    PROVE  <<a, b, c, d, e, f>> \in Seq(S) /\ <<a, b, c, d, e, f, g>> \in Seq(S)
OBVIOUS

LEMMA DutiesAreSteps == \A j \in DayJobs : Duties(j) \subseteq DaySteps
BY DEF Duties, DaySteps, DayLines

LEMMA ProgramType == \A j \in DayJobs : Program(j) \in Seq(Duties(j))
<1> SUFFICES ASSUME NEW j \in DayJobs PROVE Program(j) \in Seq(Duties(j))
  OBVIOUS
<1>1. CASE j = "forward"
  <2>1. /\ {<<"process", "equity">>, <<"exit", "equity">>, <<"process", "option">>}
                \subseteq Duties(j)
        /\ {<<"exit", "option">>, <<"enter", "equity">>, <<"enter", "option">>}
                \subseteq Duties(j)
        /\ <<"work", "equity">> \in Duties(j)
    BY <1>1 DEF Duties
  <2>2. CASE Mode = "preclose"
    <3>1. Program(j) = << <<"process", "equity">>, <<"exit", "equity">>,
                          <<"process", "option">>, <<"exit", "option">> >>
      BY <1>1, <2>2 DEF Program
    <3> QED BY <2>1, <3>1, Tuples
  <2>3. CASE Mode # "preclose"
    <3>1. Program(j) =
            << <<"process", "equity">>, <<"exit", "equity">>,
               <<"process", "option">>, <<"exit", "option">>,
               <<"enter", "equity">>, <<"enter", "option">>, <<"work", "equity">> >>
      BY <1>1, <2>3 DEF Program
    <3> QED BY <2>1, <3>1, LongTuples
  <2> QED BY <2>2, <2>3
<1>2. CASE j = "eod_guard"
  <2>1. /\ {<<"cancel", "equity">>, <<"exit", "equity">>, <<"exit", "option">>}
                \subseteq Duties(j)
        /\ {<<"process", "ai">>, <<"exit", "ai">>, <<"work", "equity">>} \subseteq Duties(j)
    BY <1>2 DEF Duties, DayLines
  <2>2. CASE Mode = "preclose" \/ Recovering
    <3>1. Program(j) =
            << <<"cancel", "equity">>, <<"exit", "equity">>, <<"exit", "option">>,
               <<"process", "ai">>, <<"exit", "ai">>, <<"work", "equity">> >>
      BY <1>2, <2>2 DEF Program
    <3> QED BY <2>1, <3>1, LongTuples
  <2>3. CASE ~(Mode = "preclose" \/ Recovering)
    <3>1. Program(j) = <<>> BY <1>2, <2>3 DEF Program
    <3> QED BY <2>1, <3>1, Tuples
  <2> QED BY <2>2, <2>3
<1>3. CASE j = "ai_gated"
  <2>1. /\ {<<"process", "ai">>, <<"exit", "ai">>, <<"work", "equity">>} \subseteq Duties(j)
        /\ <<"enter", "ai">> \in Duties(j)
    BY <1>3 DEF Duties
  <2>2. \/ Program(j) = << <<"process", "ai">>, <<"exit", "ai">> >>
        \/ Program(j) = << <<"process", "ai">>, <<"exit", "ai">>, <<"work", "equity">>,
                           <<"enter", "ai">> >>
    BY <1>3 DEF Program
  <2> QED BY <2>1, <2>2, Tuples
<1>4. CASE j = "ai_monitor"
  <2>1. {<<"process", "ai">>, <<"exit", "ai">>} \subseteq Duties(j)
    BY <1>4 DEF Duties
  <2>2. Program(j) = << <<"process", "ai">>, <<"exit", "ai">> >>
    BY <1>4 DEF Program
  <2> QED BY <2>1, <2>2, Tuples
<1>5. CASE j \notin {"forward", "eod_guard", "ai_gated", "ai_monitor"}
  <2>1. <<"work", "equity">> \in Duties(j)
    BY <1>5 DEF Duties
  <2>2. Program(j) = <<>> \/ Program(j) = << <<"work", "equity">> >>
    BY <1>5 DEF Program
  <2> QED BY <2>1, <2>2, Tuples
<1> QED BY <1>1, <1>2, <1>3, <1>4, <1>5

Has(todo, step) == \E i \in 1..Len(todo) : todo[i] = step

\* A sale that the invariant counts on is in the program that promises it, the
\* guard cancels first, and only the early cycle of the sleeve enters.
LEMMA ProgramHas ==
    /\ Program("forward") # <<>> /\ Has(Program("forward"), <<"exit", "equity">>)
    /\ Program("ai_monitor") # <<>> /\ Has(Program("ai_monitor"), <<"exit", "ai">>)
    /\ Program("ai_gated") # <<>> /\ Has(Program("ai_gated"), <<"exit", "ai">>)
    /\ Mode # "early" => ~Has(Program("ai_gated"), <<"enter", "ai">>)
    /\ Program("catalyst") # <<>> => Mode = "early"
    /\ Program("eod_guard") = <<>> => Mode # "preclose"
    /\ Program("eod_guard") # <<>> =>
            /\ Has(Program("eod_guard"), <<"exit", "equity">>)
            /\ Has(Program("eod_guard"), <<"exit", "option">>)
            /\ Has(Program("eod_guard"), <<"exit", "ai">>)
            /\ Has(Program("eod_guard"), <<"cancel", "equity">>)
<1>1. Program("forward") # <<>> /\ Has(Program("forward"), <<"exit", "equity">>)
  <2>1. CASE Mode = "preclose"
    <3>1. Program("forward") = << <<"process", "equity">>, <<"exit", "equity">>,
                          <<"process", "option">>, <<"exit", "option">> >>
      BY <2>1 DEF Program
    <3>2. 2 \in 1..Len(Program("forward")) /\ Program("forward")[2] = <<"exit", "equity">>
      BY <3>1
    <3> QED BY <3>1, <3>2 DEF Has
  <2>2. CASE Mode # "preclose"
    <3>1. Program("forward") =
            << <<"process", "equity">>, <<"exit", "equity">>,
               <<"process", "option">>, <<"exit", "option">>,
               <<"enter", "equity">>, <<"enter", "option">>, <<"work", "equity">> >>
      BY <2>2 DEF Program
    <3>2. 2 \in 1..Len(Program("forward")) /\ Program("forward")[2] = <<"exit", "equity">>
      BY <3>1
    <3> QED BY <3>1, <3>2 DEF Has
  <2> QED BY <2>1, <2>2
<1>2. Program("ai_monitor") # <<>> /\ Has(Program("ai_monitor"), <<"exit", "ai">>)
  <2>1. Program("ai_monitor") = << <<"process", "ai">>, <<"exit", "ai">> >>
    BY DEF Program
  <2> QED BY <2>1 DEF Has
<1>3. /\ Program("ai_gated") # <<>> /\ Has(Program("ai_gated"), <<"exit", "ai">>)
      /\ Mode # "early" => ~Has(Program("ai_gated"), <<"enter", "ai">>)
  <2>1. CASE Mode # "early"
    <3>1. Program("ai_gated") = << <<"process", "ai">>, <<"exit", "ai">> >>
      BY <2>1 DEF Program
    <3> QED BY <3>1 DEF Has
  <2>2. CASE Mode = "early"
    <3>1. Program("ai_gated") = << <<"process", "ai">>, <<"exit", "ai">>,
                                   <<"work", "equity">>, <<"enter", "ai">> >>
      BY <2>2 DEF Program
    <3> QED BY <2>2, <3>1 DEF Has
  <2> QED BY <2>1, <2>2
<1>4. Program("catalyst") # <<>> => Mode = "early" BY DEF Program
<1>5. CASE Mode = "preclose" \/ Recovering
  <2>1. Program("eod_guard") =
            << <<"cancel", "equity">>, <<"exit", "equity">>, <<"exit", "option">>,
               <<"process", "ai">>, <<"exit", "ai">>, <<"work", "equity">> >>
    BY <1>5 DEF Program
  <2>2. /\ {1, 2, 3, 5} \subseteq 1..Len(Program("eod_guard"))
        /\ Program("eod_guard")[1] = <<"cancel", "equity">>
        /\ Program("eod_guard")[2] = <<"exit", "equity">>
        /\ Program("eod_guard")[3] = <<"exit", "option">>
        /\ Program("eod_guard")[5] = <<"exit", "ai">>
    BY <2>1
  <2>3. /\ Has(Program("eod_guard"), <<"exit", "equity">>)
        /\ Has(Program("eod_guard"), <<"exit", "option">>)
        /\ Has(Program("eod_guard"), <<"exit", "ai">>)
        /\ Has(Program("eod_guard"), <<"cancel", "equity">>)
    BY <2>2 DEF Has
  <2>4. Program("eod_guard") # <<>>
    BY <2>1
  <2> HIDE <1>5
  <2> QED BY <1>1, <1>2, <1>3, <1>4, <2>3, <2>4
<1>6. CASE ~(Mode = "preclose" \/ Recovering)
  <2>1. Program("eod_guard") = <<>> BY <1>6 DEF Program
  <2> QED BY <1>1, <1>2, <1>3, <1>4, <1>6, <2>1
<1> QED BY <1>5, <1>6

\* The guard cancels the orders before it sells.
CancelsFirst(todo) ==
    /\ Len(todo) <= 6
    /\ \A i \in 1..Len(todo) :
            todo[i] = <<"cancel", "equity">> =>
                i = 1 /\ Len(todo) = 6 /\ todo[2] = <<"exit", "equity">>

LEMMA GuardCancelsFirst == CancelsFirst(Program("eod_guard"))
<1>1. CASE Mode = "preclose" \/ Recovering
  <2>1. Program("eod_guard") =
            << <<"cancel", "equity">>, <<"exit", "equity">>, <<"exit", "option">>,
               <<"process", "ai">>, <<"exit", "ai">>, <<"work", "equity">> >>
    BY <1>1 DEF Program
  <2>2. /\ Len(Program("eod_guard")) = 6
        /\ Program("eod_guard")[2] = <<"exit", "equity">>
        /\ \A i \in 2..6 : Program("eod_guard")[i] # <<"cancel", "equity">>
    BY <2>1
  <2>3. \A i \in 1..6 : i = 1 \/ i \in 2..6
    OBVIOUS
  <2>4. \A i \in 1..6 : Program("eod_guard")[i] = <<"cancel", "equity">> => i = 1
    BY <2>2, <2>3
  <2> QED BY <2>2, <2>4, 6 <= 6, Zenon DEF CancelsFirst
<1>2. CASE ~(Mode = "preclose" \/ Recovering)
  <2>1. Program("eod_guard") = <<>> BY <1>2 DEF Program
  <2> QED BY <2>1 DEF CancelsFirst
<1> QED BY <1>1, <1>2

LEMMA TailHas ==
    ASSUME NEW S, NEW todo \in Seq(S), todo # <<>>
    PROVE  /\ Tail(todo) \in Seq(S)
           /\ Head(todo) = todo[1] /\ 1 \in 1..Len(todo)
           /\ \A s : Has(Tail(todo), s) => Has(todo, s)
           /\ \A s : Has(todo, s) /\ s # Head(todo) => Has(Tail(todo), s)
           /\ CancelsFirst(todo) => ~Has(Tail(todo), <<"cancel", "equity">>)
<1>1. Tail(todo) \in Seq(S) /\ Len(Tail(todo)) = Len(todo) - 1 /\ Len(todo) \in Nat \ {0}
  OBVIOUS
<1>2. \A i \in 1..Len(todo) - 1 : Tail(todo)[i] = todo[i + 1]
  OBVIOUS
<1>3. Head(todo) = todo[1] /\ 1 \in 1..Len(todo)
  BY <1>1
<1>4. \A s : Has(Tail(todo), s) => Has(todo, s)
  <2> SUFFICES ASSUME NEW s, NEW i \in 1..Len(Tail(todo)), Tail(todo)[i] = s
               PROVE  Has(todo, s)
    BY DEF Has
  <2>1. i + 1 \in 1..Len(todo) /\ todo[i + 1] = s BY <1>1, <1>2
  <2> QED BY <2>1 DEF Has
<1>5. \A s : Has(todo, s) /\ s # Head(todo) => Has(Tail(todo), s)
  <2> SUFFICES ASSUME NEW s, NEW i \in 1..Len(todo), todo[i] = s, s # Head(todo)
               PROVE  Has(Tail(todo), s)
    BY DEF Has
  <2>1. i - 1 \in 1..Len(Tail(todo)) /\ i = (i - 1) + 1 BY <1>1, <1>3
  <2>2. Tail(todo)[i - 1] = s BY <1>1, <1>2, <2>1
  <2> QED BY <2>1, <2>2 DEF Has
<1>6. CancelsFirst(todo) => ~Has(Tail(todo), <<"cancel", "equity">>)
  <2> SUFFICES ASSUME CancelsFirst(todo), NEW i \in 1..Len(Tail(todo)),
                      Tail(todo)[i] = <<"cancel", "equity">>
               PROVE  FALSE
    BY DEF Has
  <2>1. i + 1 \in 1..Len(todo) /\ todo[i + 1] = <<"cancel", "equity">> /\ i \in Nat \ {0}
    BY <1>1, <1>2
  <2> QED BY <2>1 DEF CancelsFirst
<1> QED BY <1>1, <1>3, <1>4, <1>5, <1>6

-----------------------------------------------------------------------------
(* The inductive invariant *)

Owes(j, step) == Has(run[j].todo, step)

\* The mode of a worker that starts with u units left.
ModeAt(u) ==
    CASE u <= Window -> "preclose" [] Window < u /\ u <= Cutoff -> "late" [] OTHER -> "early"

\* A worker's clock runs with that of the market.
Clocked ==
    \A j \in Running :
        left + run[j].age \in 1..Open /\ run[j].mode = ModeAt(left + run[j].age)

Answered ==
    /\ due # {} => left > 0
    /\ Running \cap HourlyJobs \subseteq ran

Apart == \A j, k \in Running : j # k => AccountsOf(j) \cap AccountsOf(k) = {}

Scoped ==
    /\ \A j \in DayJobs : run[j].todo \in Seq(Duties(j))
    /\ "catalyst" \in Running => run["catalyst"].mode = "early"
    /\ run["ai_gated"].mode # "early" => ~Owes("ai_gated", <<"enter", "ai">>)
    /\ CancelsFirst(run["eod_guard"].todo)

\* An order that rests is of an earlier day where it must not fill: beside a position
\* of an earlier day, and on the sleeve until its research cycle of today may enter.
Expired(l) == resting[l] \in {NotResting, Oldest}
Late == "ai_gated" \notin ran \/ ("ai_gated" \in Running /\ run["ai_gated"].mode # "early")
RestsExpire ==
    /\ held["equity"] = "overnight" \/ held["option"] = "overnight" =>
            Expired("equity") /\ Expired("option")
    /\ Late => Expired("ai") /\ held["ai"] # "today"

Basics == DayTypeOK /\ Clocked /\ Answered /\ Apart /\ Scoped /\ RestsExpire

-----------------------------------------------------------------------------
(* Its basics, with no assumption on the deadlines *)

RunType == [todo : Seq(DaySteps), mode : Modes, age : Nat]

LEMMA StepTaken ==
    ASSUME DayTypeOK, Scoped, NEW j \in DayJobs, NEW what, NEW l, Does(j, what, l), Went(j)
    PROVE  /\ run' \in [DayJobs -> RunType]
           /\ \A k \in DayJobs : run'[k].mode = run[k].mode /\ run'[k].age = run[k].age
           /\ \A k \in DayJobs : run'[k].todo \in Seq(Duties(k))
           /\ \A k \in DayJobs \ {j} : run'[k] = run[k]
           /\ Running' \subseteq Running /\ j \in Running
           /\ Owes(j, <<what, l>>)
           /\ <<what, l>> \in Duties(j)
           /\ \A k \in DayJobs : \A s : Owes(k, s)' => Owes(k, s)
           /\ \A k \in DayJobs : \A s : Owes(k, s) /\ (k # j \/ s # <<what, l>>) => Owes(k, s)'
           /\ j = "eod_guard" => ~Owes(j, <<"cancel", "equity">>)'
           /\ CancelsFirst(run["eod_guard"].todo)'
<1> DEFINE todo == run[j].todo
<1>1. /\ run \in [DayJobs -> RunType] /\ todo \in Seq(Duties(j)) /\ todo # <<>>
      /\ Head(todo) = <<what, l>> /\ Duties(j) \subseteq DaySteps
  BY DutiesAreSteps DEF DayTypeOK, RunType, Scoped, Does
<1>2. /\ Tail(todo) \in Seq(Duties(j)) /\ Head(todo) = todo[1] /\ 1 \in 1..Len(todo)
      /\ \A s : Has(Tail(todo), s) => Has(todo, s)
      /\ \A s : Has(todo, s) /\ s # Head(todo) => Has(Tail(todo), s)
      /\ CancelsFirst(todo) => ~Has(Tail(todo), <<"cancel", "equity">>)
  BY <1>1, TailHas, Zenon
<1>3. todo \in Seq(DaySteps) /\ Tail(todo) \in Seq(DaySteps)
  BY <1>1, <1>2, TailHas, Zenon DEF RunType
<1>4. run' = [run EXCEPT ![j] = [run[j] EXCEPT !.todo = Tail(todo)]]
  BY DEF Went
<1>5. run'[j] = [run[j] EXCEPT !.todo = Tail(todo)]
  BY <1>1, <1>4
<1>6. run'[j].todo = Tail(todo) /\ run'[j].mode = run[j].mode /\ run'[j].age = run[j].age
  BY <1>1, <1>5 DEF RunType
<1>7. \A k \in DayJobs \ {j} : run'[k] = run[k]
  BY <1>1, <1>4
<1>8. run' \in [DayJobs -> RunType]
  BY <1>1, <1>3, <1>4 DEF RunType
<1>9. \A k \in DayJobs :
        /\ run'[k].mode = run[k].mode /\ run'[k].age = run[k].age
        /\ run'[k].todo \in Seq(Duties(k))
  <2> TAKE k \in DayJobs
  <2>1. CASE k = j BY <2>1, <1>2, <1>6
  <2>2. CASE k # j BY <2>2, <1>7 DEF Scoped
  <2> QED BY <2>1, <2>2
<1>10. Running' \subseteq Running /\ j \in Running
  <2>1. \A k \in DayJobs : run'[k].todo # <<>> => run[k].todo # <<>>
    BY <1>1, <1>7
  <2> QED BY <2>1, <1>1 DEF Running
<1>11. \A k \in DayJobs : \A s :
        /\ Owes(k, s)' => Owes(k, s)
        /\ Owes(k, s) /\ (k # j \/ s # <<what, l>>) => Owes(k, s)'
  <2> SUFFICES ASSUME NEW k \in DayJobs, NEW s
               PROVE  /\ Owes(k, s)' => Owes(k, s)
                      /\ Owes(k, s) /\ (k # j \/ s # <<what, l>>) => Owes(k, s)'
    OBVIOUS
  <2>1. CASE k = j BY <2>1, <1>1, <1>2, <1>6 DEF Owes
  <2>2. CASE k # j BY <2>2, <1>7 DEF Owes
  <2> QED BY <2>1, <2>2
<1>12. Owes(j, <<what, l>>) /\ <<what, l>> \in Duties(j)
  <2>1. todo[1] \in Duties(j) BY <1>1, <1>2
  <2>2. Has(todo, todo[1]) BY <1>2 DEF Has
  <2> QED BY <1>1, <1>2, <2>1, <2>2 DEF Owes
<1>13. j = "eod_guard" => ~Owes(j, <<"cancel", "equity">>)'
  BY <1>2, <1>6 DEF Scoped, Owes
<1>14. CancelsFirst(run["eod_guard"].todo)'
  <2>1. CASE j = "eod_guard"
    <3>1. Len(Tail(todo)) = Len(todo) - 1 /\ Len(todo) \in Nat /\ Len(todo) <= 6
      BY <2>1, <1>1 DEF Scoped, CancelsFirst
    <3>2. Len(run'["eod_guard"].todo) <= 6
      BY <2>1, <3>1, <1>6
    <3>3. ~Has(run'["eod_guard"].todo, <<"cancel", "equity">>)
      BY <2>1, <1>13 DEF Owes
    <3> QED BY <3>2, <3>3, Zenon DEF CancelsFirst, Has
  <2>2. CASE j # "eod_guard"
    BY <2>2, <1>7 DEF Scoped, CancelsFirst, DayJobs, IntervalJobs, HourlyJobs
  <2> QED BY <2>1, <2>2
<1> QED BY <1>7, <1>8, <1>9, <1>10, <1>11, <1>12, <1>13, <1>14

LEMMA Fits == DayConstantsOK => Oldest \in Nat /\ OrderLife \in Nat /\ NotResting \notin Nat
BY DEF DayConstantsOK, NotResting

LEMMA InitBasics == DayConstantsOK /\ DayInit => Basics
<1> SUFFICES ASSUME DayConstantsOK, DayInit PROVE Basics
  OBVIOUS
<1>1. NotRunning \in RunType
  BY DEF NotRunning, RunType, Modes
<1>2. run \in [DayJobs -> RunType] /\ (\A j \in DayJobs : run[j].age = 0 /\ run[j].todo = <<>>)
  BY <1>1 DEF DayInit, NotRunning
<1>3. DayTypeOK
  <2>1. left \in 0..Open /\ due \subseteq IntervalJobs /\ ran \subseteq HourlyJobs
    BY DEF DayInit, DayConstantsOK
  <2>2. \A j \in DayJobs : run[j].age <= Deadline[j]
    BY <1>2 DEF DayConstantsOK
  <2>3. held \in [DayLines -> {"none", "today", "overnight"}]
    BY DEF DayInit
  <2>4. resting \in [DayLines -> NotResting..Oldest]
    BY DEF DayInit, DayConstantsOK, NotResting
  <2>5. stuck \subseteq {"equity", "ai"} /\ guarded \in BOOLEAN /\ marred \in BOOLEAN
    BY DEF DayInit
  <2>6. faults \in 0..MaxFaults
    BY DEF DayInit, DayConstantsOK
  <2> QED BY <1>2, <2>1, <2>2, <2>3, <2>4, <2>5, <2>6 DEF DayTypeOK, RunType
<1>4. Running = {}
  BY <1>2 DEF Running
<1>5. \A j \in DayJobs : \A s : ~Has(run[j].todo, s)
  BY <1>2 DEF Has
<1>6. Scoped
  <2>1. \A j \in DayJobs : run[j].todo \in Seq(Duties(j))
    <3>1. \A S : <<>> \in Seq(S) OBVIOUS
    <3> QED BY <1>2, <3>1
  <2>2. CancelsFirst(run["eod_guard"].todo)
    BY <1>2 DEF CancelsFirst, DayJobs, IntervalJobs, HourlyJobs
  <2>3. "ai_gated" \in DayJobs BY DEF DayJobs, IntervalJobs, HourlyJobs
  <2> QED BY <2>1, <2>2, <2>3, <1>4, <1>5 DEF Scoped, Owes
<1>7. RestsExpire
  BY DEF RestsExpire, Expired, DayInit, DayLines
<1> QED BY <1>3, <1>4, <1>6, <1>7 DEF Basics, Clocked, Answered, Apart, DayInit

LEMMA ModeIs == Mode = ModeAt(left)
BY DEF Mode, ModeAt

LEMMA DayJobsAre ==
    DayJobs = {"forward", "ai_monitor", "allocator_monitor", "eod_guard", "catalyst",
               "ai_gated", "allocator_intraday"}
BY DEF DayJobs, IntervalJobs, HourlyJobs

LEMMA TickBasics ==
    ASSUME DayConstantsOK, Basics, UnitPasses
    PROVE  /\ Basics'
           /\ left \in Nat /\ left > 0 /\ left' = left - 1 /\ due = {}
           /\ due' = IF left' > 0 THEN Enabled \cap IntervalJobs ELSE {}
           /\ Running' = Running
           /\ \A j \in DayJobs : run'[j].todo = run[j].todo
           /\ \A j \in Running :
                /\ run[j].age < Deadline[j] /\ run'[j].mode = run[j].mode
                /\ run'[j].age = run[j].age + 1
           /\ \A j \in DayJobs : \A s : Owes(j, s)' <=> Owes(j, s)
<1> USE DEF Basics
<1>1. left \in Nat /\ left > 0 /\ left <= Open /\ left' = left - 1 /\ due = {}
  BY DEF UnitPasses, DayTypeOK, DayConstantsOK
<1>2. run \in [DayJobs -> RunType] /\ NotRunning \in RunType /\ NotRunning.todo = <<>>
  BY DEF DayTypeOK, RunType, NotRunning, Modes
<1>3. \A j \in DayJobs :
        run'[j] = IF j \in Running THEN [run[j] EXCEPT !.age = run[j].age + 1] ELSE NotRunning
  BY DEF UnitPasses
<1>4. \A j \in DayJobs : run'[j].todo = run[j].todo /\ run'[j] \in RunType
  <2> TAKE j \in DayJobs
  <2>1. CASE j \in Running
    <3>1. run'[j] = [run[j] EXCEPT !.age = run[j].age + 1] BY <2>1, <1>3
    <3>2. run[j] \in RunType /\ run[j].age + 1 \in Nat BY <1>2 DEF RunType
    <3> QED BY <3>1, <3>2 DEF RunType
  <2>2. CASE j \notin Running BY <2>2, <1>2, <1>3 DEF Running
  <2> QED BY <2>1, <2>2
<1>5. run' \in [DayJobs -> RunType]
  BY <1>4 DEF UnitPasses
<1>6. Running' = Running
  BY <1>4 DEF Running
<1>7. \A j \in Running :
        /\ run[j].age < Deadline[j] /\ run'[j].mode = run[j].mode
        /\ run'[j].age = run[j].age + 1 /\ run[j].age \in Nat
  BY <1>2, <1>3 DEF UnitPasses, RunType, Running
<1>8. \A j \in DayJobs : \A s : Owes(j, s)' <=> Owes(j, s)
  BY <1>4 DEF Owes
<1>9. DayTypeOK'
  <2>1. \A j \in DayJobs : run'[j].age <= Deadline[j]
    <3> TAKE j \in DayJobs
    <3>1. Deadline[j] \in Nat BY DEF DayConstantsOK
    <3>2. CASE j \in Running BY <3>1, <3>2, <1>7
    <3>3. CASE j \notin Running
      <4>1. run'[j] = NotRunning BY <3>3, <1>3
      <4>2. NotRunning.age = 0 BY DEF NotRunning
      <4> QED BY <3>1, <4>1, <4>2
    <3> QED BY <3>2, <3>3
  <2>2. resting' \in [DayLines -> NotResting..Oldest]
    <3>1. \A l \in DayLines : resting[l] \in NotResting..Oldest BY DEF DayTypeOK
    <3>2. \A l \in DayLines : Older(resting[l]) \in NotResting..Oldest
      BY <3>1, Fits DEF Older, NotResting
    <3> QED BY <3>2 DEF UnitPasses
  <2>3. left' \in 0..Open /\ due' \subseteq IntervalJobs
    BY <1>1 DEF UnitPasses, DayConstantsOK
  <2> QED BY <1>5, <2>1, <2>2, <2>3 DEF DayTypeOK, UnitPasses, RunType
<1>10. Clocked'
  <2> SUFFICES ASSUME NEW j \in Running'
               PROVE  /\ left' + run'[j].age \in 1..Open
                      /\ run'[j].mode = ModeAt(left + run[j].age)
                      /\ left' + run'[j].age = left + run[j].age
    BY DEF Clocked, ModeAt, DayConstantsOK
  <2>1. j \in Running BY <1>6
  <2>2. left' + run'[j].age = left + run[j].age BY <2>1, <1>1, <1>7
  <2> QED BY <2>1, <2>2, <1>7 DEF Clocked
<1>11. Answered'
  BY <1>6, <1>1 DEF Answered, UnitPasses
<1>12. Apart'
  BY <1>6 DEF Apart, AccountsOf
<1>13. Scoped'
  <2>1. "catalyst" \in Running' => run'["catalyst"].mode = "early"
    BY <1>6, <1>7 DEF Scoped
  <2>2. run'["ai_gated"].mode # "early" => ~Owes("ai_gated", <<"enter", "ai">>)'
    <3>1. CASE "ai_gated" \in Running BY <3>1, <1>7, <1>8, DayJobsAre DEF Scoped
    <3>2. CASE "ai_gated" \notin Running BY <3>2, <1>3, DayJobsAre DEF NotRunning
    <3> QED BY <3>1, <3>2
  <2>3. CancelsFirst(run'["eod_guard"].todo)
    BY <1>4, DayJobsAre DEF Scoped
  <2> QED BY <1>4, <2>1, <2>2, <2>3 DEF Scoped, CancelsFirst
<1>14. RestsExpire'
  <2>1. \A l \in DayLines : Expired(l) => Expired(l)'
    BY DEF Expired, UnitPasses, Older
  <2>2. Late' => Late
    BY <1>6, <1>7 DEF Late, UnitPasses
  <2> QED BY <2>1, <2>2 DEF RestsExpire, UnitPasses, DayLines
<1> QED
  BY <1>1, <1>4, <1>6, <1>7, <1>8, <1>9, <1>10, <1>11, <1>12, <1>13, <1>14 DEF UnitPasses

LEMMA NewDayBasics ==
    ASSUME DayConstantsOK, Basics, NewDay
    PROVE  Basics'
<1> USE DEF Basics
<1>1. Running = {} /\ run' = run /\ Running' = {}
  BY DEF NewDay, Closed, Running
<1>2. DayTypeOK'
  <2>1. left' \in 0..Open /\ due' \subseteq IntervalJobs /\ ran' \subseteq HourlyJobs
    BY DEF NewDay, DayConstantsOK
  <2>2. held' \in [DayLines -> {"none", "today", "overnight"}]
    BY DEF NewDay, DayTypeOK
  <2>3. resting' \in [DayLines -> NotResting..Oldest]
    BY Fits DEF NewDay, DayTypeOK, NotResting
  <2> QED BY <1>1, <2>1, <2>2, <2>3 DEF NewDay, DayTypeOK
<1>3. Clocked' /\ Answered' /\ Apart'
  BY <1>1 DEF NewDay, Clocked, Answered, Apart
<1>4. Scoped'
  BY <1>1 DEF Scoped, CancelsFirst, Owes
<1>5. RestsExpire'
  BY DEF RestsExpire, Expired, NewDay, DayTypeOK, DayLines
<1> QED BY <1>2, <1>3, <1>4, <1>5

LEMMA StartBasics ==
    ASSUME DayConstantsOK, Basics, NEW j \in DayJobs, StartJob(j)
    PROVE  /\ Basics'
           /\ j \notin Running /\ left \in Nat /\ left > 0
           /\ run'[j] = [todo |-> Program(j), mode |-> ModeAt(left), age |-> 0]
           /\ \A k \in DayJobs \ {j} : run'[k] = run[k]
           /\ \A k \in DayJobs \ {j} : \A s : Owes(k, s)' <=> Owes(k, s)
           /\ \A k \in Running : AccountsOf(j) \cap AccountsOf(k) = {}
<1> USE DEF Basics
<1>1. left \in Nat /\ left \in 1..Open
  BY DEF StartJob, Triggered, Answered, DayTypeOK, DayConstantsOK
<1>2. run \in [DayJobs -> RunType] /\ Program(j) \in Seq(Duties(j))
  BY ProgramType DEF DayTypeOK, RunType
<1>3. Program(j) \in Seq(DaySteps)
  <2>1. Duties(j) \subseteq DaySteps BY DutiesAreSteps
  <2>2. \A S, T : S \subseteq T => Seq(S) \subseteq Seq(T) OBVIOUS
  <2> QED BY <1>2, <2>1, <2>2, Zenon
<1>4. ModeAt(left) \in Modes
  BY DEF ModeAt, Modes
<1>5. run'[j] = [todo |-> Program(j), mode |-> ModeAt(left), age |-> 0]
  BY <1>2, ModeIs DEF StartJob
<1>6. \A k \in DayJobs \ {j} : run'[k] = run[k]
  BY <1>2 DEF StartJob
<1>7. run' \in [DayJobs -> RunType]
  BY <1>2, <1>3, <1>4, <1>5 DEF StartJob, RunType, Mode, Modes
<1>8. \A k \in Running : AccountsOf(j) \cap AccountsOf(k) = {}
  BY DEF StartJob, Contends
<1>9. j \notin Running
  <2>1. AccountsOf(j) # {} BY DayJobsAre DEF AccountsOf
  <2> QED BY <1>8, <2>1
<1>10. Running' \subseteq Running \cup {j}
  BY <1>6 DEF Running
<1>11. \A k \in DayJobs \ {j} : \A s : Owes(k, s)' <=> Owes(k, s)
  BY <1>6 DEF Owes
<1>12. DayTypeOK'
  <2>1. \A k \in DayJobs : run'[k].age <= Deadline[k]
    <3> TAKE k \in DayJobs
    <3>1. CASE k = j BY <3>1, <1>5 DEF DayConstantsOK
    <3>2. CASE k # j BY <3>2, <1>6 DEF DayTypeOK
    <3> QED BY <3>1, <3>2
  <2>2. due' \subseteq IntervalJobs /\ ran' \subseteq HourlyJobs /\ guarded' \in BOOLEAN
    BY DEF StartJob, Fired, DayTypeOK
  <2> QED BY <1>7, <2>1, <2>2 DEF StartJob, DayTypeOK, RunType
<1>13. Clocked'
  <2> SUFFICES ASSUME NEW k \in Running'
               PROVE  /\ left + run'[k].age \in 1..Open
                      /\ run'[k].mode = ModeAt(left + run'[k].age)
    BY DEF Clocked, ModeAt, StartJob
  <2>1. CASE k = j BY <2>1, <1>1, <1>5
  <2>2. CASE k # j
    <3>1. k \in Running /\ run'[k] = run[k] BY <2>2, <1>6, <1>10 DEF Running
    <3> QED BY <3>1 DEF Clocked
  <2> QED BY <2>1, <2>2
<1>14. Answered'
  BY <1>1, <1>10 DEF Answered, StartJob, Fired
<1>15. Apart'
  <2> SUFFICES ASSUME NEW k \in Running', NEW m \in Running', k # m
               PROVE  AccountsOf(k) \cap AccountsOf(m) = {}
    BY DEF Apart, AccountsOf
  <2>1. CASE k = j BY <2>1, <1>8, <1>10
  <2>2. CASE m = j BY <2>2, <1>8, <1>10
  <2>3. CASE k # j /\ m # j BY <2>3, <1>10 DEF Apart
  <2> QED BY <2>1, <2>2, <2>3
<1>16. Scoped'
  <2>1. \A k \in DayJobs : run'[k].todo \in Seq(Duties(k))
    BY <1>2, <1>5, <1>6 DEF Scoped
  <2>2. "catalyst" \in Running' => run'["catalyst"].mode = "early"
    <3>1. CASE j = "catalyst"
      BY <3>1, <1>5, ProgramHas, ModeIs DEF Running
    <3>2. CASE j # "catalyst" BY <3>2, <1>6, <1>10, DayJobsAre DEF Scoped
    <3> QED BY <3>1, <3>2
  <2>3. run'["ai_gated"].mode # "early" => ~Owes("ai_gated", <<"enter", "ai">>)'
    <3>1. CASE j = "ai_gated" BY <3>1, <1>5, ProgramHas, ModeIs DEF Owes
    <3>2. CASE j # "ai_gated" BY <3>2, <1>6, <1>11, DayJobsAre DEF Scoped
    <3> QED BY <3>1, <3>2
  <2>4. CancelsFirst(run'["eod_guard"].todo)
    <3>1. CASE j = "eod_guard" BY <3>1, <1>5, GuardCancelsFirst
    <3>2. CASE j # "eod_guard" BY <3>2, <1>6, DayJobsAre DEF Scoped
    <3> QED BY <3>1, <3>2
  <2> QED BY <2>1, <2>2, <2>3, <2>4 DEF Scoped, CancelsFirst
<1>17. RestsExpire'
  <2>1. Late' => Late
    <3>1. CASE j = "ai_gated"
      BY <3>1 DEF Late, StartJob, Triggered, DayTypeOK, IntervalJobs
    <3>2. CASE j # "ai_gated"
      BY <3>2, <1>6, <1>10, DayJobsAre DEF Late, StartJob, Fired
    <3> QED BY <3>1, <3>2
  <2> QED BY <2>1 DEF RestsExpire, Expired, StartJob
<1> QED
  BY <1>1, <1>5, <1>6, <1>8, <1>9, <1>11, <1>12, <1>13, <1>14, <1>15, <1>16, <1>17

LEMMA SkipBasics ==
    ASSUME Basics, NEW j \in DayJobs, SkipJob(j)
    PROVE  Basics'
<1> USE DEF Basics, SkipJob, Fired
<1>1. DayTypeOK' BY DEF DayTypeOK
<1>2. Running' = Running BY DEF Running
<1>3. Clocked' /\ Apart' BY <1>2 DEF Clocked, Apart, AccountsOf, ModeAt
<1>4. Answered' BY <1>2 DEF Answered
<1>5. Scoped' BY <1>2 DEF Scoped, Owes, CancelsFirst
<1>6. Late' => Late BY <1>2 DEF Late
<1>7. RestsExpire' BY <1>6 DEF RestsExpire, Expired
<1> QED BY <1>1, <1>3, <1>4, <1>5, <1>7

LEMMA DiesBasics ==
    ASSUME DayConstantsOK, Basics, NEW j \in DayJobs, WorkerDies(j)
    PROVE  Basics' /\ marred'
<1> USE DEF Basics
<1>1. run \in [DayJobs -> RunType] /\ NotRunning \in RunType
  BY DEF DayTypeOK, RunType, NotRunning, Modes
<1>2. run' \in [DayJobs -> RunType] /\ run'[j] = NotRunning
      /\ \A k \in DayJobs \ {j} : run'[k] = run[k]
  BY <1>1 DEF WorkerDies
<1>3. Running' \subseteq Running \ {j}
  BY <1>2 DEF Running, NotRunning
<1>4. \A k \in DayJobs : \A s : Owes(k, s)' => Owes(k, s)
  <2> TAKE k \in DayJobs
  <2> TAKE s
  <2>1. CASE k = j BY <2>1, <1>2 DEF Owes, Has, NotRunning
  <2>2. CASE k # j BY <2>2, <1>2 DEF Owes
  <2> QED BY <2>1, <2>2
<1>5. DayTypeOK'
  <2>1. \A k \in DayJobs : run'[k].age <= Deadline[k]
    <3> TAKE k \in DayJobs
    <3>1. CASE k = j BY <3>1, <1>2 DEF DayConstantsOK, NotRunning
    <3>2. CASE k # j BY <3>2, <1>2 DEF DayTypeOK
    <3> QED BY <3>1, <3>2
  <2>2. Head(run[j].todo)[2] \in DayLines
    <3>1. run[j].todo \in Seq(DaySteps) /\ run[j].todo # <<>>
      BY <1>1 DEF WorkerDies, Running, RunType
    <3>2. Head(run[j].todo) \in DaySteps BY <3>1
    <3> QED BY <3>2 DEF DaySteps, DayLines
  <2>3. stuck' \subseteq {"equity", "ai"}
    BY <2>2 DEF WorkerDies, DayTypeOK, DayLines
  <2>4. faults' \in 0..MaxFaults /\ marred' \in BOOLEAN
    BY DEF WorkerDies, Mishap, DayTypeOK, DayConstantsOK
  <2> QED BY <1>2, <2>1, <2>3, <2>4 DEF WorkerDies, DayTypeOK, RunType
<1>6. Clocked'
  BY <1>2, <1>3 DEF Clocked, ModeAt, WorkerDies, Running
<1>7. Answered' /\ Apart'
  BY <1>3 DEF Answered, Apart, AccountsOf, WorkerDies
<1>8. Scoped'
  <2>1. \A k \in DayJobs : run'[k].todo \in Seq(Duties(k))
    <3>1. \A S : <<>> \in Seq(S) OBVIOUS
    <3>2. run'[j].todo = <<>> BY <1>2 DEF NotRunning
    <3> QED BY <1>2, <3>1, <3>2 DEF Scoped
  <2>2. "catalyst" \in Running' => run'["catalyst"].mode = "early"
    BY <1>2, <1>3, DayJobsAre DEF Scoped
  <2>3. run'["ai_gated"].mode # "early" => ~Owes("ai_gated", <<"enter", "ai">>)'
    <3>1. CASE j = "ai_gated" BY <3>1, <1>2 DEF NotRunning
    <3>2. CASE j # "ai_gated" BY <3>2, <1>2, <1>4, DayJobsAre DEF Scoped
    <3> QED BY <3>1, <3>2
  <2>4. CancelsFirst(run'["eod_guard"].todo)
    <3>1. CASE j = "eod_guard" BY <3>1, <1>2 DEF NotRunning, CancelsFirst
    <3>2. CASE j # "eod_guard" BY <3>2, <1>2, DayJobsAre DEF Scoped
    <3> QED BY <3>1, <3>2
  <2> QED BY <2>1, <2>2, <2>3, <2>4 DEF Scoped, CancelsFirst
<1>9. RestsExpire'
  <2>1. Late' => Late BY <1>2, <1>3, DayJobsAre DEF Late, WorkerDies
  <2> QED BY <2>1 DEF RestsExpire, Expired, WorkerDies
<1> QED BY <1>5, <1>6, <1>7, <1>8, <1>9 DEF WorkerDies, Mishap

\* The steps of a worker, by what they touch.
LEMMA WorkerKinds ==
    ASSUME NEW j \in DayJobs, WorkerStep(j)
    PROVE  /\ UNCHANGED <<left, due, ran, guarded>>
           /\ \/ \E l \in DayLines : Does(j, "work", l) /\ Work(j)
              \/ Does(j, "cancel", "equity") /\ CancelOrders(j)
              \/ \E l \in DayLines :
                    \/ Does(j, "process", l) /\ ProcessLine(j, l)
                    \/ Does(j, "exit", l) /\ SellLine(j, l)
                    \/ Does(j, "enter", l) /\ Enter(j, l)
BY DEF WorkerStep, Work, CancelOrders, ProcessLine, SellLine, Enter

\* What a step changes beside the worker that takes it.
Filled(l) == held[l] = "none" /\ held' = [held EXCEPT ![l] = "today"]

LEMMA ProcessEffect ==
    ASSUME DayConstantsOK, Basics, NEW j \in DayJobs, NEW l \in DayLines, ProcessLine(j, l)
    PROVE  /\ Went(j) /\ UNCHANGED <<left, due, ran, stuck, guarded, marred, faults>>
           /\ resting' \in [DayLines -> NotResting..Oldest]
           /\ \A k \in DayLines \ {l} : resting'[k] = resting[k]
           /\ Expired(l) => Expired(l)' /\ UNCHANGED held
           /\ held' = held \/ (Filled(l) /\ RetryAllowed(j, l))
           /\ <<"process", l>> \in Duties(j) /\ j \in Running
<1> USE DEF Basics
<1>1. /\ Went(j) /\ UNCHANGED <<left, due, ran, stuck, guarded, marred, faults>>
      /\ Does(j, "process", l)
  BY DEF ProcessLine
<1>2. <<"process", l>> \in Duties(j) /\ j \in Running
  BY <1>1, StepTaken
<1>3. Stale(j, l) \in Nat /\ OrderLife + Stale(j, l) <= Oldest
  <2>1. /\ run[j].age \in Nat /\ run[j].age <= Deadline[j] /\ Deadline[j] \in Nat
        /\ OrderLife \in Nat /\ OrderLife + Deadline[j] <= Oldest /\ Oldest \in Nat
    BY DEF DayTypeOK, DayConstantsOK
  <2> QED BY <2>1 DEF Stale
<1>4. resting \in [DayLines -> NotResting..Oldest] /\ Oldest \in Nat /\ OrderLife \in Nat
  BY Fits DEF DayTypeOK
<1>5. CASE resting[l] = NotResting /\ UNCHANGED <<held, resting>>
  BY <1>1, <1>2, <1>4, <1>5 DEF Expired
<1>6. CASE resting' = [resting EXCEPT ![l] = NotResting] /\ UNCHANGED held
  <2>1. NotResting \in NotResting..Oldest BY <1>4 DEF NotResting
  <2> QED BY <1>1, <1>2, <1>4, <1>6, <2>1 DEF Expired
<1>7. CASE resting[l] # NotResting /\ resting[l] - Stale(j, l) < OrderLife
           /\ RetryAllowed(j, l)
  <2>1. ~Expired(l)
    BY <1>3, <1>4, <1>7 DEF Expired
  <2>2. Stale(j, l) \in NotResting..Oldest /\ NotResting \in NotResting..Oldest
    BY <1>3, <1>4 DEF NotResting
  <2>3. \/ resting' = [resting EXCEPT ![l] = Stale(j, l)] /\ UNCHANGED held
        \/ resting' = [resting EXCEPT ![l] = NotResting] /\ Filled(l)
        \/ resting' = [resting EXCEPT ![l] = NotResting] /\ UNCHANGED held
    BY <1>7 DEF ProcessLine, Filled
  <2>4. /\ resting' \in [DayLines -> NotResting..Oldest]
        /\ \A k \in DayLines \ {l} : resting'[k] = resting[k]
    BY <1>4, <2>2, <2>3
  <2> QED BY <1>1, <1>2, <1>7, <2>1, <2>3, <2>4
<1> QED BY <1>5, <1>6, <1>7 DEF ProcessLine

LEMMA EnterEffect ==
    ASSUME DayConstantsOK, Basics, NEW j \in DayJobs, NEW l \in DayLines, Enter(j, l)
    PROVE  /\ Went(j) /\ UNCHANGED <<left, due, ran, stuck, guarded, marred, faults>>
           /\ resting' \in [DayLines -> NotResting..Oldest]
           /\ \A k \in DayLines \ {l} : resting'[k] = resting[k]
           /\ \/ UNCHANGED <<held, resting>>
              \/ /\ ~Blocked(l) /\ left > Window
                 /\ held' = held \/ Filled(l)
           /\ Owes(j, <<"enter", l>>) /\ <<"enter", l>> \in Duties(j) /\ j \in Running
<1> USE DEF Basics
<1>1. /\ Went(j) /\ UNCHANGED <<left, due, ran, stuck, guarded, marred, faults>>
      /\ Does(j, "enter", l)
  BY DEF Enter
<1>2. Owes(j, <<"enter", l>>) /\ <<"enter", l>> \in Duties(j) /\ j \in Running
  BY <1>1, StepTaken
<1>3. resting \in [DayLines -> NotResting..Oldest] /\ 0 \in NotResting..Oldest
  BY Fits DEF DayTypeOK, NotResting
<1>4. /\ resting' \in [DayLines -> NotResting..Oldest]
      /\ \A k \in DayLines \ {l} : resting'[k] = resting[k]
  BY <1>3 DEF Enter
<1> QED BY <1>1, <1>2, <1>4 DEF Enter, Filled

LEMMA SellEffect ==
    ASSUME DayConstantsOK, Basics, NEW j \in DayJobs, NEW l \in DayLines, SellLine(j, l)
    PROVE  /\ Went(j) /\ UNCHANGED <<left, due, ran, resting, stuck, guarded>>
           /\ held' \in [DayLines -> {"none", "today", "overnight"}]
           /\ \A k \in DayLines \ {l} : held'[k] = held[k]
           /\ held'[l] = "none" \/ held'[l] = held[l]
           /\ faults' \in 0..MaxFaults /\ marred' \in BOOLEAN
           /\ marred => marred'
           /\ ~marred' => held'[l] = "none" \/ l \in stuck \/ ~MustExit(j, l) \/ TooLate(j, l)
<1>1. held \in [DayLines -> {"none", "today", "overnight"}] /\ faults \in 0..MaxFaults
      /\ marred \in BOOLEAN /\ MaxFaults \in Nat
  BY DEF Basics, DayTypeOK, DayConstantsOK
<1>2. Went(j) /\ UNCHANGED <<left, due, ran, resting, stuck, guarded>>
  BY DEF SellLine
<1>3. held' = held \/ held' = [held EXCEPT ![l] = "none"]
  BY DEF SellLine
<1>4. /\ held' \in [DayLines -> {"none", "today", "overnight"}]
      /\ \A k \in DayLines \ {l} : held'[k] = held[k]
      /\ held'[l] = "none" \/ held'[l] = held[l]
  BY <1>1, <1>3
<1>5. faults' \in 0..MaxFaults /\ marred' \in BOOLEAN /\ (marred => marred')
  <2>1. \/ faults' = faults + 1 /\ faults < MaxFaults /\ marred' = TRUE
        \/ faults' = faults /\ marred' = marred
    BY DEF SellLine, Mishap, NoMishap
  <2>2. faults' \in 0..MaxFaults BY <1>1, <2>1
  <2> QED BY <1>1, <2>1, <2>2
<1>6. ~marred' => held'[l] = "none" \/ l \in stuck \/ ~MustExit(j, l) \/ TooLate(j, l)
  BY <1>1 DEF SellLine, Mishap
<1> QED BY <1>2, <1>4, <1>5, <1>6

LEMMA CancelEffect ==
    ASSUME DayConstantsOK, Basics, NEW j \in DayJobs, CancelOrders(j)
    PROVE  /\ Went(j) /\ UNCHANGED <<left, due, ran, held, guarded, marred, faults>>
           /\ resting' \in [DayLines -> NotResting..Oldest]
           /\ \A k \in DayLines : resting'[k] \in {NotResting, resting[k]}
           /\ resting'["ai"] = resting["ai"]
           /\ stuck' \subseteq stuck /\ stuck \ stuck' \subseteq {"equity", "option"}
           /\ run[j].mode = "preclose" => "equity" \notin stuck'
           /\ j = "eod_guard" /\ Owes(j, <<"exit", "equity">>)'
<1> USE DEF Basics
<1>1. Does(j, "cancel", "equity") /\ Went(j)
  BY DEF CancelOrders
<1>2. /\ <<"cancel", "equity">> \in Duties(j) /\ Owes(j, <<"cancel", "equity">>)
      /\ \A k \in DayJobs : \A s :
            Owes(k, s) /\ (k # j \/ s # <<"cancel", "equity">>) => Owes(k, s)'
  BY <1>1, StepTaken
<1>3. j = "eod_guard"
  BY <1>2, DayJobsAre DEF Duties
<1>4. Owes(j, <<"exit", "equity">>)
  <2>1. Len(run[j].todo) = 6 /\ run[j].todo[2] = <<"exit", "equity">>
    BY <1>2, <1>3 DEF Owes, Has, Scoped, CancelsFirst
  <2>2. 2 \in 1..Len(run[j].todo) BY <2>1
  <2> QED BY <2>1, <2>2 DEF Owes, Has
<1>5. Owes(j, <<"exit", "equity">>)'
  BY <1>2, <1>4
<1>6. resting' \in [DayLines -> NotResting..Oldest]
      /\ (\A k \in DayLines : resting'[k] \in {NotResting, resting[k]})
      /\ resting'["ai"] = resting["ai"]
  <2>1. NotResting \in NotResting..Oldest BY Fits DEF NotResting
  <2> QED BY <2>1 DEF CancelOrders, DayTypeOK, DayLines
<1>7. /\ stuck' \subseteq stuck /\ stuck \ stuck' \subseteq {"equity", "option"}
      /\ run[j].mode = "preclose" => "equity" \notin stuck'
  BY DEF CancelOrders
<1> QED BY <1>1, <1>3, <1>5, <1>6, <1>7 DEF CancelOrders

LEMMA StepBasics ==
    ASSUME DayConstantsOK, Basics, NEW j \in DayJobs, WorkerStep(j)
    PROVE  Basics'
<1> USE DEF Basics
<1>1. UNCHANGED <<left, due, ran, guarded>>
  BY WorkerKinds
<1>2. PICK what, l : Does(j, what, l) /\ Went(j)
  BY DEF WorkerStep, Work, CancelOrders, ProcessLine, SellLine, Enter
<1>3. /\ run' \in [DayJobs -> RunType]
      /\ \A k \in DayJobs : run'[k].mode = run[k].mode /\ run'[k].age = run[k].age
      /\ \A k \in DayJobs : run'[k].todo \in Seq(Duties(k))
      /\ Running' \subseteq Running /\ j \in Running
      /\ \A k \in DayJobs : \A s : Owes(k, s)' => Owes(k, s)
      /\ CancelsFirst(run["eod_guard"].todo)'
  BY <1>2, StepTaken
<1>4. Clocked' /\ Answered' /\ Apart'
  BY <1>1, <1>3 DEF Clocked, Answered, Apart, ModeAt, AccountsOf, Running
<1>5. Scoped'
  BY <1>3, DayJobsAre DEF Scoped
<1>6. Late' => Late
  BY <1>1, <1>3, DayJobsAre DEF Late
<1>7. ASSUME NEW m \in DayLines, Does(j, "work", m), Work(j) PROVE DayTypeOK' /\ RestsExpire'
  BY <1>3, <1>6, <1>7 DEF Work, DayTypeOK, RunType, RestsExpire, Expired
<1>8. ASSUME CancelOrders(j) PROVE DayTypeOK' /\ RestsExpire'
  <2>1. /\ UNCHANGED <<left, due, ran, held, guarded, marred, faults>>
        /\ resting' \in [DayLines -> NotResting..Oldest]
        /\ \A k \in DayLines : resting'[k] \in {NotResting, resting[k]}
        /\ stuck' \subseteq stuck
    BY <1>8, CancelEffect
  <2>2. DayTypeOK' BY <1>3, <2>1 DEF DayTypeOK, RunType
  <2>3. RestsExpire' BY <1>6, <2>1 DEF RestsExpire, Expired, DayLines
  <2> QED BY <2>2, <2>3
<1>9. ASSUME NEW m \in DayLines, ProcessLine(j, m) PROVE DayTypeOK' /\ RestsExpire'
  <2>1. /\ UNCHANGED <<left, due, ran, stuck, guarded, marred, faults>>
        /\ resting' \in [DayLines -> NotResting..Oldest]
        /\ \A k \in DayLines \ {m} : resting'[k] = resting[k]
        /\ Expired(m) => Expired(m)' /\ UNCHANGED held
        /\ held' = held \/ Filled(m)
    BY <1>9, ProcessEffect
  <2>2. held \in [DayLines -> {"none", "today", "overnight"}] BY DEF DayTypeOK
  <2>3. DayTypeOK' BY <1>3, <2>1, <2>2 DEF DayTypeOK, RunType, Filled
  <2>4. \A k \in DayLines : Expired(k) => Expired(k)'
    BY <2>1 DEF Expired
  <2>5. \A k \in DayLines : held'[k] = "overnight" => held[k] = "overnight"
    BY <2>1, <2>2 DEF Filled
  <2>6. Expired("ai") /\ held["ai"] # "today" => held'["ai"] # "today"
    <3>1. CASE m = "ai" BY <3>1, <2>1
    <3>2. CASE m # "ai" BY <3>2, <2>1, <2>2 DEF Filled, DayLines
    <3> QED BY <3>1, <3>2
  <2>7. RestsExpire' BY <1>6, <2>4, <2>5, <2>6 DEF RestsExpire, DayLines
  <2> QED BY <2>3, <2>7
<1>10. ASSUME NEW m \in DayLines, SellLine(j, m) PROVE DayTypeOK' /\ RestsExpire'
  <2>1. /\ UNCHANGED <<left, due, ran, resting, stuck, guarded>>
        /\ held' \in [DayLines -> {"none", "today", "overnight"}]
        /\ \A k \in DayLines \ {m} : held'[k] = held[k]
        /\ held'[m] = "none" \/ held'[m] = held[m]
        /\ faults' \in 0..MaxFaults /\ marred' \in BOOLEAN
    BY <1>10, SellEffect
  <2>2. DayTypeOK' BY <1>3, <2>1 DEF DayTypeOK, RunType
  <2>3. \A k \in DayLines : held'[k] = "none" \/ held'[k] = held[k] BY <2>1
  <2>4. RestsExpire' BY <1>6, <2>1, <2>3 DEF RestsExpire, Expired, DayLines
  <2> QED BY <2>2, <2>4
<1>11. ASSUME NEW m \in DayLines, Enter(j, m) PROVE DayTypeOK' /\ RestsExpire'
  <2>1. /\ UNCHANGED <<left, due, ran, stuck, guarded, marred, faults>>
        /\ resting' \in [DayLines -> NotResting..Oldest]
        /\ \A k \in DayLines \ {m} : resting'[k] = resting[k]
        /\ \/ UNCHANGED <<held, resting>>
           \/ ~Blocked(m) /\ (held' = held \/ Filled(m))
        /\ Owes(j, <<"enter", m>>) /\ <<"enter", m>> \in Duties(j)
    BY <1>11, EnterEffect
  <2>2. held \in [DayLines -> {"none", "today", "overnight"}] BY DEF DayTypeOK
  <2>3. DayTypeOK' BY <1>3, <2>1, <2>2 DEF DayTypeOK, RunType, Filled
  <2>4. CASE UNCHANGED <<held, resting>>
    BY <2>3, <2>4, <1>6 DEF RestsExpire, Expired
  <2>5. CASE ~Blocked(m) /\ (held' = held \/ Filled(m)) /\ m # "ai"
    <3>1. held["equity"] # "overnight" /\ held["option"] # "overnight"
      BY <2>5 DEF Blocked, Account
    <3>2. held'["equity"] # "overnight" /\ held'["option"] # "overnight"
          /\ held'["ai"] = held["ai"] /\ resting'["ai"] = resting["ai"]
      BY <2>1, <2>2, <2>5, <3>1 DEF Filled, DayLines
    <3> QED BY <2>3, <3>2, <1>6 DEF RestsExpire, Expired
  <2>6. CASE (held' = held \/ Filled(m)) /\ m = "ai"
    <3>1. j = "ai_gated"
      BY <2>1, <2>6, DayJobsAre DEF Duties, DayLines
    <3>2. ~Late
      BY <2>1, <2>6, <3>1, <1>3 DEF Late, Scoped, Answered, HourlyJobs
    <3>3. \A k \in {"equity", "option"} : held'[k] = held[k] /\ resting'[k] = resting[k]
      BY <2>1, <2>2, <2>6 DEF Filled, DayLines
    <3> QED BY <2>3, <3>2, <3>3, <1>6 DEF RestsExpire, Expired
  <2> QED BY <2>1, <2>4, <2>5, <2>6
<1>12. DayTypeOK' /\ RestsExpire'
  BY <1>7, <1>8, <1>9, <1>10, <1>11, WorkerKinds
<1> QED BY <1>4, <1>5, <1>12

LEMMA BasicsStep == DayConstantsOK /\ Basics /\ [DayNext]_dayVars => Basics'
<1> SUFFICES ASSUME DayConstantsOK, Basics, [DayNext]_dayVars PROVE Basics'
  OBVIOUS
<1>1. CASE UnitPasses BY <1>1, TickBasics
<1>2. CASE NewDay BY <1>2, NewDayBasics
<1>3. CASE \E j \in DayJobs : StartJob(j) BY <1>3, StartBasics
<1>4. CASE \E j \in DayJobs : SkipJob(j) BY <1>4, SkipBasics
<1>5. CASE \E j \in DayJobs : WorkerDies(j) BY <1>5, DiesBasics
<1>6. CASE \E j \in DayJobs : WorkerStep(j) BY <1>6, StepBasics
<1>7. CASE UNCHANGED dayVars
  <2> USE <1>7 DEF dayVars
  <2>1. Running' = Running BY DEF Running
  <2>2. DayTypeOK' BY DEF Basics, DayTypeOK
  <2>3. Clocked' /\ Answered' /\ Apart'
    BY <2>1 DEF Basics, Clocked, ModeAt, Answered, Apart, AccountsOf
  <2>4. Scoped' BY <2>1 DEF Basics, Scoped, Owes, CancelsFirst
  <2>5. RestsExpire' BY <2>1 DEF Basics, RestsExpire, Late, Expired
  <2> QED BY <2>2, <2>3, <2>4, <2>5 DEF Basics
<1> QED BY <1>1, <1>2, <1>3, <1>4, <1>5, <1>6, <1>7 DEF DayNext

\* At every moment each worker holds accounts of its own, runs by the clock of the
\* market and has only steps of its program left, and the orders that rest beside a
\* position of an earlier day are of an earlier day themselves.
THEOREM DayBasics ==
    ASSUME DayConstantsOK
    PROVE  DaySpec => []Basics
<1>1. DayInit => Basics BY InitBasics
<1>2. Basics /\ [DayNext]_dayVars => Basics' BY BasicsStep
<1> QED BY <1>1, <1>2, PTL DEF DaySpec

\* Nothing is bought for an account that still holds a position of an earlier day: a
\* new entry is blocked, and an order that rests there has expired (_entry_block_reason
\* and process_open_orders), whichever workers died and however the jobs interleave.
THEOREM NoEntryInRecoveryHolds ==
    ASSUME DayConstantsOK
    PROVE  DaySpec => NoEntryInRecovery
<1> DEFINE Unmixed ==
        \A l \in DayLines : held[l] = "none" /\ held'[l] = "today" =>
            \A k \in Account(l) : held[k] # "overnight"
<1>1. Basics /\ [DayNext]_dayVars => [Unmixed]_dayVars
  <2> SUFFICES ASSUME Basics, DayNext, NEW l \in DayLines,
                      held[l] = "none", held'[l] = "today",
                      NEW k \in Account(l), held[k] = "overnight"
               PROVE  FALSE
    OBVIOUS
  <2>1. held \in [DayLines -> {"none", "today", "overnight"}] BY DEF Basics, DayTypeOK
  <2>2. l # "ai" /\ k \in {"equity", "option"}
    BY DEF Account
  <2>3. Expired(l) BY <2>2 DEF Basics, RestsExpire, DayLines
  <2>4. ASSUME NEW j \in DayJobs, NEW m \in DayLines, ProcessLine(j, m) PROVE FALSE
    <3>1. (held' = held \/ Filled(m)) /\ (Expired(m) => UNCHANGED held)
      BY <2>4, ProcessEffect
    <3> QED BY <2>1, <2>3, <3>1 DEF Filled
  <2>5. ASSUME NEW j \in DayJobs, NEW m \in DayLines, Enter(j, m) PROVE FALSE
    <3>1. UNCHANGED held \/ (~Blocked(m) /\ (held' = held \/ Filled(m)))
      BY <2>5, EnterEffect
    <3>2. m = l BY <2>1, <3>1 DEF Filled
    <3> QED BY <3>1, <3>2 DEF Blocked
  <2>6. ASSUME NEW j \in DayJobs, NEW m \in DayLines, SellLine(j, m) PROVE FALSE
    <3>1. /\ \A i \in DayLines \ {m} : held'[i] = held[i]
          /\ held'[m] = "none" \/ held'[m] = held[m]
      BY <2>6, SellEffect
    <3> QED BY <3>1
  <2>7. CASE NewDay BY <2>1, <2>7 DEF NewDay
  <2>8. UNCHANGED held \/ NewDay \/ \E j \in DayJobs, m \in DayLines :
            ProcessLine(j, m) \/ Enter(j, m) \/ SellLine(j, m)
    BY DEF DayNext, UnitPasses, StartJob, SkipJob, WorkerDies, WorkerStep, Work, CancelOrders
  <2> QED BY <2>4, <2>5, <2>6, <2>7, <2>8
<1>2. [][Unmixed]_dayVars => NoEntryInRecovery
  BY PTL DEF NoEntryInRecovery
<1> QED BY <1>1, <1>2, DayBasics, PTL DEF DaySpec

-----------------------------------------------------------------------------
(* The accounts are flat at the close *)

Sold(l) == held[l] = "none" \/ l \in stuck

\* Whose program before the close sells what of the shares.
Seller(j, l) ==
    \/ j \in {"forward", "eod_guard"} /\ l = "equity"
    \/ j \in {"ai_monitor", "eod_guard"} /\ l = "ai"

\* A worker that started before the close still has to sell, or has sold.
SellsBeforeClose ==
    ~marred =>
        \A j \in Running, l \in DayLines :
            Seller(j, l) /\ run[j].mode = "preclose" => Owes(j, <<"exit", l>>) \/ Sold(l)

\* So does every job of the sleeve with a position of an earlier day.
AiJobs == {"ai_monitor", "ai_gated", "eod_guard"}
Recovered == held["ai"] # "overnight" \/ "ai" \in stuck
Recovers == ~marred => \A j \in Running \cap AiJobs : Owes(j, <<"exit", "ai">>) \/ Recovered

\* From the moment that the last trigger of a job was answered, started or skipped.
LastUnit(j) == left = 0 \/ (left = 1 /\ j \notin due)

EquitySold ==
    ~marred /\ LastUnit("forward") =>
        Sold("equity") \/ \E j \in {"forward", "eod_guard"} : Owes(j, <<"exit", "equity">>)

AiSold ==
    ~marred /\ LastUnit("ai_monitor") =>
        \/ Sold("ai") \/ held["ai"] = "overnight"
        \/ \E j \in {"ai_monitor", "eod_guard"} : Owes(j, <<"exit", "ai">>)

\* The sleeve sells a position of an earlier day at the first trigger of its monitor, or
\* whoever kept the monitor out does.
AiRecovered ==
    ~marred =>
        \/ Recovered \/ left = Open \/ (left = Open - 1 /\ "ai_monitor" \in due)
        \/ \E j \in AiJobs : Owes(j, <<"exit", "ai">>) /\ left + run[j].age >= Open - 1

Guarded ==
    guarded =>
        /\ left <= Window
        /\ "forward" \in Running => run["forward"].mode = "preclose"
        /\ \/ marred \/ held["option"] = "none"
           \/ Owes("eod_guard", <<"exit", "option">>) /\ run["eod_guard"].mode = "preclose"
        /\ \/ marred \/ held["equity"] = "none"
           \/ /\ Owes("eod_guard", <<"exit", "equity">>) /\ run["eod_guard"].mode = "preclose"
              /\ "equity" \notin stuck \/ Owes("eod_guard", <<"cancel", "equity">>)

DayIInv ==
    /\ Basics /\ SellsBeforeClose /\ Recovers
    /\ EquitySold /\ AiSold /\ AiRecovered /\ Guarded

LEMMA OwesRuns ==
    ASSUME Basics, NEW j \in DayJobs, NEW s, Owes(j, s)
    PROVE  j \in Running
<1>1. run[j].todo \in Seq(Duties(j)) BY DEF Basics, Scoped
<1>2. run[j].todo # <<>> BY <1>1 DEF Owes, Has
<1> QED BY <1>2 DEF Running

\* What the deadlines say of the workers that are still there in the last unit.
LEMMA Hours ==
    ASSUME DayConstantsOK, InTime, Basics, NEW j \in Running
    PROVE  /\ left \in Nat /\ Window >= 1 /\ Open >= 2 /\ Window <= Open
           /\ run[j].age \in Nat
           /\ run[j].mode = "preclose" => left <= Window
           /\ j \in {"ai_monitor", "eod_guard"} => left >= 1 /\ run[j].age = 0
           /\ j \in {"ai_monitor", "eod_guard", "forward"} /\ left <= 1 =>
                run[j].mode = "preclose"
           /\ j \in {"ai_gated", "catalyst"} /\ left <= 1 => run[j].mode # "early"
           /\ j \in AiJobs /\ left + run[j].age >= Open - 1 => left >= 1
<1>1. j \in DayJobs BY DEF Running
<1>2. /\ left \in Nat /\ run[j].age \in Nat /\ Deadline[j] \in Nat /\ run[j].age <= Deadline[j]
      /\ Open \in Nat /\ Window \in 1..Open /\ Cutoff \in Window..Open
  BY <1>1 DEF Basics, DayTypeOK, DayConstantsOK
<1>3. left + run[j].age >= 1 /\ run[j].mode = ModeAt(left + run[j].age)
  BY <1>2 DEF Basics, Clocked
<1>4. /\ j \in {"ai_monitor", "eod_guard"} => Deadline[j] = 0
      /\ j = "forward" => Deadline[j] < Window
      /\ j \in {"ai_gated", "catalyst"} => Deadline[j] < Cutoff
      /\ Cutoff < Open
  BY DEF InTime
<1>5. /\ run[j].mode = "preclose" => left + run[j].age <= Window
      /\ left + run[j].age <= Window => run[j].mode = "preclose"
      /\ left + run[j].age <= Cutoff => run[j].mode # "early"
  <2>1. left + run[j].age \in Int /\ Window \in Int /\ Cutoff \in Int /\ Window <= Cutoff
    BY <1>2
  <2> QED BY <1>3, <2>1 DEF ModeAt
<1>6. run[j].mode = "preclose" => left <= Window
  BY <1>2, <1>5
<1>7. j \in {"ai_monitor", "eod_guard"} => left >= 1 /\ run[j].age = 0
  BY <1>2, <1>3, <1>4
<1>8. j \in {"ai_monitor", "eod_guard"} /\ left <= 1 => run[j].mode = "preclose"
  BY <1>2, <1>5, <1>7
<1>9. j = "forward" /\ left <= 1 => run[j].mode = "preclose"
  BY <1>2, <1>4, <1>5
<1>10. j \in {"ai_gated", "catalyst"} /\ left <= 1 => run[j].mode # "early"
  BY <1>2, <1>4, <1>5
<1>11. j \in AiJobs /\ left + run[j].age >= Open - 1 => left >= 1
  BY <1>2, <1>4, <1>7 DEF AiJobs
<1>12. Window >= 1 /\ Open >= 2 /\ Window <= Open
  BY <1>2, <1>4
<1> QED BY <1>2, <1>6, <1>7, <1>8, <1>9, <1>10, <1>11, <1>12

\* All that the rest of the proof needs to know of a worker's step.
LEMMA StepMoves ==
    ASSUME DayConstantsOK, Basics, NEW j \in DayJobs, WorkerStep(j)
    PROVE  /\ UNCHANGED <<left, due, ran, guarded>> /\ (marred => marred')
           /\ Running' \subseteq Running /\ j \in Running
           /\ \A k \in DayJobs : run'[k].mode = run[k].mode /\ run'[k].age = run[k].age
           /\ \A l \in DayLines :
                \/ held'[l] \in {held[l], "none"}
                \/ /\ held[l] = "none" /\ held'[l] = "today"
                   /\ \/ left > Window
                      \/ /\ <<"process", l>> \in Duties(j) /\ ~Expired(l)
                         /\ RetryAllowed(j, l)
           /\ stuck' \subseteq stuck /\ stuck \ stuck' \subseteq {"equity", "option"}
           /\ stuck' # stuck => j = "eod_guard" /\ Owes(j, <<"exit", "equity">>)'
           /\ \A k \in DayJobs, l \in DayLines :
                Owes(k, <<"exit", l>>) =>
                    \/ Owes(k, <<"exit", l>>)'
                    \/ /\ k = j
                       /\ \/ marred' \/ held'[l] = "none" \/ (l \in stuck /\ l \in stuck')
                          \/ (held'[l] = held[l] /\ ~MustExit(k, l))
                          \/ TooLate(k, l)
           /\ Owes("eod_guard", <<"cancel", "equity">>) =>
                \/ j # "eod_guard" /\ Owes("eod_guard", <<"cancel", "equity">>)'
                \/ /\ j = "eod_guard" /\ Owes(j, <<"exit", "equity">>)'
                   /\ run[j].mode = "preclose" => "equity" \notin stuck'
<1>1. UNCHANGED <<left, due, ran, guarded>>
  BY WorkerKinds
<1>2. PICK what, m : Does(j, what, m) /\ Went(j)
  BY DEF WorkerStep, Work, CancelOrders, ProcessLine, SellLine, Enter
<1>3. /\ \A k \in DayJobs : run'[k].mode = run[k].mode /\ run'[k].age = run[k].age
      /\ Running' \subseteq Running /\ j \in Running
      /\ \A k \in DayJobs : \A s : Owes(k, s) /\ (k # j \/ s # <<what, m>>) => Owes(k, s)'
      /\ j = "eod_guard" => ~Owes(j, <<"cancel", "equity">>)'
  BY <1>2, StepTaken DEF Basics
<1>4. held \in [DayLines -> {"none", "today", "overnight"}] /\ marred \in BOOLEAN
  BY DEF Basics, DayTypeOK
<1>5. Owes("eod_guard", <<"cancel", "equity">>) =>
        \/ j # "eod_guard" /\ Owes("eod_guard", <<"cancel", "equity">>)'
        \/ j = "eod_guard" /\ <<what, m>> = <<"cancel", "equity">>
  BY <1>3, DayJobsAre
<1>6. ASSUME NEW u \in DayLines, Does(j, "work", u), Work(j)
      PROVE  /\ UNCHANGED <<held, stuck, marred>> /\ <<what, m>> = <<"work", u>>
  BY <1>2, <1>6 DEF Work, Does
<1>7. ASSUME CancelOrders(j)
      PROVE  /\ UNCHANGED <<held, marred>> /\ <<what, m>> = <<"cancel", "equity">>
             /\ stuck' \subseteq stuck /\ stuck \ stuck' \subseteq {"equity", "option"}
             /\ run[j].mode = "preclose" => "equity" \notin stuck'
             /\ j = "eod_guard" /\ Owes(j, <<"exit", "equity">>)'
  <2>1. <<what, m>> = <<"cancel", "equity">> BY <1>2, <1>7 DEF CancelOrders, Does
  <2> QED BY <1>7, <2>1, CancelEffect
<1>8. ASSUME NEW u \in DayLines, ProcessLine(j, u)
      PROVE  /\ UNCHANGED <<stuck, marred>> /\ <<what, m>> = <<"process", u>>
             /\ \A l \in DayLines :
                    \/ held'[l] = held[l]
                    \/ /\ held[l] = "none" /\ held'[l] = "today"
                       /\ <<"process", l>> \in Duties(j) /\ ~Expired(l) /\ RetryAllowed(j, l)
  <2>1. <<what, m>> = <<"process", u>> BY <1>2, <1>8 DEF ProcessLine, Does
  <2>2. /\ UNCHANGED <<stuck, marred>>
        /\ Expired(u) => UNCHANGED held
        /\ held' = held \/ (Filled(u) /\ RetryAllowed(j, u))
        /\ <<"process", u>> \in Duties(j)
    BY <1>8, ProcessEffect
  <2>3. CASE held' = held BY <2>1, <2>2, <2>3
  <2>4. CASE Filled(u) /\ RetryAllowed(j, u) /\ held' # held
    <3>1. ~Expired(u) BY <2>2, <2>4
    <3>2. held[u] = "none" /\ held'[u] = "today" /\ \A l \in DayLines \ {u} : held'[l] = held[l]
      BY <1>4, <2>4 DEF Filled
    <3> QED BY <2>1, <2>2, <2>4, <3>1, <3>2
  <2> QED BY <2>2, <2>3, <2>4
<1>9. ASSUME NEW u \in DayLines, SellLine(j, u)
      PROVE  /\ UNCHANGED stuck /\ (marred => marred') /\ <<what, m>> = <<"exit", u>>
             /\ \A l \in DayLines : held'[l] \in {held[l], "none"}
             /\ \/ marred' \/ held'[u] = "none" \/ u \in stuck
                \/ (held'[u] = held[u] /\ ~MustExit(j, u)) \/ TooLate(j, u)
  <2>1. <<what, m>> = <<"exit", u>> BY <1>2, <1>9 DEF SellLine, Does
  <2>2. /\ UNCHANGED stuck /\ (marred => marred')
        /\ \A k \in DayLines \ {u} : held'[k] = held[k]
        /\ held'[u] = "none" \/ held'[u] = held[u]
        /\ ~marred' => held'[u] = "none" \/ u \in stuck \/ ~MustExit(j, u) \/ TooLate(j, u)
        /\ marred' \in BOOLEAN
    BY <1>9, SellEffect
  <2>3. \A l \in DayLines : held'[l] \in {held[l], "none"} BY <2>2
  <2> QED BY <2>1, <2>2, <2>3
<1>10. ASSUME NEW u \in DayLines, Enter(j, u)
      PROVE  /\ UNCHANGED <<stuck, marred>> /\ <<what, m>> = <<"enter", u>>
             /\ \A l \in DayLines :
                    \/ held'[l] = held[l]
                    \/ held[l] = "none" /\ held'[l] = "today" /\ left > Window
  <2>1. <<what, m>> = <<"enter", u>> BY <1>2, <1>10 DEF Enter, Does
  <2>2. /\ UNCHANGED <<stuck, marred>>
        /\ held' = held \/ (left > Window /\ Filled(u))
    BY <1>10, EnterEffect
  <2> QED BY <1>4, <2>1, <2>2 DEF Filled
<1>11. \A k \in DayJobs, l \in DayLines :
          Owes(k, <<"exit", l>>) =>
                Owes(k, <<"exit", l>>)' \/ (k = j /\ <<what, m>> = <<"exit", l>>)
  BY <1>3
<1>12. CASE \E u \in DayLines : Does(j, "work", u) /\ Work(j)
  <2>1. UNCHANGED <<held, stuck, marred>> /\ what = "work" BY <1>6, <1>12
  <2> QED BY <1>1, <1>3, <1>5, <1>11, <2>1
<1>13. CASE CancelOrders(j)
  <2>1. what = "cancel" BY <1>7, <1>13
  <2> QED BY <1>1, <1>3, <1>5, <1>7, <1>11, <1>13, <2>1
<1>14. CASE \E u \in DayLines : ProcessLine(j, u)
  <2>1. PICK u \in DayLines : ProcessLine(j, u) BY <1>14
  <2>2. what = "process" BY <1>8, <2>1
  <2> QED BY <1>1, <1>3, <1>5, <1>8, <1>11, <2>1, <2>2
<1>15. CASE \E u \in DayLines : SellLine(j, u)
  <2>1. PICK u \in DayLines : SellLine(j, u) BY <1>15
  <2>2. what = "exit" /\ m = u BY <1>9, <2>1
  <2> QED BY <1>1, <1>3, <1>5, <1>9, <1>11, <2>1, <2>2
<1>16. CASE \E u \in DayLines : Enter(j, u)
  <2>1. PICK u \in DayLines : Enter(j, u) BY <1>16
  <2>2. what = "enter" BY <1>10, <2>1
  <2> QED BY <1>1, <1>3, <1>5, <1>10, <1>11, <2>1, <2>2
<1> QED BY <1>12, <1>13, <1>14, <1>15, <1>16, WorkerKinds

\* Two workers do not hold an account together.
LEMMA SoleSeller ==
    ASSUME Basics, NEW j \in Running, NEW k \in Running, NEW l \in DayLines,
           Seller(k, l), <<"process", l>> \in Duties(j) \/ (j = "eod_guard" /\ l # "option")
    PROVE  j = k
<1>1. j \in DayJobs /\ k \in DayJobs BY DEF Running
<1>2. l = "equity" => j \in {"forward", "eod_guard"}
  BY <1>1, DayJobsAre DEF Duties, DayLines
<1>3. l = "ai" => j \in {"ai_monitor", "ai_gated", "eod_guard"}
  BY <1>1, DayJobsAre DEF Duties, DayLines
<1>4. \/ "main_account" \in AccountsOf(j) /\ "main_account" \in AccountsOf(k)
      \/ "ai_account" \in AccountsOf(j) /\ "ai_account" \in AccountsOf(k)
  BY <1>2, <1>3 DEF Seller, AccountsOf, DayLines
<1> QED BY <1>4 DEF Basics, Apart

LEMMA ProcessorsAre ==
    \A j \in DayJobs :
        /\ <<"process", "equity">> \in Duties(j) => j = "forward"
        /\ <<"process", "ai">> \in Duties(j) => j \in AiJobs
BY DayJobsAre DEF Duties, DayLines, AiJobs

LEMMA StepSells ==
    ASSUME DayConstantsOK, InTime, DayIInv, NEW j \in DayJobs, WorkerStep(j)
    PROVE  SellsBeforeClose'
<1> SUFFICES ASSUME ~marred', NEW k \in Running', NEW l \in DayLines, Seller(k, l),
                    run'[k].mode = "preclose"
             PROVE  Owes(k, <<"exit", l>>)' \/ Sold(l)'
  BY DEF SellsBeforeClose, Seller
<1> USE DEF DayIInv
<1>1. /\ k \in Running /\ k \in DayJobs /\ j \in Running /\ run[k].mode = "preclose" /\ ~marred
  BY StepMoves DEF Running
<1>2. left <= Window /\ left \in Nat /\ Window \in Nat
      /\ (k \in {"ai_monitor", "eod_guard"} => left >= 1)
  BY <1>1, Hours DEF DayConstantsOK
<1>3. Owes(k, <<"exit", l>>) \/ Sold(l)
  BY <1>1 DEF SellsBeforeClose
<1>4. held \in [DayLines -> {"none", "today", "overnight"}]
  BY DEF Basics, DayTypeOK
<1>5. CASE Owes(k, <<"exit", l>>)
  <2>1. ~TooLate(k, l) BY <1>2 DEF TooLate, Seller
  <2>2. held[l] # "none" => MustExit(k, l) BY <1>1 DEF MustExit, Seller
  <2> QED BY <1>1, <1>5, <2>1, <2>2, StepMoves DEF Sold
<1>6. CASE held[l] = "none"
  <2>1. \/ held'[l] = "none"
        \/ <<"process", l>> \in Duties(j) /\ RetryAllowed(j, l)
    BY <1>2, <1>6, StepMoves
  <2>2. ASSUME <<"process", l>> \in Duties(j), RetryAllowed(j, l) PROVE FALSE
    <3>1. j = k BY <1>1, <2>2, SoleSeller
    <3> QED BY <1>1, <2>2, <3>1 DEF RetryAllowed, Seller
  <2> QED BY <2>1, <2>2 DEF Sold
<1>7. CASE l \in stuck
  <2>1. CASE l \in stuck' BY <2>1 DEF Sold
  <2>2. CASE l \notin stuck'
    <3>1. /\ j = "eod_guard" /\ Owes(j, <<"exit", "equity">>)' /\ l \in {"equity", "option"}
      BY <1>7, <2>2, StepMoves
    <3>2. l = "equity" BY <3>1 DEF Seller
    <3>3. j = k BY <1>1, <3>1, <3>2, SoleSeller
    <3> QED BY <3>1, <3>2, <3>3
  <2> QED BY <2>1, <2>2
<1> QED BY <1>3, <1>5, <1>6, <1>7 DEF Sold

LEMMA StepRecovers ==
    ASSUME DayConstantsOK, InTime, DayIInv, NEW j \in DayJobs, WorkerStep(j)
    PROVE  Recovers'
<1> SUFFICES ASSUME ~marred', NEW k \in Running', k \in AiJobs
             PROVE  Owes(k, <<"exit", "ai">>)' \/ Recovered'
  BY DEF Recovers, AiJobs
<1> USE DEF DayIInv
<1>1. k \in Running /\ k \in DayJobs /\ ~marred /\ "ai" \in DayLines
  BY StepMoves DEF Running, DayLines
<1>2. Recovered => Recovered'
  BY <1>1, StepMoves DEF Recovered
<1>3. CASE Owes(k, <<"exit", "ai">>) /\ ~Recovered
  <2>1. MustExit(k, "ai") BY <1>3 DEF MustExit, Recovered, AiJobs
  <2>2. left # 0
    <3>1. PICK m \in AiJobs : \/ left = Open \/ left = Open - 1
                              \/ Owes(m, <<"exit", "ai">>) /\ left + run[m].age >= Open - 1
      BY <1>1, <1>3 DEF AiRecovered, AiJobs
    <3>2. m \in DayJobs BY DayJobsAre DEF AiJobs
    <3>3. left = Open \/ left = Open - 1 => left # 0 BY <1>1, Hours DEF DayConstantsOK
    <3> QED BY <3>1, <3>2, <3>3, OwesRuns, Hours
  <2> QED BY <1>1, <1>3, <2>1, <2>2, StepMoves DEF TooLate, Recovered
<1> QED BY <1>1, <1>2, <1>3 DEF Recovers

LEMMA StepEquitySold ==
    ASSUME DayConstantsOK, InTime, DayIInv, NEW j \in DayJobs, WorkerStep(j)
    PROVE  EquitySold'
<1> SUFFICES ASSUME ~marred', LastUnit("forward")'
             PROVE  \/ Sold("equity")'
                    \/ \E k \in {"forward", "eod_guard"} : Owes(k, <<"exit", "equity">>)'
  BY DEF EquitySold
<1> USE DEF DayIInv
<1>1. ~marred /\ LastUnit("forward") /\ j \in Running /\ left <= 1 /\ "equity" \in DayLines
  BY StepMoves DEF LastUnit, DayLines
<1>2. /\ Sold("equity") \/ \E k \in {"forward", "eod_guard"} : Owes(k, <<"exit", "equity">>)
      /\ left \in Nat /\ Window >= 1 /\ Window \in Nat
  BY <1>1, Hours DEF EquitySold, DayConstantsOK
<1>3. ASSUME NEW k \in {"forward", "eod_guard"}, Owes(k, <<"exit", "equity">>)
      PROVE  Owes(k, <<"exit", "equity">>)' \/ Sold("equity")'
  <2>1. k \in DayJobs /\ k \in Running BY <1>3, DayJobsAre, OwesRuns
  <2>2. run[k].mode = "preclose" /\ ~TooLate(k, "equity")
    BY <1>1, <2>1, Hours DEF TooLate
  <2>3. held["equity"] # "none" => MustExit(k, "equity") BY <2>2 DEF MustExit
  <2> QED BY <1>1, <1>3, <2>1, <2>2, <2>3, StepMoves DEF Sold
<1>4. CASE held["equity"] = "none"
  <2>1. \/ held'["equity"] = "none"
        \/ <<"process", "equity">> \in Duties(j) /\ RetryAllowed(j, "equity")
    BY <1>1, <1>2, <1>4, StepMoves
  <2>2. <<"process", "equity">> \in Duties(j) => run[j].mode = "preclose"
    BY <1>1, ProcessorsAre, Hours
  <2> QED BY <2>1, <2>2 DEF Sold, RetryAllowed
<1>5. CASE "equity" \in stuck
  BY <1>5, StepMoves DEF Sold
<1> QED BY <1>2, <1>3, <1>4, <1>5 DEF Sold

LEMMA StepAiSold ==
    ASSUME DayConstantsOK, InTime, DayIInv, NEW j \in DayJobs, WorkerStep(j)
    PROVE  AiSold'
<1> SUFFICES ASSUME ~marred', LastUnit("ai_monitor")'
             PROVE  \/ Sold("ai")' \/ held'["ai"] = "overnight"
                    \/ \E k \in {"ai_monitor", "eod_guard"} : Owes(k, <<"exit", "ai">>)'
  BY DEF AiSold
<1> USE DEF DayIInv
<1>1. ~marred /\ LastUnit("ai_monitor") /\ j \in Running /\ left <= 1 /\ "ai" \in DayLines
  BY StepMoves DEF LastUnit, DayLines
<1>2. /\ left \in Nat /\ Window >= 1 /\ Window \in Nat
  BY <1>1, Hours DEF DayConstantsOK
<1>3. ASSUME NEW k \in {"ai_monitor", "eod_guard"}, Owes(k, <<"exit", "ai">>)
      PROVE  Owes(k, <<"exit", "ai">>)' \/ Sold("ai")'
  <2>1. k \in DayJobs /\ k \in Running BY <1>3, DayJobsAre, OwesRuns
  <2>2. run[k].mode = "preclose" /\ ~TooLate(k, "ai")
    BY <1>1, <2>1, Hours DEF TooLate
  <2>3. held["ai"] # "none" => MustExit(k, "ai") BY <2>2 DEF MustExit
  <2> QED BY <1>1, <1>3, <2>1, <2>2, <2>3, StepMoves DEF Sold
<1>4. CASE held["ai"] = "none"
  <2>1. \/ held'["ai"] = "none"
        \/ <<"process", "ai">> \in Duties(j) /\ ~Expired("ai") /\ RetryAllowed(j, "ai")
    BY <1>1, <1>2, <1>4, StepMoves
  <2>2. ASSUME <<"process", "ai">> \in Duties(j), ~Expired("ai"), RetryAllowed(j, "ai")
        PROVE  FALSE
    <3>1. j \in AiJobs BY <2>2, ProcessorsAre
    <3>2. CASE j # "ai_gated" BY <1>1, <2>2, <3>1, <3>2, Hours DEF AiJobs, RetryAllowed
    <3>3. CASE j = "ai_gated"
      <4>1. Late BY <1>1, <3>3, Hours DEF Late
      <4> QED BY <2>2, <4>1 DEF Basics, RestsExpire
    <3> QED BY <3>2, <3>3
  <2> QED BY <2>1, <2>2 DEF Sold
<1>5. CASE "ai" \in stuck
  BY <1>5, StepMoves DEF Sold
<1>6. CASE held["ai"] = "overnight"
  BY <1>1, <1>6, StepMoves DEF Sold
<1> QED BY <1>1, <1>3, <1>4, <1>5, <1>6 DEF AiSold, Sold

LEMMA StepAiRecovered ==
    ASSUME DayConstantsOK, InTime, DayIInv, NEW j \in DayJobs, WorkerStep(j)
    PROVE  AiRecovered'
<1> SUFFICES ASSUME ~marred' PROVE
        \/ Recovered' \/ left' = Open \/ (left' = Open - 1 /\ "ai_monitor" \in due')
        \/ \E k \in AiJobs : Owes(k, <<"exit", "ai">>)' /\ left' + run'[k].age >= Open - 1
  BY DEF AiRecovered, AiJobs
<1> USE DEF DayIInv
<1>1. ~marred /\ left' = left /\ due' = due /\ "ai" \in DayLines
  BY StepMoves DEF DayLines
<1>2. Recovered => Recovered'
  BY <1>1, StepMoves DEF Recovered
<1>3. ASSUME NEW k \in AiJobs, Owes(k, <<"exit", "ai">>), left + run[k].age >= Open - 1
      PROVE  \/ Recovered'
             \/ Owes(k, <<"exit", "ai">>)' /\ left' + run'[k].age >= Open - 1
  <2>1. k \in DayJobs /\ k \in Running BY <1>3, DayJobsAre, OwesRuns DEF AiJobs
  <2>2. ~TooLate(k, "ai") /\ run'[k].age = run[k].age
    BY <1>3, <2>1, Hours, StepMoves DEF TooLate
  <2>3. held["ai"] = "overnight" => MustExit(k, "ai") BY DEF MustExit, AiJobs
  <2> QED BY <1>1, <1>3, <2>1, <2>2, <2>3, StepMoves DEF Recovered
<1> QED BY <1>1, <1>2, <1>3 DEF AiRecovered

LEMMA StepGuarded ==
    ASSUME DayConstantsOK, InTime, DayIInv, NEW j \in DayJobs, WorkerStep(j)
    PROVE  Guarded'
<1> SUFFICES ASSUME guarded'
             PROVE  /\ left' <= Window
                    /\ "forward" \in Running' => run'["forward"].mode = "preclose"
                    /\ \/ marred' \/ held'["option"] = "none"
                       \/ /\ Owes("eod_guard", <<"exit", "option">>)'
                          /\ run'["eod_guard"].mode = "preclose"
                    /\ \/ marred' \/ held'["equity"] = "none"
                       \/ /\ Owes("eod_guard", <<"exit", "equity">>)'
                          /\ run'["eod_guard"].mode = "preclose"
                          /\ \/ "equity" \notin stuck'
                             \/ Owes("eod_guard", <<"cancel", "equity">>)'
  BY DEF Guarded
<1> USE DEF DayIInv
<1>1. /\ guarded /\ left' = left /\ j \in Running /\ Running' \subseteq Running
      /\ {"forward", "eod_guard"} \subseteq DayJobs /\ {"equity", "option"} \subseteq DayLines
      /\ \A k \in DayJobs : run'[k].mode = run[k].mode
      /\ marred => marred'
  BY StepMoves, DayJobsAre DEF DayLines
<1>2. left' <= Window /\ ("forward" \in Running' => run'["forward"].mode = "preclose")
  BY <1>1 DEF Guarded
<1>3. left \in Nat /\ Window \in Nat /\ ~(left > Window)
  BY <1>1, <1>2, Hours DEF DayConstantsOK
<1>4. ASSUME NEW l \in DayLines, l # "ai", held[l] = "none" PROVE held'[l] = "none"
  <2>1. \/ held'[l] = "none"
        \/ <<"process", l>> \in Duties(j) /\ RetryAllowed(j, l)
    BY <1>3, <1>4, StepMoves
  <2>2. l = "option" => ~RetryAllowed(j, l) BY <1>3 DEF RetryAllowed
  <2>3. l = "equity" /\ <<"process", l>> \in Duties(j) => ~RetryAllowed(j, l)
    BY <1>1, ProcessorsAre DEF RetryAllowed, Guarded
  <2> QED BY <1>4, <2>1, <2>2, <2>3 DEF DayLines
<1>5. ASSUME NEW l \in {"equity", "option"}, Owes("eod_guard", <<"exit", l>>),
             run["eod_guard"].mode = "preclose", ~marred'
      PROVE  \/ held'[l] = "none" \/ Owes("eod_guard", <<"exit", l>>)'
             \/ l \in stuck /\ j = "eod_guard"
  <2>1. "eod_guard" \in Running /\ l \in DayLines BY <1>1, <1>5, OwesRuns
  <2>2. ~TooLate("eod_guard", l) BY <2>1, Hours DEF TooLate
  <2>3. held[l] # "none" => MustExit("eod_guard", l) BY <1>5 DEF MustExit
  <2> QED BY <1>1, <1>5, <2>1, <2>2, <2>3, StepMoves
<1>6. \/ marred' \/ held'["option"] = "none"
      \/ /\ Owes("eod_guard", <<"exit", "option">>)'
         /\ run'["eod_guard"].mode = "preclose"
  <2>1. "option" \notin stuck BY DEF Basics, DayTypeOK
  <2> QED BY <1>1, <1>4, <1>5, <2>1 DEF Guarded
<1>7. \/ marred' \/ held'["equity"] = "none"
      \/ /\ Owes("eod_guard", <<"exit", "equity">>)'
         /\ run'["eod_guard"].mode = "preclose"
         /\ \/ "equity" \notin stuck'
            \/ Owes("eod_guard", <<"cancel", "equity">>)'
  <2> SUFFICES ASSUME ~marred', held'["equity"] # "none"
               PROVE  /\ Owes("eod_guard", <<"exit", "equity">>)'
                      /\ run["eod_guard"].mode = "preclose"
                      /\ \/ "equity" \notin stuck'
                         \/ Owes("eod_guard", <<"cancel", "equity">>)'
    BY <1>1
  <2>1. /\ Owes("eod_guard", <<"exit", "equity">>) /\ run["eod_guard"].mode = "preclose"
        /\ "equity" \notin stuck \/ Owes("eod_guard", <<"cancel", "equity">>)
    BY <1>1, <1>4 DEF Guarded
  <2>2. CASE Owes("eod_guard", <<"cancel", "equity">>)
    BY <1>1, <1>5, <2>1, <2>2, StepMoves
  <2>3. CASE "equity" \notin stuck
    BY <1>1, <1>5, <2>1, <2>3, StepMoves
  <2> QED BY <2>1, <2>2, <2>3
<1> QED BY <1>2, <1>6, <1>7

Evening == SellsBeforeClose /\ Recovers /\ EquitySold /\ AiSold /\ AiRecovered /\ Guarded

LEMMA TickEvening ==
    ASSUME DayConstantsOK, InTime, DayIInv, UnitPasses
    PROVE  Evening'
<1> USE DEF DayIInv
<1>1. /\ left \in Nat /\ left > 0 /\ left' = left - 1 /\ due = {} /\ Running' = Running
      /\ due' = IF left' > 0 THEN Enabled \cap IntervalJobs ELSE {}
      /\ \A j \in Running : run'[j].mode = run[j].mode /\ run'[j].age = run[j].age + 1
      /\ \A j \in DayJobs : \A s : Owes(j, s)' <=> Owes(j, s)
      /\ UNCHANGED <<held, stuck, guarded, marred>>
  BY TickBasics DEF UnitPasses
<1>2. \A l : Sold(l)' <=> Sold(l)
  BY <1>1 DEF Sold
<1>3. /\ {"forward", "ai_monitor"} \subseteq Enabled \cap IntervalJobs
      /\ {"forward", "ai_monitor", "eod_guard", "ai_gated"} \subseteq DayJobs
      /\ Window \in Nat /\ Open \in Nat /\ Open >= 2
  BY DayJobsAre DEF InTime, IntervalJobs, DayConstantsOK
<1>4. SellsBeforeClose'
  <2> SUFFICES ASSUME ~marred', NEW j \in Running', NEW l \in DayLines, Seller(j, l),
                      run'[j].mode = "preclose"
               PROVE  Owes(j, <<"exit", l>>)' \/ Sold(l)'
    BY DEF SellsBeforeClose, Seller
  <2>1. j \in Running /\ j \in DayJobs BY <1>1 DEF Running
  <2> QED BY <1>1, <1>2, <2>1 DEF SellsBeforeClose
<1>5. Recovers'
  <2> SUFFICES ASSUME ~marred', NEW j \in Running', j \in AiJobs
               PROVE  Owes(j, <<"exit", "ai">>)' \/ Recovered'
    BY DEF Recovers, AiJobs
  <2>1. j \in Running /\ j \in DayJobs BY <1>1 DEF Running
  <2> QED BY <1>1, <2>1 DEF Recovers, Recovered
<1>6. ASSUME NEW j \in {"forward", "ai_monitor"}, LastUnit(j)'
      PROVE  LastUnit(j)
  BY <1>1, <1>3, <1>6 DEF LastUnit
<1>7. EquitySold'
  <2> SUFFICES ASSUME ~marred', LastUnit("forward")'
               PROVE  \/ Sold("equity")'
                      \/ \E k \in {"forward", "eod_guard"} : Owes(k, <<"exit", "equity">>)'
    BY DEF EquitySold
  <2> QED BY <1>1, <1>2, <1>3, <1>6 DEF EquitySold
<1>8. AiSold'
  <2> SUFFICES ASSUME ~marred', LastUnit("ai_monitor")'
               PROVE  \/ Sold("ai")' \/ held'["ai"] = "overnight"
                      \/ \E k \in {"ai_monitor", "eod_guard"} : Owes(k, <<"exit", "ai">>)'
    BY DEF AiSold
  <2> QED BY <1>1, <1>2, <1>3, <1>6 DEF AiSold
<1>9. AiRecovered'
  <2> SUFFICES ASSUME ~marred' PROVE
          \/ Recovered' \/ left' = Open \/ (left' = Open - 1 /\ "ai_monitor" \in due')
          \/ \E k \in AiJobs : Owes(k, <<"exit", "ai">>)' /\ left' + run'[k].age >= Open - 1
    BY DEF AiRecovered, AiJobs
  <2>1. CASE Recovered BY <1>1, <2>1 DEF Recovered
  <2>2. CASE left = Open BY <1>1, <1>3, <2>2
  <2>3. ASSUME NEW k \in AiJobs, Owes(k, <<"exit", "ai">>), left + run[k].age >= Open - 1
        PROVE  Owes(k, <<"exit", "ai">>)' /\ left' + run'[k].age >= Open - 1
    <3>1. k \in DayJobs /\ k \in Running BY <2>3, DayJobsAre, OwesRuns DEF AiJobs
    <3>2. run[k].age \in Nat BY <3>1, Hours
    <3> QED BY <1>1, <1>3, <2>3, <3>1, <3>2
  <2> QED BY <1>1, <2>1, <2>2, <2>3 DEF AiRecovered
<1>10. Guarded'
  <2> SUFFICES ASSUME guarded'
               PROVE  /\ left' <= Window
                      /\ "forward" \in Running' => run'["forward"].mode = "preclose"
                      /\ \/ marred' \/ held'["option"] = "none"
                         \/ /\ Owes("eod_guard", <<"exit", "option">>)'
                            /\ run'["eod_guard"].mode = "preclose"
                      /\ \/ marred' \/ held'["equity"] = "none"
                         \/ /\ Owes("eod_guard", <<"exit", "equity">>)'
                            /\ run'["eod_guard"].mode = "preclose"
                            /\ \/ "equity" \notin stuck'
                               \/ Owes("eod_guard", <<"cancel", "equity">>)'
    BY DEF Guarded
  <2>1. \A s : Owes("eod_guard", s) => "eod_guard" \in Running BY <1>3, OwesRuns
  <2> QED BY <1>1, <1>3, <2>1 DEF Guarded
<1> QED BY <1>4, <1>5, <1>7, <1>8, <1>9, <1>10 DEF Evening

LEMMA NewDayEvening ==
    ASSUME DayConstantsOK, InTime, DayIInv, NewDay
    PROVE  Evening'
<1>1. Running' = {} /\ left' = Open /\ guarded' = FALSE
  BY DEF NewDay, Closed, Running
<1>2. Open \in Nat /\ Open >= 2
  BY DEF DayConstantsOK, InTime
<1> QED
  BY <1>1, <1>2 DEF Evening, SellsBeforeClose, Recovers, EquitySold, AiSold, AiRecovered,
                    Guarded, LastUnit

LEMMA DiesEvening ==
    ASSUME DayConstantsOK, InTime, DayIInv, NEW j \in DayJobs, WorkerDies(j)
    PROVE  Evening'
<1>1. marred' /\ UNCHANGED <<left, guarded>>
  BY DiesBasics DEF DayIInv, WorkerDies
<1>2. "forward" \in Running' => "forward" \in Running /\ run'["forward"] = run["forward"]
  <2>1. "forward" \in DayJobs BY DayJobsAre
  <2>2. run'["forward"] = run["forward"] \/ run'["forward"] = NotRunning
    BY <2>1 DEF WorkerDies, DayIInv, Basics, DayTypeOK
  <2> QED BY <2>2 DEF Running, NotRunning
<1> QED
  BY <1>1, <1>2 DEF DayIInv, Evening, SellsBeforeClose, Recovers, EquitySold, AiSold,
                    AiRecovered, Guarded

LEMMA SkipEvening ==
    ASSUME DayConstantsOK, InTime, DayIInv, NEW j \in DayJobs, SkipJob(j)
    PROVE  Evening'
<1> USE DEF DayIInv
<1>1. /\ UNCHANGED <<left, run, held, stuck, guarded, marred>> /\ due' = due \ {j}
      /\ Running' = Running
  BY DEF SkipJob, Fired, Running
<1>2. PICK k \in Running : AccountsOf(j) \cap AccountsOf(k) # {}
  BY DEF SkipJob, Contends
<1>3. k \in DayJobs BY DEF Running
<1>4. left \in Nat /\ Window \in Nat /\ Window >= 1 /\ Open \in Nat /\ Open >= 2
  BY Hours DEF DayConstantsOK
<1>5. j = "forward" => k \in {"forward", "catalyst", "eod_guard"}
  BY <1>2, <1>3, DayJobsAre DEF AccountsOf
<1>6. j = "ai_monitor" => k \in AiJobs
  BY <1>2, <1>3, DayJobsAre DEF AccountsOf, AiJobs
<1>7. j \in due => left > 0
  BY DEF Basics, Answered
<1>8. SellsBeforeClose'
  BY <1>1 DEF SellsBeforeClose, Owes, Sold
<1>9. Recovers'
  BY <1>1 DEF Recovers, Owes, Recovered
<1>10. EquitySold'
  <2>1. ~LastUnit("forward") /\ LastUnit("forward")' => j = "forward" /\ left = 1
    BY <1>1 DEF LastUnit
  <2>2. CASE j = "forward" /\ left = 1 /\ ~marred
    <3>1. k # "catalyst"
      BY <2>2, Hours DEF Basics, Scoped
    <3>2. k \in {"forward", "eod_guard"} /\ run[k].mode = "preclose"
      BY <1>5, <2>2, <3>1, Hours
    <3>3. Owes(k, <<"exit", "equity">>) \/ Sold("equity")
      BY <2>2, <3>2 DEF SellsBeforeClose, Seller, DayLines
    <3> QED BY <1>1, <3>2, <3>3 DEF EquitySold, Owes, Sold
  <2> QED BY <1>1, <2>1, <2>2 DEF EquitySold, Owes, Sold
<1>11. AiSold'
  <2>1. ~LastUnit("ai_monitor") /\ LastUnit("ai_monitor")' => j = "ai_monitor" /\ left = 1
    BY <1>1 DEF LastUnit
  <2>2. CASE j = "ai_monitor" /\ left = 1 /\ ~marred
    <3>1. CASE k = "ai_gated"
      <4>1. Late BY <2>2, <3>1, Hours DEF Late
      <4>2. held["ai"] \in {"none", "overnight"}
        BY <4>1 DEF Basics, RestsExpire, DayTypeOK, DayLines
      <4> QED BY <1>1, <4>2 DEF AiSold, Sold
    <3>2. CASE k # "ai_gated"
      <4>1. k \in {"ai_monitor", "eod_guard"} /\ run[k].mode = "preclose"
        BY <1>6, <2>2, <3>2, Hours DEF AiJobs
      <4>2. Owes(k, <<"exit", "ai">>) \/ Sold("ai")
        BY <2>2, <4>1 DEF SellsBeforeClose, Seller, DayLines
      <4> QED BY <1>1, <4>1, <4>2 DEF AiSold, Owes, Sold
    <3> QED BY <3>1, <3>2
  <2> QED BY <1>1, <2>1, <2>2 DEF AiSold, Owes, Sold
<1>12. AiRecovered'
  <2>1. CASE j = "ai_monitor" /\ left = Open - 1 /\ ~marred
    <3>1. Owes(k, <<"exit", "ai">>) \/ Recovered
      BY <1>6, <2>1 DEF Recovers
    <3>2. left + run[k].age >= Open - 1
      <4>1. run[k].age \in Nat BY Hours
      <4> QED BY <1>4, <2>1, <4>1
    <3> QED BY <1>1, <1>6, <2>1, <3>1, <3>2 DEF AiRecovered, Owes, Recovered
  <2>2. CASE ~(j = "ai_monitor" /\ left = Open - 1)
    BY <1>1, <2>2 DEF AiRecovered, Owes, Recovered
  <2>3. CASE marred BY <1>1, <2>3 DEF AiRecovered
  <2> QED BY <2>1, <2>2, <2>3 DEF Basics, DayTypeOK
<1>13. Guarded'
  BY <1>1 DEF Guarded, Owes
<1> QED BY <1>8, <1>9, <1>10, <1>11, <1>12, <1>13 DEF Evening

LEMMA StartEvening ==
    ASSUME DayConstantsOK, InTime, DayIInv, NEW j \in DayJobs, StartJob(j)
    PROVE  Evening'
<1> USE DEF DayIInv
<1>1. /\ j \notin Running /\ left \in Nat /\ left > 0 /\ left' = left
      /\ run'[j] = [todo |-> Program(j), mode |-> ModeAt(left), age |-> 0]
      /\ \A k \in DayJobs \ {j} : run'[k] = run[k]
      /\ \A k \in DayJobs \ {j} : \A s : Owes(k, s)' <=> Owes(k, s)
      /\ \A k \in Running : AccountsOf(j) \cap AccountsOf(k) = {}
      /\ UNCHANGED <<held, stuck, marred>> /\ due' = due \ {j}
      /\ guarded' = (guarded \/ (j = "eod_guard" /\ Mode = "preclose" /\ left > Deadline[j]))
  BY StartBasics DEF StartJob, Fired
<1>2. /\ \A k \in DayJobs \ {j} : k \in Running' <=> k \in Running
      /\ \A k \in Running' : k \in DayJobs
  BY <1>1 DEF Running
<1>3. \A k \in DayJobs : \A s : Owes(k, s) => Owes(k, s)' /\ k # j /\ run'[k] = run[k]
  BY <1>1, OwesRuns
<1>4. \A s : Owes(j, s)' <=> Has(Program(j), s)
  BY <1>1 DEF Owes
<1>5. j \in Running' => Program(j) # <<>>
  BY <1>1 DEF Running
<1>6. {"forward", "ai_monitor", "eod_guard", "ai_gated"} \subseteq DayJobs
  BY DayJobsAre
<1>7. \A l : Sold(l)' <=> Sold(l)
  BY <1>1 DEF Sold
<1>8. SellsBeforeClose'
  <2> SUFFICES ASSUME ~marred', NEW k \in Running', NEW l \in DayLines, Seller(k, l),
                      run'[k].mode = "preclose"
               PROVE  Owes(k, <<"exit", l>>)' \/ Sold(l)'
    BY DEF SellsBeforeClose, Seller
  <2>1. CASE k = j BY <1>4, <1>5, <2>1, ProgramHas DEF Seller
  <2>2. CASE k # j BY <1>1, <1>2, <1>7, <2>2 DEF SellsBeforeClose
  <2> QED BY <2>1, <2>2
<1>9. Recovers'
  <2> SUFFICES ASSUME ~marred', NEW k \in Running', k \in AiJobs
               PROVE  Owes(k, <<"exit", "ai">>)' \/ Recovered'
    BY DEF Recovers, AiJobs
  <2>1. CASE k = j BY <1>4, <1>5, <2>1, ProgramHas DEF AiJobs
  <2>2. CASE k # j BY <1>1, <1>2, <2>2 DEF Recovers, Recovered
  <2> QED BY <2>1, <2>2
<1>10. EquitySold'
  <2> SUFFICES ASSUME ~marred', LastUnit("forward")'
               PROVE  \/ Sold("equity")'
                      \/ \E k \in {"forward", "eod_guard"} : Owes(k, <<"exit", "equity">>)'
    BY DEF EquitySold
  <2>1. CASE j = "forward" BY <1>4, <2>1, ProgramHas
  <2>2. CASE j # "forward"
    <3>1. LastUnit("forward") /\ ~marred BY <1>1, <2>2 DEF LastUnit
    <3> QED BY <1>3, <1>6, <1>7, <3>1 DEF EquitySold
  <2> QED BY <2>1, <2>2
<1>11. AiSold'
  <2> SUFFICES ASSUME ~marred', LastUnit("ai_monitor")'
               PROVE  \/ Sold("ai")' \/ held'["ai"] = "overnight"
                      \/ \E k \in {"ai_monitor", "eod_guard"} : Owes(k, <<"exit", "ai">>)'
    BY DEF AiSold
  <2>1. CASE j = "ai_monitor" BY <1>4, <2>1, ProgramHas
  <2>2. CASE j # "ai_monitor"
    <3>1. LastUnit("ai_monitor") /\ ~marred BY <1>1, <2>2 DEF LastUnit
    <3> QED BY <1>1, <1>3, <1>6, <1>7, <3>1 DEF AiSold
  <2> QED BY <2>1, <2>2
<1>12. AiRecovered'
  <2> SUFFICES ASSUME ~marred' PROVE
          \/ Recovered' \/ left' = Open \/ (left' = Open - 1 /\ "ai_monitor" \in due')
          \/ \E k \in AiJobs : Owes(k, <<"exit", "ai">>)' /\ left' + run'[k].age >= Open - 1
    BY DEF AiRecovered, AiJobs
  <2>1. CASE Recovered BY <1>1, <2>1 DEF Recovered
  <2>2. CASE left = Open BY <1>1, <2>2
  <2>3. CASE left = Open - 1 /\ "ai_monitor" \in due
    <3>1. CASE j = "ai_monitor"
      <4>1. Owes(j, <<"exit", "ai">>)' BY <1>4, <3>1, ProgramHas
      <4>2. left' + run'[j].age >= Open - 1
        <5>1. run'[j].age = 0 BY <1>1
        <5>2. Open \in Nat BY DEF DayConstantsOK
        <5> QED BY <1>1, <2>3, <5>1, <5>2
      <4> QED BY <3>1, <4>1, <4>2 DEF AiJobs
    <3>2. CASE j # "ai_monitor" BY <1>1, <2>3, <3>2
    <3> QED BY <3>1, <3>2
  <2>4. ASSUME NEW k \in AiJobs, Owes(k, <<"exit", "ai">>), left + run[k].age >= Open - 1
        PROVE  Owes(k, <<"exit", "ai">>)' /\ left' + run'[k].age >= Open - 1
    <3>1. k \in DayJobs BY <1>6 DEF AiJobs
    <3> QED BY <1>1, <1>3, <2>4, <3>1
  <2> QED BY <1>1, <2>1, <2>2, <2>3, <2>4 DEF AiRecovered
<1>13. Guarded'
  <2> SUFFICES ASSUME guarded'
               PROVE  /\ left' <= Window
                      /\ "forward" \in Running' => run'["forward"].mode = "preclose"
                      /\ \/ marred' \/ held'["option"] = "none"
                         \/ /\ Owes("eod_guard", <<"exit", "option">>)'
                            /\ run'["eod_guard"].mode = "preclose"
                      /\ \/ marred' \/ held'["equity"] = "none"
                         \/ /\ Owes("eod_guard", <<"exit", "equity">>)'
                            /\ run'["eod_guard"].mode = "preclose"
                            /\ \/ "equity" \notin stuck'
                               \/ Owes("eod_guard", <<"cancel", "equity">>)'
    BY DEF Guarded
  <2>1. left <= Window
    <3>1. Mode = "preclose" => left <= Window BY DEF Mode
    <3> QED BY <1>1, <3>1 DEF Guarded
  <2>2. ModeAt(left) = "preclose" /\ Mode = "preclose"
    <3>1. ~(Window < left) BY <1>1, <2>1 DEF DayConstantsOK
    <3> QED BY <2>1, <3>1 DEF ModeAt, Mode
  <2>3. CASE j = "eod_guard"
    <3>1. Program(j) # <<>> BY <2>2, <2>3, ProgramHas
    <3>2. /\ Has(Program(j), <<"exit", "equity">>) /\ Has(Program(j), <<"exit", "option">>)
          /\ Has(Program(j), <<"cancel", "equity">>)
      BY <2>3, <3>1, ProgramHas
    <3>3. "forward" \notin Running'
      <4>1. "main_account" \in AccountsOf(j) \cap AccountsOf("forward")
        BY <2>3 DEF AccountsOf
      <4> QED BY <1>1, <1>2, <1>6, <2>3, <4>1
    <3>4. run'["eod_guard"].mode = "preclose" BY <1>1, <2>2, <2>3
    <3> QED BY <1>1, <1>4, <2>1, <2>3, <3>2, <3>3, <3>4
  <2>4. CASE j # "eod_guard"
    <3>1. guarded BY <1>1, <2>4
    <3>2. "forward" \in Running' => run'["forward"].mode = "preclose"
      <4>1. CASE j = "forward" BY <1>1, <2>2, <4>1
      <4>2. CASE j # "forward" BY <1>1, <1>2, <1>6, <3>1, <4>2 DEF Guarded
      <4> QED BY <4>1, <4>2
    <3> QED BY <1>1, <1>3, <1>6, <2>1, <3>1, <3>2 DEF Guarded
  <2> QED BY <2>3, <2>4
<1> QED BY <1>8, <1>9, <1>10, <1>11, <1>12, <1>13 DEF Evening

LEMMA InitDayIInv == DayConstantsOK /\ DayInit => DayIInv
<1> SUFFICES ASSUME DayConstantsOK, DayInit PROVE DayIInv
  OBVIOUS
<1>1. Running = {}
  BY DEF DayInit, Running, NotRunning
<1>2. held["equity"] = "none" /\ held["ai"] = "none" /\ guarded = FALSE
  BY DEF DayInit, DayLines
<1> QED
  BY <1>1, <1>2, InitBasics
  DEF DayIInv, SellsBeforeClose, Recovers, EquitySold, AiSold, AiRecovered, Guarded, Sold,
      Recovered

LEMMA DayIInvStep == DayConstantsOK /\ InTime /\ DayIInv /\ [DayNext]_dayVars => DayIInv'
<1> SUFFICES ASSUME DayConstantsOK, InTime, DayIInv, [DayNext]_dayVars PROVE DayIInv'
  OBVIOUS
<1>1. Basics' BY BasicsStep DEF DayIInv
<1>2. CASE UnitPasses BY <1>1, <1>2, TickEvening DEF DayIInv, Evening
<1>3. CASE NewDay BY <1>1, <1>3, NewDayEvening DEF DayIInv, Evening
<1>4. ASSUME NEW j \in DayJobs, StartJob(j) PROVE DayIInv'
  BY <1>1, <1>4, StartEvening DEF DayIInv, Evening
<1>5. ASSUME NEW j \in DayJobs, SkipJob(j) PROVE DayIInv'
  BY <1>1, <1>5, SkipEvening DEF DayIInv, Evening
<1>6. ASSUME NEW j \in DayJobs, WorkerDies(j) PROVE DayIInv'
  BY <1>1, <1>6, DiesEvening DEF DayIInv, Evening
<1>7. ASSUME NEW j \in DayJobs, WorkerStep(j) PROVE DayIInv'
  BY <1>1, <1>7, StepSells, StepRecovers, StepEquitySold, StepAiSold, StepAiRecovered,
     StepGuarded DEF DayIInv
<1>8. CASE UNCHANGED dayVars
  <2> USE <1>8 DEF dayVars
  <2>1. Running' = Running BY DEF Running
  <2>2. SellsBeforeClose' /\ Recovers'
    BY <2>1 DEF DayIInv, SellsBeforeClose, Recovers, Owes, Sold, Recovered
  <2>3. EquitySold' /\ AiSold' /\ AiRecovered'
    BY DEF DayIInv, EquitySold, AiSold, AiRecovered, Owes, Sold, Recovered, LastUnit
  <2>4. Guarded' BY <2>1 DEF DayIInv, Guarded, Owes
  <2> QED BY <1>1, <2>2, <2>3, <2>4 DEF DayIInv
<1> QED BY <1>2, <1>3, <1>4, <1>5, <1>6, <1>7, <1>8 DEF DayNext

\* "End-of-day flatten" for every session, window and set of jobs, and for whatever the
\* days before have left behind: on a day without faults no shares are held after the
\* close unless their exit order is stuck, and where a guard got the accounts in time
\* nothing of the main account is.
THEOREM FlatAtCloseHolds ==
    ASSUME DayConstantsOK, InTime
    PROVE  DaySpec => []FlatAtClose
<1>1. DayInit => DayIInv BY InitDayIInv
<1>2. DayIInv /\ [DayNext]_dayVars => DayIInv' BY DayIInvStep
<1>3. DayIInv => FlatAtClose
  <2> SUFFICES ASSUME DayIInv, Closed, ~marred
               PROVE  /\ \A l \in {"equity", "ai"} : held[l] = "none" \/ l \in stuck
                      /\ guarded => held["equity"] = "none" /\ held["option"] = "none"
    BY DEF FlatAtClose
  <2>1. left = 0 /\ Running = {} BY DEF Closed
  <2>2. \A j \in DayJobs : \A s : ~Owes(j, s) BY <2>1, OwesRuns DEF DayIInv
  <2>3. {"forward", "ai_monitor", "eod_guard", "ai_gated"} \subseteq DayJobs
    BY DayJobsAre
  <2>4. Sold("equity") BY <2>1, <2>2, <2>3 DEF DayIInv, EquitySold, LastUnit
  <2>5. Sold("ai") \/ held["ai"] = "overnight"
    BY <2>1, <2>2, <2>3 DEF DayIInv, AiSold, LastUnit
  <2>6. Recovered
    <3>1. Open \in Nat /\ Open >= 2 BY DEF DayConstantsOK, InTime
    <3> QED BY <2>1, <2>2, <2>3, <3>1 DEF DayIInv, AiRecovered, AiJobs
  <2>7. guarded => held["equity"] = "none" /\ held["option"] = "none"
    BY <2>2, <2>3 DEF DayIInv, Guarded
  <2> QED BY <2>4, <2>5, <2>6, <2>7 DEF Sold, Recovered
<1> QED BY <1>1, <1>2, <1>3, PTL DEF DaySpec
=============================================================================
