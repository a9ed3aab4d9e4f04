------------------------------- MODULE MCAgentRun -------------------------------
(* The agents' instances that TLC checks, one slice for each question.           *)
EXTENDS ChatAgent

MCRepair == [turns |-> 2, share |-> 25]
MCSurvey == [turns |-> 1, share |-> 20]
MCFloor  == [turns |-> 2, share |-> 25]

EventItem(e) == <<"event", e>>
TurnItem(t) == <<"turn", t>>
RuleItem(r) == <<"rule", r>>
RecipeItem(r) == <<"recipe", r>>

---------------------------------------------------------------------------------
(* What the tracer holds.                                                        *)
Small == [tasks |-> "e1" :> "anchor", turns |-> "e1" :> "t1",
          rules |-> "r1" :> "active", revised |-> "p1" :> TRUE]

Bare == [tasks |-> "e1" :> "anchor", turns |-> <<>>, rules |-> <<>>, revised |-> <<>>]

\* Two tasks, an event outside any turn, a rule in review, a recipe without revision.
Large == [tasks |-> ("e1" :> "anchor" @@ "e2" :> "anchor" @@ "e3" :> "other"),
          turns |-> ("e1" :> "t1" @@ "e3" :> "t3"),
          rules |-> ("r1" :> "active" @@ "r2" :> "pending"),
          revised |-> ("p1" :> TRUE @@ "p2" :> FALSE)]

\* Tasks a cleanup meets: "a" may go, and was begun; "b" may go.
Task(id, title, begun, idle) ==
    [id |-> id, origin |-> "web", title |-> title, begun |-> begun, active |-> FALSE,
     idle |-> idle, children |-> 0]

Pair == <<Task("a", "same", TRUE, 9), Task("b", "same", FALSE, 9)>>

\* One for each reason to stay out of the batch, one that is stale, one too many.
Crowd == <<[Task("sdk", "placeholder", TRUE, 9) EXCEPT !.origin = "server-sdk"],
           Task("recent", "placeholder", FALSE, 1),
           [Task("parent", "placeholder", TRUE, 9) EXCEPT !.children = 1],
           Task("fine", "named", TRUE, 9),
           [Task("a", "own", TRUE, 9) EXCEPT !.active = TRUE],
           Task("b", "same", FALSE, 2),
           Task("c", "placeholder", FALSE, 9),
           Task("d", "same", FALSE, 9)>>

\* "a" and "b" have events; "b" had none when the batch was made.
Traces == [tasks |-> ("a1" :> "a" @@ "b1" :> "b"), turns |-> <<>>, rules |-> <<>>,
           revised |-> <<>>]

---------------------------------------------------------------------------------
(* A run with nothing to meet: fields are replaced by the slices.                *)
Plain(kind, plans, drafts) ==
    [kind |-> kind, limits |-> Lease(9, 40), costs |-> {1}, answers |-> {}, plans |-> plans,
     drafts |-> drafts, attempts |-> 1, ledger |-> IF kind = "cleanup" THEN Traces ELSE Small,
     scan |-> Pair, most |-> 1, usable |-> {"t1", "t2"}]

TwoProbes == <<Assign("timeline", 2), Assign("rules", 2)>>
OneProbe  == <<Assign("timeline", 2)>>

Plainest == Candidate({EventItem("e1")}, {})
Sound == Candidate({EventItem("e1"), TurnItem("t1")}, {EventItem("e1")})
Ruled == Candidate({EventItem("e1")}, {RuleItem("r1")})

ScanDrafts == {EmptyDraft, Draft({Sound}, <<>>), Draft({Sound, Ruled}, <<>>),
               Draft({}, OneProbe), Draft({Sound}, OneProbe)}

\* Every way a candidate may be wrong.
WrongDrafts ==
    LET over(slices, notes) == Draft({Candidate(slices, notes)}, <<>>)
        anchored == {EventItem("e2"), <<"task", "anchor">>}
    IN  {over({EventItem("e3"), TurnItem("t3")}, {}), over(anchored, {}),
         over(anchored \cup {<<"task", "other">>}, {EventItem("e3")}),
         over({EventItem("e1")}, {RuleItem("r1"), RecipeItem("p1")}),
         over({EventItem("e1")}, {RuleItem("r2")}), over({EventItem("e1")}, {RecipeItem("p2")}),
         Draft({Sound, Candidate({EventItem("e2"), TurnItem("t1")}, {})}, <<>>)}

TwoInspections == <<Assign("a", 2), Assign("b", 2)>>
OneInspection  == <<Assign("a", 2)>>

CleanupDrafts ==
    {EmptyDraft, Draft({Suggests("a", {"a1"}), Suggests("b", {})}, <<>>),
     Draft({Suggests("a", {})}, <<>>), Draft({Suggests("b", {"a1"})}, <<>>),
     Draft({}, OneInspection)}

TitleDrafts == {{}, {"t1"}, {"t1", "t2"}, {"t1", "bad"}}

\* Every way to share out: plans of up to three branches, turns from few to enough.
Sharings ==
    LET shares == {1, 2, 4}
        two   == {<<Assign("timeline", x), Assign("rules", y)>> : x, y \in shares}
        three == {<<Assign("timeline", x), Assign("rules", y), Assign("repetition", z)>> :
                    x, y, z \in shares}
    IN  {[Plain("recipe", two \cup three, {EmptyDraft, Draft({}, TwoProbes)})
            EXCEPT !.limits = Lease(n, 40)] : n \in {7, 8, 10, 12}}

\* Every answer a model may give, on each graph.
Answers == {"tool", "toolfails", "text", "truncated", "rejected", "unpriced", "unavailable",
            "lost", "late"}

Scans ==
    LET one == Plain("recipe", {OneProbe}, ScanDrafts)
        two == Plain("recipe", {TwoProbes, <<>>}, {Draft({Sound, Ruled}, <<>>)})
    IN  {[two EXCEPT !.answers = {"tool", "lost"}],
         [two EXCEPT !.answers = {"tool", "rejected"}, !.costs = {3, 11}, !.limits = Lease(7, 40),
                    !.ledger = Bare, !.plans = {TwoProbes}, !.drafts = {Draft({Plainest}, <<>>)}],
         [one EXCEPT !.answers = Answers \ {"rejected", "toolfails"}, !.limits = Lease(7, 40)],
         [one EXCEPT !.answers = {"tool", "toolfails", "rejected"}, !.limits = Lease(6, 40)],
         [one EXCEPT !.answers = {"rejected", "truncated", "unpriced", "lost"},
                    !.limits = Lease(7, 40), !.costs = {1, 11},
                    !.drafts = {Draft({Sound, Ruled}, <<>>)}],
         [one EXCEPT !.answers = {"tool"}, !.costs = {6}]}

\* One specialist at a time on the large ledger, and a plan that names one twice.
Readings ==
    LET read(plans, n) == [Plain("recipe", plans, WrongDrafts)
                             EXCEPT !.answers = {"tool"}, !.ledger = Large, !.limits = Lease(n, 40)]
    IN  {read({OneProbe, <<Assign("rules", 1), Assign("rules", 1)>>}, 7),
         read({<<Assign("repetition", 1)>>}, 8),
         read({<<Assign("timeline", 1), Assign("rules", 1)>>}, 8)}

Cleanups ==
    {[Plain("cleanup", {TwoInspections, <<Assign("z", 2)>>}, CleanupDrafts)
         EXCEPT !.answers = {"tool", "lost"}],
     [Plain("cleanup", {OneInspection}, CleanupDrafts)
         EXCEPT !.answers = Answers, !.limits = Lease(6, 40)],
     [Plain("cleanup", {<<Assign(id, 1)>> : id \in Ids(Range(Crowd))},
            {Draft({Suggests(id, {})}, <<>>) : id \in Ids(Range(Crowd))})
         EXCEPT !.answers = {"tool"}, !.scan = Crowd, !.limits = Lease(6, 40)]}

Titles ==
    {[Plain("title", {}, TitleDrafts) EXCEPT !.answers = Answers],
     [Plain("title", {}, TitleDrafts)
         EXCEPT !.answers = {"tool", "rejected"}, !.costs = {3}, !.limits = Lease(6, 4)],
     [Plain("title", {}, TitleDrafts)
         EXCEPT !.answers = {"tool"}, !.costs = {3}, !.limits = Lease(9, 10)]}

\* Crashes, and resuming from what was saved.
Crashes ==
    LET pair == <<Assign("timeline", 1), Assign("rules", 1)>>
        scan == [Plain("recipe", {pair}, {Draft({Plainest}, <<>>), Draft({}, OneProbe)})
                   EXCEPT !.ledger = Bare, !.attempts = 2, !.limits = Lease(7, 20), !.costs = {2}]
    IN  {[scan EXCEPT !.answers = {"tool"}],
         [scan EXCEPT !.answers = {"unavailable"}],
         [Plain("cleanup", {OneInspection},
                {Draft({Suggests("a", {"a1"})}, <<>>), Draft({}, OneInspection)})
            EXCEPT !.answers = {"unavailable"}, !.attempts = 2,
                   !.limits = Lease(7, 20), !.costs = {2}],
         [Plain("title", {}, {{"t1"}, {"t1", "t2"}})
            EXCEPT !.answers = {"tool", "unavailable"}, !.attempts = 2,
                   !.limits = Lease(5, 12), !.costs = {2}]}

\* Chat turns: tools and silence at the turn limit; every failure; lost attempts.
MCTurns ==
    LET turn == [kind |-> "chat", limits |-> Lease(2, 40), costs |-> {1}, attempts |-> 1,
                 answers |-> {}, earlier |-> TRUE, wired |-> TRUE]
    IN  {[turn EXCEPT !.answers = {"read", "write", "silent"}],
         [turn EXCEPT !.answers = {"read", "write"}, !.costs = {3, 11}, !.limits = Lease(3, 12)],
         [turn EXCEPT !.answers = {"recall", "write", "unread", "unreached", "truncated", "unpriced",
                                   "unavailable", "lost", "late"}],
         [turn EXCEPT !.answers = {"recall", "write", "unread", "unreached"}, !.wired = FALSE],
         [turn EXCEPT !.answers = {"write", "unreached", "silent"}, !.attempts = 2,
                      !.limits = Lease(1, 40)],
         [turn EXCEPT !.answers = {"read", "write", "unavailable"}, !.attempts = 2,
                      !.earlier = FALSE, !.limits = Lease(1, 40)]}

MCScenarios == Sharings \cup Scans \cup Readings \cup Cleanups \cup Titles \cup Crashes
=================================================================================
