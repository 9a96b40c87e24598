---------------------------- MODULE MCPassPipeline ----------------------------
(* Two units and four passes; lower, which runs for a unit, checks the     *)
(* other unit again with a nested pipeline.                                *)
EXTENDS PassPipeline

Run(name) == [kind |-> "pass", pass |-> name]
Group(steps) == [kind |-> "group", steps |-> steps]
ForEach(steps) == [kind |-> "foreach", steps |-> steps]

Described(scope, requires, produces, nested) ==
    [scope |-> scope, requires |-> requires, produces |-> produces, nested |-> nested,
     nested_unit |-> "u2"]

Ast == <<"ast", "global">>
Types == <<"types", "kind">>

SomePasses ==
    [parse |-> Described("global", {}, {Ast}, <<>>),
     check |-> Described("unit", {Ast}, {Types}, <<>>),
     lower |-> Described("unit", {Types}, {}, <<Run("check")>>),
     link |-> Described("global", {<<"types", "u1">>}, {<<"image", "global">>}, <<>>)]

SomePipelines ==
    { <<Run("parse"), ForEach(<<Run("check"), Run("lower")>>), Run("link")>>,
      <<Group(<<Run("parse")>>), ForEach(<<Run("check"), Run("link")>>)>> }

SomeSteps ==
    {Run(name) : name \in DOMAIN SomePasses} \cup
    {Group(<<Run("parse")>>), ForEach(<<Run("check"), Run("lower")>>), ForEach(<<Run("check"), Run("link")>>)}

UnitAnswers == {<<>>, <<"u1", "u2">>}

Reports ==
    { [kind |-> "All", refs |-> {}], [kind |-> "None", refs |-> {}],
      [kind |-> "Some", refs |-> {Ast, Types, <<"uses", "global">>}],
      [kind |-> "Some", refs |-> {Ast, <<"types", "u1">>}] }

SomeExtras == {{}, {<<"notes", "kind">>}}

SomeConfigs ==
    { [disabled |-> {}, stop_before |-> "none", stop_after |-> "none"],
      [disabled |-> {"check"}, stop_before |-> "none", stop_after |-> "none"],
      [disabled |-> {}, stop_before |-> "lower", stop_after |-> "none"],
      [disabled |-> {}, stop_before |-> "none", stop_after |-> "check"] }

=============================================================================
