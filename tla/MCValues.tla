------------------------------ MODULE MCValues ------------------------------
(* TLC instance of parts that share no variables: the control modes of       *)
(* parameters, the intents of the UI, a parameter's value under its          *)
(* constraints, and the conversions of a binding.  A behaviour runs one of   *)
(* them and leaves the others alone.                                         *)
EXTENDS ParamControls, UiIntents, ParamValues

CONSTANTS lost, unset, none, root, out, w1, w2, n1, a, b, c1, editor

VARIABLE part

MCStart == <<2, 0, 1>>
MCTop == <<2, 2, 1>>
MCModes == <<{"manual", "proxy", "binding"}, {"manual", "proxy", "binding"},
             {"proxy", "binding", "expression"}>>
MCMentions == {{1}, {1, 2}}
MCWires == {1, 2, 3, lost}

MCForeign == {Set(a, 1), Remove_(w1)}
MCCopies == {<<a, b>>}
MCExtras == {Move(w1, w1)}  \* refused, whenever it comes

\* Numbers are in twelfths.
NoRange == Range_("uniform", Absent, Absent)
Unbounded == Constraints("clamp", NoRange, Absent, Absent, {}, {})
Choice(w) == [id |-> Word(w), value |-> Num("int", <<12>>)]
MCRules == {Unbounded,
  [Unbounded EXCEPT !.range = Range_("uniform", 0, 30), !.step = 12],
  [Unbounded EXCEPT !.range = Range_("uniform", 6, Absent), !.policy = "reject"],
  [Unbounded EXCEPT !.step = 18, !.base = 6, !.policy = "reject"],
  [Unbounded EXCEPT !.range = Range_("parts", <<0, 12>>, <<12, 24>>)],
  [Unbounded EXCEPT !.options = {Choice("a"), Choice("b")}],
  [Unbounded EXCEPT !.files = {"f"}]}
MCStarts == {Num("float", <<0>>), Num("int", <<12>>), Num("vec2", <<0, 30>>),
             Value("text", Word("a")), Value("file", Word("g"))}
MCInputs == {Num("float", <<30>>), Num("int", <<24>>), Num("vec2", <<-6, 12>>),
             Value("text", Word("b")), Value("text", Spelled(<<12, 12>>)), Value("text", Word("f"))}

Bool(x) == Num("bool", <<x>>)
MCNumbers == {-18, 0, 12, 30}
MCSettings ==
   {Num("float", <<n>>) : n \in MCNumbers} \cup {Num("int", <<n>>) : n \in {-12, 0, 24}}
   \cup {Value("text", t) : t \in {Word("w"), Word("true"), Spelled(<<30>>), Spelled(<<12, 30>>)}}
   \cup {Value("enum", t) : t \in {Word("w"), Spelled(<<24>>)}}
   \cup {Bool(0), Bool(12), Num("css", <<30>>), Num("css", <<0>>), Value("file", Word("f"))}
   \cup {Num("vec2", <<m, n>>) : m, n \in {0, 30}}
   \cup {Num("vec3", <<n, 12, 30>>) : n \in {-18, 0}}
   \cup {Num("color", <<0, n, 12, 6>>) : n \in {0, 30}}
MCPairs == {<<x, y, p>> \in MCSettings \X MCSettings \X (Projections \cup {Direct}) :
    /\ (x.kind # "int" \/ y.kind # "color") /\ (y.kind # "int" \/ x.kind # "color")
    /\ (p # Direct => x.kind = p.from)
    /\ Bindable(x, y, p)}

\* Where the parts stand while another one runs.
ControlsStill ==
    /\ mode = [p \in Controlled |-> "manual"] /\ wire = [p \in Controlled |-> Unset]
    /\ expr = [p \in Controlled |-> {}] /\ held = Start /\ recent = <<>>
    /\ diag = [p \in Controlled |-> ""] /\ watching = [p \in Controlled |-> NoRuntime]
    /\ controlIndex = [active |-> {}, readers |-> [p \in Controlled |-> {}]] /\ stale = TRUE
    /\ news = Quiet /\ edits = <<>> /\ round = 0 /\ at = "idle" /\ acts = 0
    /\ looked = Nothing /\ unread = Nothing

ValueStill ==
    /\ holding = Value("text", Word("a")) /\ constraints = Free /\ cached = holding
    /\ undos = <<>> /\ redos = <<>> /\ strayed = FALSE /\ sets = 0
BindingStill ==
    /\ source = Bool(0) /\ target = Bool(12) /\ via = Direct
    /\ fresher = "source" /\ settings = 0

Init ==
    /\ part \in {"controls", "intents", "value", "binding"}
    /\ IF part = "controls" THEN ControlsInit ELSE ControlsStill
    /\ IntentsInit
    /\ IF part = "value" THEN ParamInit ELSE ValueStill
    /\ IF part = "binding" THEN BindingInit ELSE BindingStill

Next ==
    /\ UNCHANGED part
    /\ \/ part = "controls" /\ ControlsNext /\ UNCHANGED <<intentVars, paramVars, bindingVars>>
       \/ part = "intents" /\ IntentsNext /\ UNCHANGED <<controlVars, paramVars, bindingVars>>
       \/ part = "value" /\ ParamNext /\ UNCHANGED <<controlVars, intentVars, bindingVars>>
       \/ part = "binding" /\ BindingNext /\ UNCHANGED <<controlVars, intentVars, paramVars>>

Spec == Init /\ [][Next]_<<part, controlVars, intentVars, paramVars, bindingVars>>
=============================================================================
