------------------------------ MODULE MCParts ------------------------------
(***************************************************************************)
(* Six small machines that share nothing, one of them in each behaviour:   *)
(* the files of an account, the photographs of a day, the catalogue of     *)
(* furniture, the lines of a quote with its plan, the README, and the      *)
(* conversion of a photograph into a plan.                                 *)
(***************************************************************************)
EXTENDS Uploads, Photos, Catalog, QuotePlan, ReadmeSync, Tracing, TLC

VARIABLE part   \* which of them

partVars == <<part, uploadVars, photoVars, catalogVars, quotePlanVars, readmeVars, tracingVars>>

NoSheet == [quick |-> NoPlan, full |-> NoPlan]

Init ==
    /\ part \in {"uploads", "photos", "catalog", "quote", "readme", "tracing"}
    /\ UploadsInit /\ (part # "uploads" => org = None)
    /\ PhotosInit /\ CatalogInit
    /\ IF part = "quote" THEN QuotePlanInit ELSE lines = <<>> /\ synced = <<>>
    /\ ReadmeInit /\ (part # "readme" => readme = <<>>)
    /\ IF part = "tracing" THEN TracingInit ELSE sheet = NoSheet /\ answer = Unasked

Next ==
    /\ UNCHANGED part
    /\ IF part = "uploads" THEN UploadsNext ELSE UNCHANGED uploadVars
    /\ IF part = "photos" THEN PhotosNext ELSE UNCHANGED photoVars
    /\ IF part = "catalog" THEN CatalogNext ELSE UNCHANGED catalogVars
    /\ IF part = "quote" THEN QuotePlanNext ELSE UNCHANGED quotePlanVars
    /\ IF part = "readme" THEN ReadmeNext ELSE UNCHANGED readmeVars
    /\ IF part = "tracing" THEN TracingNext ELSE UNCHANGED tracingVars

Spec == Init /\ [][Next]_partVars

-----------------------------------------------------------------------------
\* Two sections with blocks and one, before them, without.
MCTemplate ==
    <<[key |-> "modulos", blocks |-> <<>>],
      [key |-> "estado", blocks |-> <<"version", "entornos">>],
      [key |-> "api", blocks |-> <<"api">>]>>

\* Every README of three lines or fewer of these, and the longer ones that
\* begin with a section.
MCLines ==
    {Open("version"), Close("version"), Open("api"), Close("api"), Fence,
     Heading(2, "modulos"), Heading(2, "estado"), Heading(3, "api"), Heading(2, "api"), Text(1)}
MCDrafts ==
    UNION {[1..n -> MCLines] : n \in 0..3}
    \cup {<<Heading(2, "estado")>> \o rest : rest \in [1..3 -> MCLines]}

-----------------------------------------------------------------------------
\* Drawings.  A wall from p to q may be missing, stop short of q or go past it,
\* leave a passage before q, or have a gap in the middle, with or without a door
\* drawn in it.
Step(p, q, n) == <<p[1] + n * Sign(q[1] - p[1]), p[2] + n * Sign(q[2] - p[2])>>
Styles == {"whole", "missing", "short", "past", "passage", "gap", "door"}
WallDrawn(w, style) ==
    LET p == w[1] q == w[2] IN
    CASE style = "whole" -> <<w>>
      [] style = "missing" -> <<>>
      [] style = "short" -> <<<<p, Step(q, p, 10)>>>>
      [] style = "past" -> <<<<p, Step(q, p, -10)>>>>
      [] style = "passage" -> <<<<p, Step(q, p, 90)>>>>
      [] OTHER -> <<<<p, Step(p, q, 80)>>, <<Step(p, q, 170), q>>>>
DoorDrawn(w, style) ==
    IF style = "door"
    THEN <<[kind |-> "door", from |-> Step(w[1], w[2], 80), to |-> Step(w[1], w[2], 170)]>>
    ELSE <<>>

Box(a, b) ==
    <<<<a, <<b[1], a[2]>>>>, <<<<b[1], a[2]>>, b>>, <<b, <<a[1], b[2]>>>>, <<<<a[1], b[2]>>, a>>>>
\* Two rooms, side by side, and a window.
House == Box(<<50, 50>>, <<550, 300>>) \o <<<<<<300, 50>>, <<300, 300>>>>>>
Window == <<[kind |-> "window", from |-> <<50, 200>>, to |-> <<50, 120>>]>>
Houses(changes) ==
    LET Drawn(style) ==
            [walls |-> FlattenSeq([i \in DOMAIN House |-> WallDrawn(House[i], style[i])]),
             openings |-> FlattenSeq([i \in DOMAIN House |-> DoorDrawn(House[i], style[i])])
                          \o Window]
    IN {Drawn(style @@ [i \in DOMAIN House |-> "whole"]) :
        style \in UNION {[some -> Styles] : some \in {S \in SUBSET DOMAIN House : Cardinality(S) <= changes}}}

\* A room within a room, and one hanging from its wall; four rooms of two walls
\* that cross; a duct; walls that leave the photograph; a crossing of passages;
\* and a house of seven walls, with a door between them.
Big == Box(<<50, 50>>, <<550, 550>>)
Others ==
    {[walls |-> w, openings |-> <<>>] : w \in
        {Big \o Box(<<200, 200>>, <<400, 400>>),
         Big \o Box(<<200, 200>>, <<400, 400>>) \o <<<<<<400, 300>>, <<470, 300>>>>>>,
         Big \o <<<<<<300, 40>>, <<300, 560>>>>, <<<<45, 300>>, <<540, 300>>>>>>,
         Big \o <<<<<<300, 50>>, <<300, 550>>>>, <<<<330, 50>>, <<330, 550>>>>>>,
         <<<<<<-40, 50>>, <<680, 50>>>>, <<<<-40, 300>>, <<-10, 300>>>>>> \o Box(<<100, 50>>, <<400, 300>>),
         Big \o <<<<<<300, 50>>, <<300, 250>>>>, <<<<300, 550>>, <<300, 350>>>>,
                  <<<<50, 300>>, <<250, 300>>>>, <<<<550, 300>>, <<350, 300>>>>>>}}
    \cup {[walls |-> <<<<<<50, 50>>, <<130, 50>>>>, <<<<220, 50>>, <<300, 50>>>>, <<<<300, 55>>, <<300, 300>>>>,
                       <<<<550, 300>>, <<310, 300>>>>, <<<<290, 300>>, <<50, 300>>>>, <<<<50, 310>>, <<50, 50>>>>,
                       <<<<310, 50>>, <<550, 50>>>>, <<<<550, 60>>, <<550, 290>>>>>>,
           openings |-> <<[kind |-> "door", from |-> <<220, 50>>, to |-> <<130, 55>>],
                          [kind |-> "stairs", from |-> <<50, 60>>, to |-> <<90, 60>>],
                          [kind |-> "door", from |-> <<100, 500>>, to |-> <<190, 500>>]>>]}

\* The width and the height, at ten millimetres per pixel and at twenty; a
\* height misread; a slanted one; and one that does not say how much.
Wide == [from |-> <<50, 30>>, to |-> <<550, 30>>, mm |-> 5000]
High == [from |-> <<30, 50>>, to |-> <<30, 300>>, mm |-> 2500]
Misread == [High EXCEPT !.mm = 7500]
Slanted == [from |-> <<100, 100>>, to |-> <<400, 500>>, mm |-> 5000]
Mute == [High EXCEPT !.mm = 0]
Twice(c) == [c EXCEPT !.mm = 2 * @]

RoomsRead ==
    <<[name |-> "sala", outline |-> <<<<60, 60>>, <<290, 60>>, <<290, 290>>, <<60, 290>>>>],
      [name |-> "bano", outline |-> <<<<60, 60>>, <<100, 60>>, <<100, 100>>, <<60, 100>>>>],
      [name |-> "patio", outline |-> <<<<560, 310>>, <<590, 310>>, <<590, 340>>>>],
      [name |-> "line", outline |-> <<<<60, 60>>, <<290, 60>>>>]>>
OnPaper(drawing, quick, full) ==
    [quick |-> [isPlan |-> TRUE, cotas |-> quick],
     full |-> [isPlan |-> TRUE, walls |-> drawing.walls, openings |-> drawing.openings,
               rooms |-> RoomsRead, cotas |-> full]]
NotAPlan ==
    [quick |-> [isPlan |-> FALSE, cotas |-> <<>>],
     full |-> [isPlan |-> FALSE, walls |-> <<>>, openings |-> <<>>, rooms |-> <<>>, cotas |-> <<>>]]
MCSheet ==
    {OnPaper(d, <<Wide, High>>, <<>>) : d \in Houses(2)}
    \cup {OnPaper(d, <<Wide, High>>, <<Twice(Wide), Twice(High)>>) : d \in Houses(1)}
    \cup {OnPaper(d, quick, <<>>) : d \in Others,
             quick \in {<<Wide, High, Misread>>, <<Wide, Slanted, Mute>>, <<>>}}
    \cup {NotAPlan}
MCMeasures == {[width |-> 5000, height |-> 0], [width |-> 5000, height |-> 10000]}

-----------------------------------------------------------------------------
MCSymmetry == Permutations(Req)
=============================================================================
