------------------------------ MODULE Tracing ------------------------------
(***************************************************************************)
(* From the photograph of a plan on paper to the walls, doors and rooms of *)
(* the editor (apps/planner/photo_conversion.py, photo_geometry.py).       *)
(*                                                                         *)
(* Points are whole pixels and a scale is a number of millimetres per      *)
(* pixel.  Walls are level or upright, as square_walls leaves those of a   *)
(* plan, and no two run side by side within the width of a joint, which    *)
(* would slant them; slanted walls and fractions of a pixel are left out.  *)
(***************************************************************************)
EXTENDS Integers, Sequences, FiniteSets, FiniteSetsExt, SequencesExt

CONSTANTS
    Sheet,      \* what is on the paper and what is read of it
    Measures,   \* sizes the architect may give, in millimetres; a side not given is 0
    PhotoWidth, \* of the photograph, in pixels
    PhotoHeight

ASSUME TracingAssumption ==
    /\ PhotoWidth \in Nat \ {0} /\ PhotoHeight \in Nat \ {0}
    /\ Measures \subseteq [width : Nat, height : Nat]

VARIABLES
    sheet,      \* the paper
    answer      \* what convert_photo has answered

tracingVars == <<sheet, answer>>

\* Lengths of the code in millimetres, and an area in square millimetres.
Provisional == 10
JoinReach == 150
DoorwayWidth == 1200
OpeningReach == 300
RoomArea == 500000
RoomWidth == 400

-----------------------------------------------------------------------------
(* Points and walls. *)

Square(n) == n * n
Abs(n) == IF n < 0 THEN -n ELSE n
Apart(p, q) == Square(p[1] - q[1]) + Square(p[2] - q[2])
Within(p, q, reach, scale) == Apart(p, q) * Square(scale) <= Square(reach)
Smaller(a, b) == IF a < b THEN a ELSE b
Larger(a, b) == IF a < b THEN b ELSE a
Clamp(n, a, b) == Larger(Smaller(a, b), Smaller(n, Larger(a, b)))
Upright(w) == w[1][1] = w[2][1]
Parallel(v, w) == Upright(v) <=> Upright(w)
Nearest(p, w) == <<Clamp(p[1], w[1][1], w[2][1]), Clamp(p[2], w[1][2], w[2][2])>>
\* Where the lines of two walls that are not parallel meet.
LinesMeet(v, w) == IF Upright(v) THEN <<v[1][1], w[1][2]>> ELSE <<w[1][1], v[1][2]>>
OnSide(p, w) == p \notin {w[1], w[2]} /\ Nearest(p, w) = p
InsidePhoto(p) == <<Clamp(p[1], 0, PhotoWidth), Clamp(p[2], 0, PhotoHeight)>>
LengthOf(w) == Larger(Abs(w[1][1] - w[2][1]), Abs(w[1][2] - w[2][2]))
Ends(walls) == (DOMAIN walls) \X {1, 2}
End(walls, e) == walls[e[1]][e[2]]

\* The index of least cost, the first of them.
Least(S, Cost(_)) ==
    CHOOSE k \in S : \A j \in S : Cost(k) < Cost(j) \/ (Cost(k) = Cost(j) /\ k <= j)

\* What is reached from the members of S through the pairs of R.
RECURSIVE Closure(_, _)
Closure(R, S) ==
    LET more == S \cup {r[2] : r \in {r \in R : r[1] \in S}}
    IN IF more = S THEN S ELSE Closure(R, more)

-----------------------------------------------------------------------------
(* join_walls. *)

Mean(S, Value(_)) == MapThenSumSet(Value, S) \div Cardinality(S)

\* _corner: walls that cross give the point where they do; others, the middle of
\* their ends.
Corner(walls, ends, own) ==
    LET upright == {w \in own : Upright(w)}
    IN IF upright # {} /\ upright # own
       THEN <<Mean(upright, LAMBDA w : w[1][1]), Mean(own \ upright, LAMBDA w : w[1][2])>>
       ELSE <<Mean(ends, LAMBDA e : End(walls, e)[1]), Mean(ends, LAMBDA e : End(walls, e)[2])>>

Together(walls, scale) ==
    {pair \in Ends(walls) \X Ends(walls) :
        Within(End(walls, pair[1]), End(walls, pair[2]), JoinReach, scale)}

\* Where an end goes: those that are one corner meet in it.
CornerOf(walls, members, e, scale) ==
    LET first == End(walls, CHOOSE f \in members :
                        \A g \in members : f[1] < g[1] \/ (f[1] = g[1] /\ f[2] <= g[2]))
        point == Corner(walls, members, {walls[f[1]] : f \in members})
    IN CASE Cardinality(members) = 1 -> End(walls, e)
         [] Within(point, first, 3 * JoinReach, scale) -> point
         [] OTHER -> Corner(walls, members, {})
Cornered(walls, scale) ==
    LET together == Together(walls, scale)
        at(e) == CornerOf(walls, Closure(together, {e}), e, scale)
    IN [k \in DOMAIN walls |-> <<at(<<k, 1>>), at(<<k, 2>>)>>]

\* The ends left alone, in order.
Alone(walls, scale) ==
    SelectSeq(FoldLeftDomain(LAMBDA done, k : done \o <<<<k, 1>>, <<k, 2>>>>, <<>>, walls),
        LAMBDA e : \A f \in Ends(walls) \ {e} :
            ~Within(End(walls, e), End(walls, f), JoinReach, scale))

\* An end near the side of another wall is brought onto it.
Reached(walls, e, scale) ==
    LET own == walls[e[1]]
        p == End(walls, e)
        near == {k \in DOMAIN walls \ {e[1]} :
                    walls[k][1] # walls[k][2] /\ Within(p, Nearest(p, walls[k]), JoinReach, scale)}
        wall == walls[Least(near, LAMBDA k : Apart(p, Nearest(p, walls[k])))]
        crosses == ~Parallel(own, wall) /\ Within(LinesMeet(own, wall), p, 2 * JoinReach, scale)
    IN IF near = {} THEN walls
       ELSE [walls EXCEPT ![e[1]][e[2]] = IF crosses THEN LinesMeet(own, wall) ELSE Nearest(p, wall)]

HasLength(w) == w[1] # w[2]
JoinCorners(walls, scale) == SelectSeq(Cornered(walls, scale), HasLength)
JoinWalls(walls, scale) ==
    SelectSeq(FoldLeft(LAMBDA done, e : Reached(done, e, scale),
                       Cornered(walls, scale), Alone(walls, scale)), HasLength)

-----------------------------------------------------------------------------
(* place_openings.  An opening is [kind, from, to]. *)

\* _holder: the wall both edges lie on, or 0.
Holder(walls, p, q, scale) ==
    LET far(k) == Larger(Apart(p, Nearest(p, walls[k])), Apart(q, Nearest(q, walls[k])))
        near == {k \in DOMAIN walls : far(k) * Square(scale) <= Square(OpeningReach)}
    IN IF near = {} THEN 0 ELSE Least(near, far)

\* What becomes of the first of two walls that are one, <<wall, wall, end, end>>:
\* it keeps the way it ran.
MergedAtDoor(walls, s) ==
    LET near == <<walls[s[1]][3 - s[3]], walls[s[2]][s[4]]>>
    IN IF s[3] = 2 THEN near ELSE Reverse(near)
Merged(walls, s) ==
    LET far == <<walls[s[1]][3 - s[3]], walls[s[2]][3 - s[4]]>>
    IN IF s[3] = 2 THEN far ELSE Reverse(far)

\* _close_gap: two walls in line, one on each side of the door, are one.
CloseGap(walls, p, q, scale) ==
    LET across(w, point) == IF Upright(w) THEN point[1] - w[1][1] ELSE point[2] - w[1][2]
        sides == {s \in (DOMAIN walls) \X (DOMAIN walls) \X {1, 2} \X {1, 2} :
                    /\ s[1] # s[2] /\ Parallel(walls[s[1]], walls[s[2]])
                    /\ Abs(across(walls[s[1]], walls[s[2]][s[4]])) * scale <= JoinReach
                    /\ Within(walls[s[1]][s[3]], p, OpeningReach, scale)
                    /\ Within(walls[s[2]][s[4]], q, OpeningReach, scale)}
        order(s) == ((s[1] * (Len(walls) + 1) + s[2]) * 2 + s[3]) * 2 + s[4]
        first == CHOOSE s \in sides : \A t \in sides : order(s) <= order(t)
    IN IF sides = {} THEN walls
       ELSE RemoveAt([walls EXCEPT ![first[1]] = Merged(walls, first)], first[2])

ClosedAt(walls, o, scale) ==
    LET once == CloseGap(walls, o.from, o.to, scale)
    IN CASE Holder(walls, o.from, o.to, scale) # 0 -> walls
         [] Holder(once, o.from, o.to, scale) # 0 -> once
         [] OTHER -> CloseGap(once, o.to, o.from, scale)
WithDoors(walls, openings, scale) ==
    FoldLeft(LAMBDA done, o : ClosedAt(done, o, scale), walls, openings)

\* Where each starts and ends, in pixels from the start of its wall.
OnWall(walls, o, scale) ==
    LET k == Holder(walls, o.from, o.to, scale)
        along(p) == LengthOf(<<walls[k][1], Nearest(p, walls[k])>>)
    IN IF k = 0 THEN <<>>
       ELSE IF along(o.from) = along(o.to) THEN <<>>
       ELSE <<[kind |-> o.kind, wall |-> k,
               from |-> Smaller(along(o.from), along(o.to)),
               to |-> Larger(along(o.from), along(o.to))]>>
PlaceOpenings(walls, openings, scale) ==
    FoldLeft(LAMBDA done, o : done \o OnWall(walls, o, scale), <<>>, openings)

-----------------------------------------------------------------------------
(* close_rooms.  A room is the set of its sides, each from corner to corner *)
(* with the room always on the same hand.                                  *)

Sign(n) == CASE n > 0 -> 1 [] n < 0 -> -1 [] OTHER -> 0
\* The direction in which a wall points at one of its ends.
Ahead(walls, e) ==
    LET here == End(walls, e)
        there == walls[e[1]][3 - e[2]]
    IN <<Sign(here[1] - there[1]), Sign(here[2] - there[2])>>

Loose(walls) ==
    {e \in Ends(walls) : \A k \in DOMAIN walls \ {e[1]} :
        End(walls, e) \notin {walls[k][1], walls[k][2]} /\ ~OnSide(End(walls, e), walls[k])}

\* _doorways: what a loose end has ahead, loose ends before walls.
Facing(walls, loose, e, scale) ==
    LET p == End(walls, e)
        ahead == Ahead(walls, e)
        along(q) == ahead[1] * (q[1] - p[1]) + ahead[2] * (q[2] - p[2])
        across(q) == Abs(ahead[1] * (q[2] - p[2]) - ahead[2] * (q[1] - p[1]))
        hit(k) == LinesMeet(walls[e[1]], walls[k])
        ends == {f \in loose :
                    /\ f[1] # e[1] /\ Parallel(walls[e[1]], walls[f[1]])
                    /\ across(End(walls, f)) * scale <= JoinReach}
        sides == {k \in DOMAIN walls \ {e[1]} :
                    ~Parallel(walls[e[1]], walls[k]) /\ Nearest(hit(k), walls[k]) = hit(k)}
        all == {[point |-> End(walls, f), along |-> along(End(walls, f)), wall |-> 0,
                 rank |-> 2 * f[1] + f[2]] : f \in ends}
               \cup {[point |-> hit(k), along |-> along(hit(k)), wall |-> k,
                      rank |-> 2 * Len(walls) + 2 + k] : k \in sides}
    IN {c \in all : c.along > 0 /\ c.along * scale <= DoorwayWidth}

\* The nearest of them closes the room, without filling the doorway.
Doorways(walls, scale) ==
    LET loose == Loose(walls)
        facing == {f \in {<<e, Facing(walls, loose, e, scale)>> : e \in loose} : f[2] # {}}
        nearest(S) == CHOOSE c \in S : \A d \in S :
                          c.along < d.along \/ (c.along = d.along /\ c.rank <= d.rank)
    IN {[end |-> End(walls, f[1]), target |-> nearest(f[2])] : f \in facing}

Crossings(walls, k) ==
    {LinesMeet(walls[k], walls[j]) : j \in {j \in DOMAIN walls :
        /\ ~Parallel(walls[k], walls[j])
        /\ OnSide(LinesMeet(walls[k], walls[j]), walls[k])
        /\ OnSide(LinesMeet(walls[k], walls[j]), walls[j])}}

BothWays(pairs) == pairs \cup {<<pair[2], pair[1]>> : pair \in pairs}

\* What is left once the walls that close nothing are taken away.
RECURSIVE Pruned(_)
Pruned(links) ==
    LET corners == {p \in {l[1] : l \in links} : Cardinality({l \in links : l[1] = p}) >= 2}
        kept == {l \in links : l[1] \in corners /\ l[2] \in corners}
    IN IF kept = links THEN links ELSE Pruned(kept)

\* _graph: the walls from stop to stop, and the lines of the doorways.
Graph(walls, doorways) ==
    LET stops(k) ==
            {walls[k][1], walls[k][2]} \cup Crossings(walls, k)
            \cup {d.target.point : d \in {d \in doorways : d.target.wall = k}}
            \cup {p \in {End(walls, e) : e \in Ends(walls)} : OnSide(p, walls[k])}
        pieces(S) == {pair \in S \X S :
            pair[1] # pair[2] /\ \A r \in S : ~OnSide(r, pair)}
    IN Pruned(UNION {pieces(stops(k)) : k \in DOMAIN walls}
              \cup BothWays({<<d.end, d.target.point>> : d \in doorways}))
Network(walls, scale) == Graph(walls, Doorways(walls, scale))

\* Directions in the order of their angle: up, right, down and left.
Heads(l) ==
    CASE Sign(l[2][2] - l[1][2]) = -1 -> 0
      [] Sign(l[2][1] - l[1][1]) = 1 -> 1
      [] Sign(l[2][2] - l[1][2]) = 1 -> 2
      [] OTHER -> 3

\* _faces: at a corner, the side before the one we came by.
TurnNext(links, l) ==
    LET back == Heads(<<l[2], l[1]>>)
        turns == {m \in links : m[1] = l[2]}
    IN CHOOSE m \in turns : \A n \in turns : (Heads(m) - back - 1) % 4 <= (Heads(n) - back - 1) % 4
Turn(links, l) ==
    LET back == Heads(<<l[2], l[1]>>)
        turns == {m \in links : m[1] = l[2]}
    IN CHOOSE m \in turns : \A n \in turns : (back - Heads(m) - 1) % 4 <= (back - Heads(n) - 1) % 4

Cross(l) == l[1][1] * l[2][2] - l[1][2] * l[2][1]
TwiceArea(sides) == MapThenSumSet(Cross, sides)
Perimeter(sides) == MapThenSumSet(LengthOf, sides)

Faces(links) ==
    LET next == {<<l, Turn(links, l)>> : l \in links}
    IN {face \in {Closure(next, {l}) : l \in links} : Cardinality(face) >= 3 /\ TwiceArea(face) > 0}

\* _inside.
Inside(p, sides) ==
    Cardinality({l \in sides : (l[1][2] > p[2]) # (l[2][2] > p[2]) /\ p[1] < l[1][1]}) % 2 = 1

SidesOf(outline) ==
    {<<outline[i], outline[IF i = Len(outline) THEN 1 ELSE i + 1]>> : i \in DOMAIN outline}

\* _centre.
Centre(outline) ==
    LET sides == SidesOf(outline)
        area == TwiceArea(sides)
        moment(i) == MapThenSumSet(LAMBDA l : (l[1][i] + l[2][i]) * Cross(l), sides) \div (3 * area)
    IN IF area # 0 THEN <<moment(1), moment(2)>>
       ELSE <<Mean(DOMAIN outline, LAMBDA i : outline[i][1]),
              Mean(DOMAIN outline, LAMBDA i : outline[i][2])>>

\* What is closed is a room unless it is too small or too narrow.
BigEnough(face, scale) ==
    /\ TwiceArea(face) * Square(scale) >= 2 * RoomArea
    /\ TwiceArea(face) * scale >= RoomWidth * Perimeter(face)

\* A room read where the walls close nothing, with its corners on those of walls.
Snapped(walls, outline, scale) ==
    LET ends == {End(walls, e) : e \in Ends(walls)}
        near(p) == {q \in ends : \A r \in ends : Apart(p, q) <= Apart(p, r)}
        there(p) == {q \in near(p) : Within(p, q, JoinReach, scale)}
    IN [i \in DOMAIN outline |->
          IF there(outline[i]) = {} THEN outline[i] ELSE CHOOSE q \in there(outline[i]) : TRUE]

\* Each name read goes to the smallest room around it, unless it has one.
NamesAmong(closed, walls, read, scale) ==
    LET around(room) == {face \in closed : Inside(Centre(room.outline), face)}
        give(names, room) ==
            LET face == CHOOSE f \in around(room) :
                            \A g \in around(room) : TwiceArea(f) <= TwiceArea(g)
            IN IF around(room) = {} \/ names[face] # "" THEN names
               ELSE [names EXCEPT ![face] = room.name]
        names == FoldLeft(give, [face \in closed |-> ""], read)
        loose == SelectSeq(read, LAMBDA room : around(room) = {})
    IN [rooms |-> {[name |-> names[face], sides |-> face] : face \in closed},
        asRead |-> [i \in DOMAIN loose |-> [name |-> loose[i].name,
                        outline |-> Snapped(walls, loose[i].outline, scale)]]]
NamesGiven(walls, read, scale) ==
    NamesAmong({face \in Faces(Network(walls, scale)) : BigEnough(face, scale)}, walls, read, scale)

-----------------------------------------------------------------------------
(* A reading: [isPlan, walls, openings, rooms, cotas].  A cota is            *)
(* [from, to, mm], the length it states.                                   *)

\* _cotas: those that measure something and say how much.
Cotas(reading) ==
    SelectSeq(FoldLeft(LAMBDA done, c : Append(done,
                  [c EXCEPT !.from = InsidePhoto(c.from), !.to = InsidePhoto(c.to)]),
              <<>>, reading.cotas),
              LAMBDA c : c.mm > 0 /\ c.from # c.to)

\* missing_sides: a cota slanted by more than ten degrees gives neither.
Slope == 176
MissingSides(reading) ==
    LET dx(c) == Abs(c.from[1] - c.to[1])
        dy(c) == Abs(c.from[2] - c.to[2])
        cotas == ToSet(Cotas(reading))
    IN {side \in {"width", "height"} :
        \A c \in cotas : IF side = "width" THEN 1000 * dy(c) > Slope * dx(c)
                         ELSE 1000 * dx(c) > Slope * dy(c)}

\* read_scale: of the scales the cotas give, the one in the middle.
Median(seq) ==
    LET sorted == SortSeq(seq, <)
        n == Len(seq)
    IN (sorted[(n + 1) \div 2] + sorted[n \div 2 + 1]) \div 2
Distance(p, q) ==
    CHOOSE d \in 0..(PhotoWidth + PhotoHeight) : Square(d) <= Apart(p, q) /\ Apart(p, q) < Square(d + 1)
ReadScale(reading) ==
    LET scales == FoldLeft(LAMBDA done, c : Append(done, c.mm \div Distance(c.from, c.to)),
                           <<>>, Cotas(reading))
    IN IF scales = <<>> THEN Provisional ELSE Median(scales)

SidesGiven(measures) == {side \in {"width", "height"} : measures[side] > 0}
\* scale_from_measures: from the span of all the walls; 0 for None.
ScaleFromMeasures(reading, measures) ==
    LET points == {InsidePhoto(End(reading.walls, e)) : e \in Ends(reading.walls)}
        across(side) == {IF side = "width" THEN p[1] ELSE p[2] : p \in points}
        span(side) == IF points = {} THEN 0 ELSE Max(across(side)) - Min(across(side))
        sides == {side \in SidesGiven(measures) : span(side) > 0}
    IN IF sides = {} THEN 0 ELSE Mean(sides, LAMBDA side : measures[side] \div span(side))

\* to_plan, at a scale or, without one, at that of the cotas of the reading.
WallsRead(reading) ==
    SelectSeq(FoldLeft(LAMBDA done, w : Append(done, <<InsidePhoto(w[1]), InsidePhoto(w[2])>>),
                       <<>>, reading.walls), HasLength)
NoPlan == [walls |-> <<>>, openings |-> <<>>, rooms |-> {}, asRead |-> <<>>, cotas |-> <<>>]
PlanWith(reading, walls, openings, named, scale) ==
    [walls |-> walls, openings |-> PlaceOpenings(walls, openings, scale),
     rooms |-> named.rooms,
     asRead |-> SelectSeq(named.asRead, LAMBDA r : TwiceArea(SidesOf(r.outline)) # 0),
     cotas |-> Cotas(reading)]
PlanAt(reading, scale) ==
    LET openings == FoldLeft(LAMBDA done, o : Append(done,
                        [o EXCEPT !.from = InsidePhoto(o.from), !.to = InsidePhoto(o.to)]),
                        <<>>, SelectSeq(reading.openings, LAMBDA o : o.kind \in {"door", "window"}))
        rooms == FoldLeft(LAMBDA done, r : Append(done,
                        [r EXCEPT !.outline = [i \in DOMAIN r.outline |-> InsidePhoto(r.outline[i])]]),
                        <<>>, SelectSeq(reading.rooms, LAMBDA r : Len(r.outline) >= 3))
        PlanOf(walls) ==
            PlanWith(reading, walls, openings, NamesGiven(walls, rooms, scale), scale)
    IN PlanOf(WithDoors(JoinWalls(WallsRead(reading), scale), openings, scale))
ToPlan(reading, known) ==
    IF ~reading.isPlan THEN NoPlan
    ELSE PlanAt(reading, IF known = 0 THEN ReadScale(reading) ELSE known)

-----------------------------------------------------------------------------
NotGiven == [width |-> 0, height |-> 0]

Unasked == [status |-> "none", missing |-> {}, scale |-> 0, source |-> "", plan |-> NoPlan]

TracingInit ==
    /\ sheet \in Sheet
    /\ answer = Unasked

\* convert_photo: without measures the cotas are looked for first, and a side
\* that has none is asked for.  The screen skips the measures once asked.
Convert(measures, skip) ==
    LET quick == measures = NotGiven /\ ~skip
        missing == IF quick /\ sheet.quick.isPlan THEN MissingSides(sheet.quick) ELSE {}
        \* The cotas of the whole reading rule; without any, the quick one's.
        cotas == IF Cotas(sheet.full) # <<>> THEN sheet.full ELSE sheet.quick
        scale == CASE measures # NotGiven -> ScaleFromMeasures(sheet.full, measures)
                   [] quick /\ sheet.full.isPlan /\ Cotas(cotas) # <<>> -> ReadScale(cotas)
                   [] OTHER -> 0
    IN /\ answer.status # "plan"
       /\ skip => answer.status = "asks"
       /\ answer' = IF missing # {}
                    THEN [answer EXCEPT !.status = "asks", !.missing = missing]
                    ELSE [status |-> "plan", missing |-> {}, scale |-> scale,
                          source |-> CASE scale = 0 -> "" [] measures # NotGiven -> "medidas"
                                       [] OTHER -> "cotas",
                          plan |-> ToPlan(sheet.full, scale)]
       /\ UNCHANGED sheet

TracingNext == \E measures \in Measures \cup {NotGiven}, skip \in BOOLEAN : Convert(measures, skip)

TracingSpec == TracingInit /\ [][TracingNext]_tracingVars

-----------------------------------------------------------------------------
(* What the plan that comes back is true to. *)

Scale == IF answer.scale = 0 THEN ReadScale(sheet.full) ELSE answer.scale
PlanWalls == answer.plan.walls

\* Corners meet: no end of a wall of the plan is left a little off another wall.
CornersMeet ==
    \A e \in Ends(PlanWalls), k \in DOMAIN PlanWalls :
        LET p == End(PlanWalls, e)
            q == Nearest(p, PlanWalls[k])
        IN Within(p, q, JoinReach, Scale) => p = q

\* Space by space, square by square of the drawing: what the walls and the lines
\* of the doorways hold apart is in different rooms, and nothing else is.
\* Two doorways across one another are the exception.
Lines(doorways) == {<<d.end, d.target.point>> : d \in doorways}
Marks(barriers, i) == {-9} \cup UNION {{b[1][i], b[2][i]} : b \in barriers}
Squares(barriers) == {<<x + 1, y + 1>> : x \in Marks(barriers, 1), y \in Marks(barriers, 2)}
OpenBetween(c, d, barriers) ==
    \A b \in barriers : ~(\E i \in {1, 2} :
        /\ b[1][i] = b[2][i] /\ c[3 - i] = d[3 - i]
        /\ (b[1][i] > c[i]) # (b[1][i] > d[i])
        /\ (b[1][3 - i] > c[3 - i]) # (b[2][3 - i] > c[3 - i]))
NextTo(squares) ==
    LET after(n, S) == {m \in S : m > n /\ \A o \in S : o > n => o >= m}
        xs == {c[1] : c \in squares}
        ys == {c[2] : c \in squares}
    IN UNION {{<<c, <<x, c[2]>>>> : x \in after(c[1], xs)}
              \cup {<<c, <<c[1], y>>>> : y \in after(c[2], ys)} : c \in squares}
RECURSIVE SpacesOf(_, _)
SpacesOf(open, squares) ==
    IF squares = {} THEN {}
    ELSE LET space == Closure(open, {CHOOSE c \in squares : TRUE})
         IN {space} \cup SpacesOf(open, squares \ space)
Cut(barriers, squares) ==
    LET open == {pair \in BothWays(NextTo(squares)) : OpenBetween(pair[1], pair[2], barriers)}
    IN SpacesOf(open, squares)
CrossOneAnother(lines) ==
    \E c, d \in lines :
        ~Parallel(c, d) /\ OnSide(LinesMeet(c, d), c) /\ OnSide(LinesMeet(c, d), d)
Matched(spaces, faces) ==
    LET around(c) == {face \in faces : Inside(c, face)}
    IN /\ \A space \in spaces : Cardinality({around(c) : c \in space}) = 1
       /\ Cardinality({around(c) : c \in UNION spaces}) = Cardinality(spaces)
       /\ \A room \in answer.plan.rooms : room.sides \in faces
FacesMatch(barriers, doorways) ==
    Matched(Cut(barriers, Squares(barriers)), Faces(Graph(PlanWalls, doorways)))
RoomsMatch(doorways) ==
    CrossOneAnother(Lines(doorways)) \/ FacesMatch(ToSet(PlanWalls) \cup Lines(doorways), doorways)
RoomsAreTheSpaces == answer.status = "plan" => RoomsMatch(Doorways(PlanWalls, Scale))

\* Each door or window drawn on a wall, or in the gap between two in line, comes
\* back on a wall of the plan, where it was drawn; and walls run where they were
\* drawn and through those doors, and nowhere else.
Runs(w, S) ==
    LET stops == {w[1], w[2]} \cup {p \in S : OnSide(p, w)}
    IN {pair \in stops \X stops : pair[1] # pair[2] /\ \A p \in stops : ~OnSide(p, pair)}
On(pair, walls) == \E w \in walls : \A p \in {pair[1], pair[2]} : p = Nearest(p, w)
WhereDrawn(joined) ==
    LET drawn == ToSet(sheet.full.openings)
        placed == ToSet(answer.plan.openings)
        walls == ToSet(PlanWalls)
        ends == UNION {{w[1], w[2]} : w \in joined \cup walls}
        at(o, n) ==
            LET w == PlanWalls[o.wall]
            IN <<w[1][1] + Sign(w[2][1] - w[1][1]) * n, w[1][2] + Sign(w[2][2] - w[1][2]) * n>>
        same(o, d) ==
            /\ o.kind = d.kind
            /\ \A p \in {d.from, d.to} :
                  \E n \in {o.from, o.to} : Within(at(o, n), p, OpeningReach, Scale)
        through(pair) ==
            \E d \in drawn : \A p \in {pair[1], pair[2]} :
                Within(p, Nearest(p, <<d.from, d.to>>), OpeningReach, Scale)
        inGap(d) ==
            \E v, w \in joined : \E i, j \in {1, 2} :
                /\ v # w /\ Parallel(v, w)
                /\ On(<<d.from, d.to>>, {<<v[i], w[j]>>})
                /\ Within(v[i], d.from, OpeningReach, Scale)
                /\ Within(w[j], d.to, OpeningReach, Scale)
    IN /\ \A o \in placed : \E d \in drawn : same(o, d)
       /\ \A d \in drawn : inGap(d) \/ On(<<d.from, d.to>>, joined) => \E o \in placed : same(o, d)
       /\ \A w \in walls : \A pair \in Runs(w, ends) : On(pair, joined) \/ through(pair)
       /\ \A w \in joined : \A pair \in Runs(w, ends) : On(pair, walls)
OpeningsAreWhereDrawn ==
    answer.status = "plan" /\ sheet.full.isPlan =>
        WhereDrawn(ToSet(JoinWalls(WallsRead(sheet.full), Scale)))
=============================================================================
