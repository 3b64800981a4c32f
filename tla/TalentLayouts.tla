---------------------------- MODULE TalentLayouts ----------------------------
(***************************************************************************)
(* How a player lays out the cubes of a hero's talent: a hero has templates *)
(* of cubes with a style each, and the cubes in force, which are a copy of  *)
(* those of the template in use (handlers/talent, models/game/heros.rs).    *)
(* The copy is kept row by row by the same handlers that change the         *)
(* templates, and no table has a key that would stop two rows at one place. *)
(***************************************************************************)
EXTENDS Growth

CONSTANTS
    Template,       \* template_id
    FirstTemplate,  \* the one in use when a hero is created
    NoStyle,        \* style 0
    Nowhere,        \* no place, no cube
    OpeningCubes,   \* OpeningCubes[h]: the scheme of h's first talent
    Scheme,         \* Scheme[k]: the cubes of talent_scheme k, as [at, cube]
    Moves,          \* bound: what a request takes up and puts down, [take, put]
    Sculpted        \* bound: the heroes whose talents are laid out

ASSUME LayoutAssumption ==
    /\ FirstTemplate \in Template /\ NoStyle \notin Style
    /\ \A h \in Hero : OpeningCubes[h] \in Seq([at : Nat, cube : Nat])
    /\ \A k \in DOMAIN Scheme : Scheme[k] \in Seq([at : Nat, cube : Nat])
    /\ \A move \in Moves : /\ move.take \in Nat \cup {Nowhere}
                           /\ move.put \in [at : Nat, cube : Nat] \cup {Nowhere}
    /\ Nowhere \notin Nat
    /\ Sculpted \subseteq Hero

VARIABLES
    layouts,   \* layouts[h][t]: rows of hero_talent_template_cubes
    active,    \* active[h]: rows of hero_talent_cubes
    inUse,     \* inUse[h]: heroes.use_talent_template_id
    worn       \* worn[h][t]: hero_talent_templates.style

layoutVars == <<layouts, active, inUse, worn>>

\* create_hero gives the first template and the hero the same cubes.
LayoutInit ==
    /\ layouts = [h \in Hero |-> [t \in Template |->
                    IF t = FirstTemplate THEN OpeningCubes[h] ELSE <<>>]]
    /\ active = OpeningCubes
    /\ inUse = [h \in Hero |-> FirstTemplate]
    /\ worn = [h \in Hero |-> [t \in Template |-> NoStyle]]

-----------------------------------------------------------------------------
\* A statement about a template: what is the hero, the template, and a cube, a
\* place, a scheme or a style.
HeroOf(c) == What(c)[1]
TemplateOf(c) == What(c)[2]
Detail(c) == What(c)[3]

On(op, h, t, x) == Stmt(op, <<h, t, x>>, 0)
Without(cubes, at) == Those(cubes, LAMBDA cube : cube.at # at)

Frame == UNCHANGED <<owned, growthVars>> /\ Unrecorded

\* put_talent_cube: the template loses the cube taken up and gets the one put
\* down, after whatever lies there; then the same is done to the cubes in force.
Put(put, remove, insert, h, t) ==
    IF put = Nowhere THEN <<>> ELSE << On(remove, h, t, put.at), On(insert, h, t, put) >>

TakeUp(take, remove, h, t) == IF take = Nowhere THEN <<>> ELSE << On(remove, h, t, take) >>

PutCube(c) ==
    /\ At(c, "putCube")
    /\ LET h == HeroOf(c)  t == TemplateOf(c)  move == Detail(c)
       IN IF h \notin heroes THEN Decline(c)
          ELSE /\ Proceed(c, TakeUp(move.take, "removeCube", h, t)
                             \o Put(move.put, "removeCube", "insertCube", h, t)
                             \o << On("syncCubes", h, t, move) >>)
               /\ Unrecorded
    /\ UNCHANGED <<owned, growthVars, layoutVars>>

RemoveCube(c) ==
    /\ At(c, "removeCube")
    /\ layouts' = [layouts EXCEPT ![HeroOf(c)][TemplateOf(c)] = Without(@, Detail(c))]
    /\ Proceed(c, <<>>)
    /\ UNCHANGED <<active, inUse, worn>> /\ Frame

InsertCube(c) ==
    /\ At(c, "insertCube")
    /\ layouts' = [layouts EXCEPT ![HeroOf(c)][TemplateOf(c)] = Append(@, Detail(c))]
    /\ Proceed(c, <<>>)
    /\ UNCHANGED <<active, inUse, worn>> /\ Frame

\* What sync_active_talent_cubes does to the cubes in force.
ActiveChanges(h, t, move) ==
    TakeUp(move.take, "removeActive", h, t)
    \o Put(move.put, "removeActive", "insertActive", h, t)

\* Mutant of SyncCubes: the cubes in force follow every template.
SyncAnyTemplate(c) ==
    /\ At(c, "syncCubes")
    /\ Proceed(c, ActiveChanges(HeroOf(c), TemplateOf(c), Detail(c)))
    /\ UNCHANGED layoutVars /\ Frame

\* Only if the template is in use.
SyncCubes(c) ==
    /\ At(c, "syncCubes")
    /\ Proceed(c, IF TemplateOf(c) = inUse[HeroOf(c)]
                  THEN ActiveChanges(HeroOf(c), TemplateOf(c), Detail(c)) ELSE <<>>)
    /\ UNCHANGED layoutVars /\ Frame

RemoveActive(c) ==
    /\ At(c, "removeActive")
    /\ active' = [active EXCEPT ![HeroOf(c)] = Without(@, Detail(c))]
    /\ Proceed(c, <<>>)
    /\ UNCHANGED <<layouts, inUse, worn>> /\ Frame

InsertActive(c) ==
    /\ At(c, "insertActive")
    /\ active' = [active EXCEPT ![HeroOf(c)] = Append(@, Detail(c))]
    /\ Proceed(c, <<>>)
    /\ UNCHANGED <<layouts, inUse, worn>> /\ Frame

-----------------------------------------------------------------------------
InsertEach(op, h, t, cubes) == [i \in DOMAIN cubes |-> On(op, h, t, cubes[i])]

\* The cubes in force are replaced by others.
ReplaceActive(h, t, cubes) ==
    << On("wipeActive", h, t, Nowhere) >> \o InsertEach("insertActive", h, t, cubes)

\* load_talent_scheme: which template is in use is read at the start.
LoadScheme(c) ==
    /\ At(c, "loadScheme")
    /\ LET h == HeroOf(c)  t == TemplateOf(c)  cubes == Scheme[Detail(c)]
       IN IF h \notin heroes THEN Decline(c)
          ELSE /\ Proceed(c, << On("wipeCubes", h, t, Nowhere) >>
                             \o InsertEach("insertCube", h, t, cubes)
                             \o (IF inUse[h] = t THEN ReplaceActive(h, t, cubes) ELSE <<>>))
               /\ Unrecorded
    /\ UNCHANGED <<owned, growthVars, layoutVars>>

WipeCubes(c) ==
    /\ At(c, "wipeCubes")
    /\ layouts' = [layouts EXCEPT ![HeroOf(c)][TemplateOf(c)] = <<>>]
    /\ Proceed(c, <<>>)
    /\ UNCHANGED <<active, inUse, worn>> /\ Frame

WipeActive(c) ==
    /\ At(c, "wipeActive")
    /\ active' = [active EXCEPT ![HeroOf(c)] = <<>>]
    /\ Proceed(c, <<>>)
    /\ UNCHANGED <<layouts, inUse, worn>> /\ Frame

\* switch_talent_template: the hero says last which template it uses.
SwitchTemplate(c) ==
    /\ At(c, "switchTemplate")
    /\ LET h == HeroOf(c)  t == TemplateOf(c)
       IN IF h \notin heroes THEN Decline(c)
          ELSE /\ Proceed(c, ReplaceActive(h, t, layouts[h][t]) \o << On("useTemplate", h, t, Nowhere) >>)
               /\ Unrecorded
    /\ UNCHANGED <<owned, growthVars, layoutVars>>

UseTemplate(c) ==
    /\ At(c, "useTemplate")
    /\ inUse' = [inUse EXCEPT ![HeroOf(c)] = TemplateOf(c)]
    /\ Proceed(c, <<>>)
    /\ UNCHANGED <<layouts, active, worn>> /\ Frame

\* apply_talent_style: a style the hero has not unlocked is an error.
WearStyle(c) ==
    /\ At(c, "wearStyle")
    /\ LET h == HeroOf(c)  s == Detail(c)
       IN IF h \notin heroes \/ (s # NoStyle /\ s \notin styles[h]) THEN Decline(c)
          ELSE Proceed(c, << On("saveWorn", h, TemplateOf(c), s) >>) /\ Unrecorded
    /\ UNCHANGED <<owned, growthVars, layoutVars>>

SaveWorn(c) ==
    /\ At(c, "saveWorn")
    /\ worn' = [worn EXCEPT ![HeroOf(c)][TemplateOf(c)] = Detail(c)]
    /\ Proceed(c, <<>>)
    /\ UNCHANGED <<layouts, active, inUse>> /\ Frame

-----------------------------------------------------------------------------
AskLayout(c, stmt) == Begin(c, Nothing, Nothing, << stmt >>) /\ UNCHANGED <<growthVars, layoutVars>>

LayoutRequest(c) ==
    \E h \in Sculpted, t \in Template :
       \/ \E move \in Moves : AskLayout(c, On("putCube", h, t, move))
       \/ \E k \in DOMAIN Scheme : AskLayout(c, On("loadScheme", h, t, k))
       \/ AskLayout(c, On("switchTemplate", h, t, Nowhere))
       \/ \E s \in Style \cup {NoStyle} : AskLayout(c, On("wearStyle", h, t, s))

LayoutStep(c) ==
    \/ PutCube(c) \/ RemoveCube(c) \/ InsertCube(c)
    \/ SyncCubes(c) \/ RemoveActive(c) \/ InsertActive(c)
    \/ LoadScheme(c) \/ WipeCubes(c) \/ WipeActive(c)
    \/ SwitchTemplate(c) \/ UseTemplate(c)
    \/ WearStyle(c) \/ SaveWorn(c)

-----------------------------------------------------------------------------
\* A place holds one cube.
OneEach(cubes) == \A i, j \in DOMAIN cubes : cubes[i].at = cubes[j].at => i = j

\* The cubes in force are those of the template in use.
InForce(h) == ToSet(active[h]) = ToSet(layouts[h][inUse[h]])
=============================================================================
