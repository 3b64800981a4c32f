---------------------------------- MODULE Gm ----------------------------------
(***************************************************************************)
(* The commands a player types to the bot of the chat (on_send_msg in       *)
(* handlers/chat.rs, handlers/gm): items, currencies, psychubes, heroes and *)
(* the level.  A command is a handler as any other, and works on the same   *)
(* stock, but nothing is paid.                                             *)
(***************************************************************************)
EXTENDS Inventory

CONSTANTS
    Gifts,       \* bound: what is typed, as <<thing, amount>>
    LevelArgs    \* bound: the levels typed

MaxLevel == 80

ASSUME GmAssumption ==
    /\ Gifts \subseteq Thing \X (Int \ {0})
    /\ \A g \in Gifts : Kind[g[1]] \in {"item", "currency", "equip", "hero"}
    /\ LevelArgs \subseteq Int

VARIABLE userLevel   \* users.level

gmVars == <<userLevel>>

GmInit == userLevel = MaxLevel

-----------------------------------------------------------------------------
\* /item, /currency and /equip, and /hero, which has no amount.  One below zero is
\* taken away by the same upsert, and /equip inserts no rows for it; a hero the
\* player has is left as it is.
Give(c, x, n) ==
    /\ x \in Hero => n = 1
    /\ Begin(c, Nothing, Total(<< <<x, n>> >>), Grants(Kind[x], << <<x, n>> >>, "orderHero"))
    /\ UNCHANGED gmVars

\* /level answers a level out of range with its usage.
SetLevel(c, level) ==
    /\ Begin(c, Nothing, Nothing,
             IF level \in 1..MaxLevel THEN << Stmt("saveLevelArg", level, 0) >>
             ELSE << Stmt("usage", level, 0) >>)
    /\ UNCHANGED gmVars

Usage(c) ==
    /\ At(c, "usage")
    /\ Return(c, "refused")
    /\ UNCHANGED <<owned, gmVars>> /\ Unrecorded

SaveLevelArg(c) ==
    /\ At(c, "saveLevelArg")
    /\ userLevel' = What(c)
    /\ Proceed(c, <<>>)
    /\ UNCHANGED owned /\ Unrecorded

-----------------------------------------------------------------------------
GmRequest(c) ==
    \/ \E g \in Gifts : Give(c, g[1], g[2])
    \/ \E level \in LevelArgs : SetLevel(c, level)

GmStep(c) == Usage(c) \/ SaveLevelArg(c)
=============================================================================
