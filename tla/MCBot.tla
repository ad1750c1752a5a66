-------------------------------- MODULE MCBot --------------------------------
(* A bot with a root menu, an Office selector behind it and a menu not used   *)
(* yet; Offices whose keys are not in the order of their names.               *)
EXTENDS Bot, TLC

CONSTANTS m1, m2, m3, m4, i1, i2, i3, o1, o2, w1, w2, wm, wl, q1, q2

MCRank == o1 :> 1 @@ o2 :> 2
MCNumber == w1 :> 1 @@ w2 :> 2 @@ wm :> 0 @@ wl :> 0
MCPk == o1 :> w2 @@ o2 :> w1
MCName == o1 :> wl @@ o2 :> wl

Item(m, w, l, d, t) == [menu |-> m, word |-> w, label |-> l, does |-> d, target |-> t, on |-> TRUE]
Menu(p, sel) == [parent |-> p, selector |-> sel]
Config(on, root) == [scope |-> Everywhere, on |-> on, root |-> root]
MCMenus == m1 :> Menu(NoMenu, FALSE) @@ m2 :> Menu(NoMenu, TRUE) @@ m3 :> Menu(NoMenu, FALSE) @@ m4 :> Unused
Running ==
    [menu |-> MCMenus,
     item |-> i1 :> Item(m1, w1, w2, "menu", m2) @@ i2 :> Item(m1, w2, wl, "handoff", NoMenu) @@ i3 :> Unused,
     trigger |-> 1 :> [scope |-> Everywhere, word |-> wm, target |-> m1, on |-> TRUE] @@ 2 :> Unused,
     config |-> 1 :> Config(TRUE, m1) @@ 2 :> Unused]
\* Not switched on yet; an item that hands off keeps a menu it once showed.
Prepared ==
    [menu |-> MCMenus,
     item |-> i1 :> Item(m1, w1, w2, "handoff", m3) @@ i2 :> Unused @@ i3 :> Unused,
     trigger |-> 1 :> Unused @@ 2 :> Unused,
     config |-> 1 :> Config(FALSE, m1) @@ 2 :> Unused]
MCSetups == {Running, Prepared}

MCNewMenus == {[parent |-> m1, selector |-> FALSE]}
MCNewItems == {Item(m2, w1, wl, "complete", NoMenu), Item(m1, wm, wl, "menu", m1)}
MCNewTriggers == {[scope |-> o1, word |-> wm, target |-> m3, on |-> TRUE]}
MCMenuBodies == {[selector |-> TRUE]}
MCItemBodies == {[does |-> "menu"], [target |-> NoMenu], [does |-> "text"], [word |-> wl, target |-> m3]}
MCTriggerBodies == {[target |-> NoMenu]}
MCConfigBodies == {[root |-> m3], [scope |-> o1, on |-> TRUE]}

\* A new chat, every Office open.
MCInit == Init /\ chat = Everywhere /\ open = Offices
MCSpec == MCInit /\ [][Next]_vars
MCSymmetry == Permutations({q1, q2})
=============================================================================
