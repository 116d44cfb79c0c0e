---------------------------- MODULE MCRouterCore ----------------------------
(* Small instances of RouterCore for TLC. *)
EXTENDS RouterCore

\* Three nested routes, one match each: the root, a layout and its leaf.
MCId == {"root", "a", "b"}
MCRoute == {"root", "a", "b"}
MCRouteOf == [m \in MCId |-> m]
MCLoc == {"/", "/a", "/a/b"}
MCPath == [l \in Loc |-> CASE l = "/" -> <<"root">>
                             [] l = "/a" -> <<"root", "a">>
                             [] l = "/a/b" -> <<"root", "a", "b">>]

\* The same without the leaf.
TwoLoc == {"/", "/a"}

\* What the user does: navigations, back buttons, invalidations, preloads
\* and cache clearings.
Acts(n, k, i, p, c) ==
  [x \in Act |->
    CASE x = "navigate" -> n [] x = "back" -> k [] x = "invalidate" -> i
      [] x = "preload" -> p [] x = "clear" -> c]
NavigateAndClear == {Acts(1, 0, 0, 0, 1)}
TwoNavigations == {Acts(2, 0, 0, 0, 0)}
NavigateBackOrInvalidate ==
  {Acts(3, 0, 0, 0, 0), Acts(1, 1, 0, 0, 0), Acts(1, 0, 1, 0, 0)}
NavigateAndPreload == {Acts(1, 0, 0, 1, 0)}
TwoInvalidations == {Acts(0, 0, 2, 0, 0)}
=============================================================================
