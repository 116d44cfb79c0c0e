-------------------------- MODULE MCBrowserHistory --------------------------
(* Small instances of BrowserHistory for TLC. *)
EXTENDS BrowserHistory

Acts(n, t, o, b) ==
  [x \in Act |->
    CASE x = "navigate" -> n [] x = "traverse" -> t
      [] x = "outside" -> o [] x = "block" -> b]
Events == Acts(2, 2, 1, 2)
=============================================================================
