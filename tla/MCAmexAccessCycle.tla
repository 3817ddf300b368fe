-------------------------- MODULE MCAmexAccessCycle --------------------------
(***************************************************************************)
(* AmexAccessCycle on small instances.                                     *)
(***************************************************************************)
EXTENDS AmexAccessCycle, TLC

\* Pages a tab may show: the session API answered, so the login page, a page that
\* looks signed in without proof and is not safe to extract from, and nothing.
Blank == [ErrorPage EXCEPT !.error = FALSE, !.failure = "none"]
LivePage    == [Blank EXCEPT !.accountUrl = TRUE, !.signedIn = TRUE, !.api200 = 5]
LoginPage   == [Blank EXCEPT !.loginUrl = TRUE, !.form = TRUE, !.failure = "login_required"]
BlockedPage == [Blank EXCEPT !.blocked = TRUE, !.signedIn = TRUE, !.api200 = 5]

MCPageSeen == {LivePage, LoginPage, BlockedPage}
MCLivePage == {LivePage}
MCReport   == {"needs_login", "connected"}
MCBefore   == {"none", "waiting"}
Symmetric  == Permutations(Runner)
=============================================================================
