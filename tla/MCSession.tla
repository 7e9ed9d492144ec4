----------------------------- MODULE MCSession -----------------------------
(* One person with one or two tabs.                                        *)
EXTENDS Session, TLC

CONSTANTS t1, t2, s1, s2, alice

Of(tabs, slots, kinds, roles, changes, losses) ==
  [tabs |-> tabs, slots |-> slots, kinds |-> kinds, roles |-> roles,
   changes |-> changes, losses |-> losses]

\* One tab while an admin changes the role.
Demoted == Of({t1}, {s1, s2}, {"visit"}, PlatformRoles, TRUE, FALSE)
\* One tab on a bad network, reloaded at any time.
BadNetwork ==
  Of({t1}, {s1}, {"visit", "check", "login", "logout", "reload"}, {"platform_ops"}, FALSE, TRUE)
\* Two tabs on one storage.
TwoTabs == Of({t1, t2}, {s1}, {"visit", "logout"}, {"platform_admin"}, FALSE, FALSE)

\* Somebody new, on a build of localhost.
Newcomer == Of({t1}, {s1, s2}, {"visit", "login", "badge", "register"}, {"none"}, FALSE, FALSE)

MCCasts == {Demoted, BadNetwork, TwoTabs, Newcomer}
=============================================================================
