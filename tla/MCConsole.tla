----------------------------- MODULE MCConsole -----------------------------
EXTENDS WorkspaceConsole, TLC
CONSTANTS w1, w2, c1, c2
Of(rows, slots, mine, platform, purpose, filtered, start, kinds) ==
  [rows |-> rows, slots |-> slots, mine |-> mine, platform |-> platform, purpose |-> purpose,
   filtered |-> filtered, start |-> start, kinds |-> kinds]
MCCasts == {
  Of({w1}, {c1}, "owner", "platform_user", TRUE, TRUE, {"requested", "running","stopped"}, {"others"}),
  Of({w1}, {c1}, "owner", "platform_user", FALSE, TRUE, {"requested", "stopped"}, {"resize"}),
  Of({w1}, {c1}, "admin", "platform_user", TRUE, TRUE, {"failed", "running"}, {"others", "abnormal"}),
  Of({w1}, {c1}, "none", "platform_admin", TRUE, FALSE, {"running","destroy_pending_platform"}, {"others", "loss"}),
  Of({w1}, {c1, c2}, "owner", "platform_user", TRUE, TRUE, {"suspended"}, {"resize"}),
  Of({w1}, {c1, c2}, "none", "platform_admin", TRUE, FALSE, {"running"}, {"resize"}),
  Of({w1, w2}, {c1, c2}, "viewer", "platform_user", TRUE, TRUE, {"running"}, {"remount"}),
  Of({w1}, {c1, c2}, "none", "platform_admin", TRUE, FALSE, {"running"}, {"remount"}),
  Of({w1}, {c1, c2}, "admin", "platform_user", TRUE, TRUE, {"running"}, {"remount"}),
  Of({w1, w2}, {c1, c2}, "owner", "platform_user", TRUE, TRUE, {"running"}, {"filter"}) }
=============================================================================
