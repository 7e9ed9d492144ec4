---------------------------- MODULE SettingsPages ----------------------------
(***************************************************************************)
(* Four pages that are a list, a dialog that adds a row, buttons on each   *)
(* row and a confirmation: the image registries, the domains with their    *)
(* certificates, one's own SSH keys, and the destructions that wait for    *)
(* the platform's decision.  An answer finds the page as it is by then.    *)
(***************************************************************************)
EXTENDS AccessRules, FiniteSets

CONSTANTS Rows, Slots,
          Casts    \* records [page, role, rows, does, steps]

VARIABLES server,  \* rows, on (injected or enabled), needs (approval), ways: prefixes, issued, reasons
          ui, calls, cast

vars == <<server, ui, calls, cast>>

None == "none"
Ways == {"random", "custom"}
NoList == [rows |-> {}, on |-> {}, certs |-> {}]
NoCall == [op |-> None, row |-> None, arg |-> {}, st |-> "idle", after |-> None, data |-> NoList]
Call(op, row, arg) == [NoCall EXCEPT !.op = op, !.row = row, !.arg = arg, !.st = "sent"]
Reload(after) == [Call("list", None, {}) EXCEPT !.after = after]

Is(page) == cast.page = page
Acts == ui.left > 0
Does(what) == what \in cast.does /\ Acts
Step(u) == [u EXCEPT !.left = @ - 1]
Free(c) == calls[c].st = "idle"

(* What each page shows, and to whom *)

RegistriesAdmit == cast.role = "platform_admin"
DomainsAdmit == cast.role = "platform_admin"
DangerousAdmit == CanApproveDangerousOps(cast.role)
Admitted ==
  CASE Is("registries") -> RegistriesAdmit [] Is("domains") -> DomainsAdmit
    [] Is("dangerous") -> DangerousAdmit [] OTHER -> TRUE

RegistryOffers(r) == {"toggle", "remove"} \cup IF ui.busyRow = r THEN {} ELSE {"test"}
DomainOffers == {"toggle", "remove"}
CertOffers(r) == IF r \in ui.certs /\ ui.busyRow # r THEN {"issue"} ELSE {}
KeyOffers == {"copy", "remove"}
QueueOffers(r) == IF ui.busyRow = r THEN {} ELSE {"approve", "reject"}

\* The certificate of a domain is listed, and can be issued, without it.
Offers(r) ==
  IF ui.loading \/ ui.dialog \/ ui.confirm # None \/ ~Admitted THEN {}
  ELSE (IF Is("domains") THEN CertOffers(r) ELSE {})
         \cup IF r \notin ui.rows THEN {}
              ELSE CASE Is("registries") -> RegistryOffers(r)
                     [] Is("domains") -> DomainOffers
                     [] Is("keys") -> KeyOffers
                     [] Is("dangerous") -> QueueOffers(r)

Init ==
  /\ cast \in Casts
  /\ server = [rows |-> cast.rows, on |-> {}, needs |-> {}, ways |-> [r \in Rows |-> {}],
               certs |-> IF cast.page = "domains" THEN cast.rows ELSE {}, issued |-> {},
               reasons |-> [r \in Rows |-> None]]
  /\ ui = [rows |-> {}, on |-> {}, certs |-> {}, loading |-> Admitted, dialog |-> FALSE,
           draft |-> CASE cast.page = "registries" -> {"on"} [] cast.page = "domains" -> Ways \cup {"on"}
                       [] OTHER -> {}, busy |-> FALSE, busyRow |-> None,
           confirm |-> None, kind |-> None, reason |-> None, copied |-> None, left |-> cast.steps]
  /\ calls = [c \in Slots |-> IF Admitted /\ c = (CHOOSE d \in Slots : TRUE) THEN Reload(None) ELSE NoCall]

(* Loading *)

\* The refresh button is off while a list loads; a list that follows an
\* operation is asked for whatever is under way.
Refresh(c) ==
  /\ Does("refresh") /\ Admitted /\ ~Is("keys") /\ ~ui.loading /\ Free(c) /\ ~ui.dialog /\ ui.confirm = None
  /\ calls' = [calls EXCEPT ![c] = Reload(None)]
  /\ ui' = [Step(ui) EXCEPT !.loading = TRUE]
  /\ UNCHANGED <<server, cast>>

\* What is cleared once the operation, and the list it waits for, are done.
Cleared(u, op) ==
  [u EXCEPT !.busy = @ /\ op # "add",
            !.busyRow = IF op \in {"test", "issue", "approve", "reject"} THEN None ELSE @]

ListReturns(c) ==
  LET k == calls[c]
      u == Cleared([ui EXCEPT !.loading = FALSE], k.after)
  IN
  /\ k.op = "list" /\ k.st \in {"ok", "refused"}
  /\ ui' = IF k.st = "ok"
           THEN [u EXCEPT !.rows = k.data.rows, !.on = k.data.on, !.certs = k.data.certs]
           ELSE [u EXCEPT !.rows = IF Is("dangerous") THEN {} ELSE @]
  /\ calls' = [calls EXCEPT ![c] = NoCall]
  /\ UNCHANGED <<server, cast>>

(* Adding a row *)

Fields == CASE Is("registries") -> {"name", "server"} [] Is("domains") -> {"suffix"} [] OTHER -> {"key"}
\* The form of a registry keeps its switch when its fields are cleared.
Blank(draft) ==
  CASE Is("registries") -> draft \cap {"on"} [] Is("domains") -> Ways \cup {"on"} [] OTHER -> {}

OpenDialog ==
  /\ Does("add") /\ Admitted /\ ~Is("dangerous") /\ ~ui.dialog /\ ui.confirm = None
  /\ ui' = [Step(ui) EXCEPT !.dialog = TRUE]
  /\ UNCHANGED <<server, calls, cast>>

\* The cancel button only closes; the page of the registries keeps what was
\* typed when its dialog is dismissed, too.
CloseDialog(cancel) ==
  /\ Acts /\ ui.dialog
  /\ ui' = [Step(ui) EXCEPT !.dialog = FALSE, !.draft = IF cancel \/ Is("registries") THEN @ ELSE Blank(@)]
  /\ UNCHANGED <<server, calls, cast>>

Type(fields) ==
  /\ Acts /\ ui.dialog /\ fields \subseteq Fields /\ ~(fields \subseteq ui.draft)
  /\ ui' = [Step(ui) EXCEPT !.draft = @ \cup fields]
  /\ UNCHANGED <<server, calls, cast>>
TypeRegistry(f) == Is("registries") /\ Type({f})
TypeKey == Is("keys") /\ Type({"key"})

Switch(f) ==
  /\ Acts /\ ui.dialog
  /\ ui' = [Step(ui) EXCEPT !.draft = (@ \ {f}) \cup ({f} \ @)]
  /\ UNCHANGED <<server, calls, cast>>
SwitchInject == Is("registries") /\ Switch("on")

\* The form of a domain: the ways to take a prefix are hidden while it is
\* marked as needing approval.
TypeSuffix == Is("domains") /\ Type({"suffix"})
SwitchDomain(f) ==
  /\ Is("domains")
  /\ f \in {"approval", "on"} \cup (IF "approval" \in ui.draft THEN {} ELSE Ways)
  /\ Switch(f)

Submit(c, arg) ==
  /\ Acts /\ ui.dialog /\ Fields \subseteq ui.draft /\ ~ui.busy /\ Free(c)
  /\ \E r \in Rows \ server.rows : calls' = [calls EXCEPT ![c] = Call("add", r, arg)]
  /\ ui' = [Step(ui) EXCEPT !.busy = TRUE]
  /\ UNCHANGED <<server, cast>>
AddRegistry(c) == Is("registries") /\ Submit(c, ui.draft \cap {"on"})
AddDomain(c) ==
  Is("domains") /\ Submit(c, ui.draft \cap ({"on", "approval"} \cup IF "approval" \in ui.draft THEN {} ELSE Ways))
AddKey(c) == Is("keys") /\ Submit(c, {})

(* The buttons of a row *)

Ask(c, op, r, arg, u) ==
  /\ Does(op) /\ op \in Offers(r) /\ Free(c)
  /\ calls' = [calls EXCEPT ![c] = Call(op, r, arg)]
  /\ ui' = Step(u)
  /\ UNCHANGED <<server, cast>>

\* The switch of a row asks for the opposite of what the row shows.
Opposite(r) == IF r \in ui.on THEN {} ELSE {"on"}
ToggleInject(c, r) == Is("registries") /\ Ask(c, "toggle", r, Opposite(r), ui)
ToggleEnabled(c, r) == Is("domains") /\ Ask(c, "toggle", r, Opposite(r), ui)
TestRegistry(c, r) == Ask(c, "test", r, {}, [ui EXCEPT !.busyRow = r])
IssueCert(c, r) == Ask(c, "issue", r, {}, [ui EXCEPT !.busyRow = r])

CopyKey(r) ==
  /\ Does("copy") /\ "copy" \in Offers(r)
  /\ ui' = [Step(ui) EXCEPT !.copied = r]
  /\ UNCHANGED <<server, calls, cast>>
CopyFades ==
  /\ ui.copied # None
  /\ ui' = [ui EXCEPT !.copied = None]
  /\ UNCHANGED <<server, calls, cast>>

(* Confirmations *)

OpenConfirm(kind, r) ==
  /\ Does(kind) /\ kind \in {"remove", "approve", "reject"} \cap Offers(r)
  /\ ui' = [Step(ui) EXCEPT !.confirm = r, !.kind = kind]
  /\ UNCHANGED <<server, calls, cast>>

TypeReason ==
  /\ Acts /\ ui.kind = "reject" /\ ui.confirm # None /\ ui.reason = None
  /\ ui' = [Step(ui) EXCEPT !.reason = ui.confirm]
  /\ UNCHANGED <<server, calls, cast>>

Closed_KeepsReason(u) == [u EXCEPT !.confirm = None, !.kind = None]

\* closeConfirm
Closed(u) == [u EXCEPT !.confirm = None, !.kind = None, !.reason = None]

Dismiss ==
  /\ Acts /\ ui.confirm # None
  /\ ui' = Closed(Step(ui))
  /\ UNCHANGED <<server, calls, cast>>

\* The button that confirms sends the request, and closes the dialog.
Confirm(c, kind, arg, u) ==
  /\ Acts /\ ui.confirm # None /\ ui.kind = kind /\ Free(c)
  /\ calls' = [calls EXCEPT ![c] = Call(kind, ui.confirm, arg)]
  /\ ui' = Closed(Step(u))
  /\ UNCHANGED <<server, cast>>
RemoveRegistry(c) == Is("registries") /\ Confirm(c, "remove", {}, ui)
RemoveDomain(c) == Is("domains") /\ Confirm(c, "remove", {}, ui)
RemoveKey(c) == Is("keys") /\ Confirm(c, "remove", {}, ui)
Approve(c) == Confirm(c, "approve", {}, [ui EXCEPT !.busyRow = ui.confirm])
Reject(c) == Confirm(c, "reject", {ui.reason}, [ui EXCEPT !.busyRow = ui.confirm])

(* Answers *)

\* What a success changes at once: an added row closes the dialog and clears
\* the form, a decision closes the confirmation, whichever row it is about.
Succeeded(u, op) ==
  CASE op = "add" -> [u EXCEPT !.dialog = FALSE, !.draft = Blank(@), !.busy = @ /\ ~Is("keys")]
    [] op \in {"approve", "reject"} -> Closed(u)
    [] op = "remove" /\ Is("keys") -> u
    [] op = "remove" /\ ~Is("keys") -> [u EXCEPT !.confirm = None, !.kind = None]
    [] OTHER -> u

Returns(c) ==
  LET k == calls[c]
      again == IF k.op = "test" THEN FALSE ELSE k.st = "ok" \/ k.op = "issue"
  IN
  /\ k.op # "list" /\ k.st \in {"ok", "refused"}
  /\ ui' = LET u == IF k.st = "ok" THEN Succeeded(ui, k.op) ELSE ui
           IN IF again THEN [u EXCEPT !.loading = @ \/ ~Is("keys")] ELSE Cleared(u, k.op)
  /\ calls' = [calls EXCEPT ![c] = IF again THEN Reload(IF Is("keys") THEN None ELSE k.op) ELSE NoCall]
  /\ UNCHANGED <<server, cast>>

\* A request or its answer is lost on the way.
Lose(c) ==
  /\ "lose" \in cast.does /\ calls[c].st \in {"sent", "ok"}
  /\ calls' = [calls EXCEPT ![c].st = "refused"]
  /\ UNCHANGED <<server, ui, cast>>

\* The list of the certificates is asked for after the one of the domains,
\* and may fail alone.
LoseCerts(c) ==
  /\ "lose" \in cast.does /\ calls[c].op = "list" /\ calls[c].st = "ok" /\ calls[c].data.certs # {}
  /\ calls' = [calls EXCEPT ![c].data.certs = {}]
  /\ UNCHANGED <<server, ui, cast>>

(* The service *)

\* Without approval, a domain that allows no way to take a prefix allows both.
WaysOf(arg) ==
  IF "approval" \in arg THEN {} ELSE IF arg \cap Ways = {} THEN Ways ELSE arg \cap Ways

Served(k) ==
  CASE k.op = "add" ->
         [server EXCEPT !.rows = @ \cup {k.row}, !.on = IF "on" \in k.arg THEN @ \cup {k.row} ELSE @,
                        !.needs = IF "approval" \in k.arg THEN @ \cup {k.row} ELSE @,
                        !.ways[k.row] = IF Is("domains") THEN WaysOf(k.arg) ELSE {},
                        !.certs = IF Is("domains") THEN @ \cup {k.row} ELSE @]
    [] k.op = "toggle" -> [server EXCEPT !.on = IF "on" \in k.arg THEN @ \cup {k.row} ELSE @ \ {k.row}]
    [] k.op = "issue" -> [server EXCEPT !.issued = @ \cup {k.row}]
    [] k.op = "reject" ->
         [server EXCEPT !.rows = @ \ {k.row}, !.reasons[k.row] = CHOOSE reason \in k.arg : TRUE]
    [] k.op \in {"remove", "approve"} -> [server EXCEPT !.rows = @ \ {k.row}, !.on = @ \ {k.row}]
    [] OTHER -> server

Serve(c) ==
  LET k == calls[c]
      ok == IF k.op = "issue" THEN k.row \in server.certs
            ELSE k.op \in {"list", "add"} \/ k.row \in server.rows
      list == [rows |-> server.rows, on |-> server.on, certs |-> server.certs]
  IN
  /\ k.st = "sent"
  /\ server' = IF ok /\ k.op # "list" THEN Served(k) ELSE server
  /\ calls' = [calls EXCEPT ![c].st = IF ok THEN "ok" ELSE "refused",
                            ![c].data = IF k.op = "list" THEN list ELSE @]
  /\ UNCHANGED <<ui, cast>>

Next ==
  \/ OpenDialog \/ TypeKey \/ SwitchInject \/ TypeSuffix \/ TypeReason \/ Dismiss \/ CopyFades
  \/ (\E cancel \in BOOLEAN : CloseDialog(cancel))
  \/ (\E f \in {"name", "server"} : TypeRegistry(f)) \/ (\E f \in {"approval", "on"} \cup Ways : SwitchDomain(f))
  \/ (\E r \in Rows : CopyKey(r) \/ \E kind \in {"remove", "approve", "reject"} : OpenConfirm(kind, r))
  \/ \E c \in Slots :
       \/ Refresh(c) \/ ListReturns(c) \/ AddRegistry(c) \/ AddDomain(c) \/ AddKey(c)
       \/ RemoveRegistry(c) \/ RemoveDomain(c) \/ RemoveKey(c) \/ Approve(c) \/ Reject(c)
       \/ Returns(c) \/ Lose(c) \/ LoseCerts(c) \/ Serve(c)
       \/ \E r \in Rows : ToggleInject(c, r) \/ ToggleEnabled(c, r) \/ TestRegistry(c, r) \/ IssueCert(c, r)

Spec == Init /\ [][Next]_vars

(* A reason recorded with a refused destruction was typed for that very    *)
(* workspace, although answers about other rows close the confirmation     *)
(* while it is being typed (closeConfirm).                                 *)
ReasonForThisRow == \A r \in Rows : server.reasons[r] \in {None, r}
=============================================================================
