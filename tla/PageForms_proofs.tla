-------------------------- MODULE PageForms_proofs --------------------------
(***************************************************************************)
(* Proofs about the dialogs of the console, for any casts and any number   *)
(* of steps: a domain is asked for in a way its zone allows, what is shown *)
(* in a dialog was worked out for what is selected in it, a form is saved  *)
(* to what it was filled from, and a picker that is closed keeps nothing   *)
(* it would act on.                                                        *)
(***************************************************************************)
EXTENDS Pages, FiniteSetTheorems, TLAPS

\* A step of the composition is a step of the page that is looked at.
LEMMA SceneSteps ==
  ASSUME [Next]_vars
  PROVE  /\ scene' = scene
         /\ scene = "machine" => [Machine!Next]_(Machine!vars)
         /\ scene = "forms" => [Forms!Next]_(Forms!vars)
         /\ scene = "projects" => [ProjectsPage!Next]_(ProjectsPage!vars)
         /\ scene = "members" => [Members!Next]_(Members!vars)
         /\ scene = "users" => [Users!Next]_(Users!vars)
         /\ scene = "settings" => [Settings!Next]_(Settings!vars)
         /\ scene = "pickers" => [Choosing!Next]_(Choosing!vars)
BY DEF Next, vars, Machine!vars, Forms!vars, ProjectsPage!vars, Members!vars, Users!vars, Settings!vars,
   Choosing!vars

----------------------------------------------------------------------------
(* The machine page: the way a domain is asked for                         *)

\* A form that names a zone asks in a way this zone allows.
FormOK(f) ==
  /\ {"source", "mode", "port"} \subseteq DOMAIN f
  /\ f.source # "own" => Machine!AllowsMode(f.source, f.mode)

\* The page and its calls as far as the form goes: what else they hold may be anything.
FormsUi(u) == {"form", "zones", "left"} \subseteq DOMAIN u /\ FormOK(u.form) /\ u.zones \in Seq(MachineZones)

FormsCall(k) ==
  /\ {"op", "st", "arg", "again", "id", "ans", "data", "seq"} \subseteq DOMAIN k
  /\ k.op = "submit" => FormOK(k.arg)
  /\ k.seq \in Seq(MachineZones)

FormsInv ==
  /\ "zones" \in DOMAIN server /\ server.zones \in Seq(MachineZones)
  /\ FormsUi(ui)
  /\ DOMAIN calls = Slots /\ \A c \in Slots : FormsCall(calls[c])

\* What a step of the page leaves of the form.
FormKept(u) == DOMAIN u = DOMAIN ui /\ u.form = ui.form /\ u.zones = ui.zones

LEMMA KeptIsOK ==
  ASSUME FormsUi(ui), NEW u, FormKept(u)
  PROVE  FormsUi(u)
BY DEF FormsUi, FormKept

LEMMA NoCallIsOK ==
  /\ FormOK(Machine!EmptyForm) /\ FormsCall(Machine!NoCall)
  /\ Machine!NoZones \in Seq(MachineZones) /\ Machine!Own = "own"
BY DEF FormOK, FormsCall, Machine!EmptyForm, Machine!NoCall, Machine!NoZones, Machine!Own

\* The first zone of a list, and a way it allows.
LEMMA FirstModeAllowed ==
  ASSUME NEW z \in MachineZones
  PROVE  Machine!ZoneOf(z.id) = z /\ Machine!AllowsMode(z.id, Machine!FirstMode(z))
         /\ (z.review => \A m : Machine!AllowsMode(z.id, m))
BY ZonesAssumption DEF Machine!ZoneOf, Machine!AllowsMode, Machine!FirstMode

LEMMA ListedZone ==
  ASSUME NEW zones \in Seq(MachineZones), zones # Machine!NoZones
  PROVE  zones[1] \in MachineZones
BY DEF Machine!NoZones

\* A form that names no zone, or one that allows the way it asks in.
LEMMA ChosenIsOK ==
  ASSUME NEW u, {"form", "zones", "left"} \subseteq DOMAIN u, u.zones \in Seq(MachineZones),
         {"source", "mode", "port"} \subseteq DOMAIN u.form,
         \/ u.form.source = "own"
         \/ \E z \in MachineZones : u.form.source = z.id /\ (z.review \/ u.form.mode = Machine!FirstMode(z))
  PROVE  FormsUi(u)
<1>1. CASE u.form.source = "own"
  BY <1>1 DEF FormsUi, FormOK
<1>2. ASSUME NEW z \in MachineZones, u.form.source = z.id, z.review \/ u.form.mode = Machine!FirstMode(z)
      PROVE  FormsUi(u)
  <2>1. Machine!AllowsMode(u.form.source, u.form.mode)
    BY <1>2, FirstModeAllowed
  <2> QED BY <2>1 DEF FormsUi, FormOK
<1> QED BY <1>1, <1>2

LEMMA TakeMetaOK ==
  ASSUME FormsUi(ui), NEW zones \in Seq(MachineZones)
  PROVE  FormsUi(Machine!TakeMeta(zones))
<1>1. PICK u : u = Machine!TakeMeta(zones)
  OBVIOUS
<1>2. /\ {"form", "zones", "left"} \subseteq DOMAIN u /\ u.zones = zones
      /\ {"source", "mode", "port"} \subseteq DOMAIN u.form
      /\ u.form.source = IF zones = Machine!NoZones THEN "own" ELSE zones[1].id
      /\ u.form.mode = IF zones # Machine!NoZones /\ ~zones[1].review THEN Machine!FirstMode(zones[1])
                       ELSE ui.form.mode
  BY <1>1, NoCallIsOK DEF Machine!TakeMeta, FormsUi, FormOK
<1>3. \/ u.form.source = "own"
      \/ \E z \in MachineZones : u.form.source = z.id /\ (z.review \/ u.form.mode = Machine!FirstMode(z))
  BY <1>2, ListedZone
<1>4. FormsUi(u)
  BY <1>2, <1>3, ChosenIsOK
<1> QED BY <1>1, <1>4

LEMMA ResetFormOK ==
  ASSUME NEW v, FormsUi(v)
  PROVE  FormsUi(Machine!ResetForm(v))
<1>1. PICK u : u = Machine!ResetForm(v)
  OBVIOUS
<1>2. /\ {"form", "zones", "left"} \subseteq DOMAIN u /\ u.zones = v.zones
      /\ {"source", "mode", "port"} \subseteq DOMAIN u.form
      /\ u.form.source = IF v.zones = Machine!NoZones THEN "own" ELSE v.zones[1].id
      /\ u.form.mode = IF v.zones = Machine!NoZones THEN "random" ELSE Machine!FirstMode(v.zones[1])
  BY <1>1, NoCallIsOK DEF Machine!ResetForm, FormsUi
<1>3. v.zones \in Seq(MachineZones)
  BY DEF FormsUi
<1>4. \/ u.form.source = "own"
      \/ \E z \in MachineZones : u.form.source = z.id /\ (z.review \/ u.form.mode = Machine!FirstMode(z))
  BY <1>2, <1>3, ListedZone
<1>5. FormsUi(u)
  BY <1>2, <1>3, <1>4, ChosenIsOK
<1> QED BY <1>1, <1>5

\* A step that touches one call at most, as far as the forms go.
OnlyOneCall(c) ==
  /\ DOMAIN calls' = Slots /\ FormsCall(calls'[c])
  /\ \A d \in Slots \ {c} : calls'[d] = calls[d]

LEMMA OneCallStep ==
  ASSUME FormsInv, NEW c \in Slots, OnlyOneCall(c), FormsUi(ui'), UNCHANGED server
  PROVE  FormsInv'
<1>1. \A d \in Slots : FormsCall(calls'[d])
  BY DEF FormsInv, OnlyOneCall
<1> QED BY <1>1 DEF FormsInv, OnlyOneCall

LEMMA NoCallStep ==
  ASSUME FormsInv, UNCHANGED <<server, calls>>, FormsUi(ui')
  PROVE  FormsInv'
BY DEF FormsInv

\* A call put in a slot.
LEMMA PutCall ==
  ASSUME FormsInv, NEW c \in Slots, NEW k, FormsCall(k), calls' = [calls EXCEPT ![c] = k]
  PROVE  OnlyOneCall(c)
BY DEF FormsInv, OnlyOneCall

LEMMA SendPuts ==
  ASSUME FormsInv, NEW c \in Slots, NEW op, op # "submit", NEW arg, Machine!Send(c, op, arg)
  PROVE  OnlyOneCall(c)
<1>1. PICK k : k = [Machine!NoCall EXCEPT !.op = op, !.st = "sent", !.arg = arg]
  OBVIOUS
<1>2. FormsCall(k)
  BY <1>1, NoCallIsOK DEF FormsCall
<1> QED BY <1>1, <1>2, PutCall DEF Machine!Send

(* The page *)

LEMMA EnterStep ==
  ASSUME FormsInv, NEW section, NEW S \in SUBSET Slots, NEW send \in [S -> {"meta", "routes", "k8s-status"}],
         Machine!Enter(section, send)
  PROVE  FormsInv'
<1>1. FormsUi(ui')
  <2>1. FormKept(ui')
    BY DEF FormsInv, FormsUi, FormKept, Machine!Enter
  <2> QED BY <2>1, KeptIsOK DEF FormsInv
<1>2. ASSUME NEW c \in Slots
      PROVE  FormsCall(calls'[c])
  <2>1. calls'[c] = IF c \in DOMAIN send THEN [Machine!NoCall EXCEPT !.op = send[c], !.st = "sent"]
                    ELSE Machine!Orphan(calls[c])
    BY DEF Machine!Enter
  <2>2. FormsCall(calls[c])
    BY DEF FormsInv
  <2>3. CASE c \in DOMAIN send
    <3>1. PICK op \in {"meta", "routes", "k8s-status"} : op = send[c]
      BY <2>3
    <3>2. calls'[c] = [Machine!NoCall EXCEPT !.op = op, !.st = "sent"]
      BY <2>1, <2>3, <3>1
    <3> QED BY <3>2, NoCallIsOK DEF FormsCall
  <2>4. CASE c \notin DOMAIN send
    BY <2>1, <2>2, <2>4 DEF FormsCall, Machine!Orphan
  <2> QED BY <2>3, <2>4
<1>3. DOMAIN calls' = Slots /\ UNCHANGED server
  BY DEF Machine!Enter
<1> QED BY <1>1, <1>2, <1>3 DEF FormsInv

LEMMA AsideSteps ==
  ASSUME FormsInv,
         \/ Machine!LoadAside \/ Machine!OpenForm \/ Machine!Disagree
         \/ Machine!OpenTerminal \/ Machine!TerminalFrame \/ Machine!TerminalAnswer \/ Machine!CloseTerminal
  PROVE  FormsInv'
<1>1. FormKept(ui') /\ UNCHANGED <<server, calls>>
  BY DEF FormsInv, FormsUi, FormKept, Machine!LoadAside, Machine!OpenForm, Machine!Disagree, Machine!OpenTerminal,
         Machine!TerminalFrame, Machine!TerminalAnswer, Machine!CloseTerminal
<1> QED BY <1>1, KeptIsOK, NoCallStep DEF FormsInv

LEMMA LoadReturnsStep ==
  ASSUME FormsInv, NEW c \in Slots, Machine!LoadReturns(c)
  PROVE  FormsInv'
<1> DEFINE k == calls[c]
<1>1. FormsUi(ui) /\ FormsCall(k)
  BY DEF FormsInv
<1>2. FormsUi(ui')
  <2>1. CASE k.op = "meta" /\ k.ans = "ok"
    <3>1. ui' = Machine!TakeMeta(k.seq)
      BY <2>1 DEF Machine!LoadReturns
    <3> QED BY <1>1, <3>1, TakeMetaOK DEF FormsCall
  <2>2. CASE k.op = "meta" /\ k.ans # "ok"
    <3>1. ui' = [ui EXCEPT !.zones = Machine!NoZones]
      BY <2>2 DEF Machine!LoadReturns
    <3> QED BY <1>1, <3>1, NoCallIsOK DEF FormsUi
  <2>3. CASE k.op # "meta"
    <3>1. FormKept(ui')
      BY <1>1, <2>3 DEF FormsUi, FormKept, Machine!LoadReturns
    <3> QED BY <1>1, <3>1, KeptIsOK
  <2> QED BY <2>1, <2>2, <2>3
<1>3. OnlyOneCall(c) /\ UNCHANGED server
  BY NoCallIsOK, PutCall DEF Machine!LoadReturns
<1> QED BY <1>2, <1>3, OneCallStep

LEMMA CloseFormStep ==
  ASSUME FormsInv, Machine!CloseForm
  PROVE  FormsInv'
<1>1. FormsUi(ui)
  BY DEF FormsInv
<1>2. CASE ui' = [ui EXCEPT !.open = FALSE]
  <2>1. FormKept(ui')
    BY <1>1, <1>2 DEF FormsUi, FormKept
  <2> QED BY <1>1, <2>1, KeptIsOK, NoCallStep DEF Machine!CloseForm
<1>3. CASE ui' = [Machine!ResetForm(ui) EXCEPT !.open = FALSE]
  <2>1. PICK u : u = Machine!ResetForm(ui)
    OBVIOUS
  <2>2. FormsUi(u) /\ ui' = [u EXCEPT !.open = FALSE]
    BY <1>1, <1>3, <2>1, ResetFormOK
  <2>3. FormsUi(ui')
    BY <2>2 DEF FormsUi
  <2> QED BY <2>3, NoCallStep DEF Machine!CloseForm
<1> QED BY <1>2, <1>3 DEF Machine!CloseForm

\* The page offers the zones it loaded.
LEMMA OfferedZone ==
  ASSUME FormsUi(ui), NEW source, Machine!HasZone(source)
  PROVE  Machine!ZoneOf(source) \in MachineZones /\ Machine!ZoneOf(source).id = source
<1>1. PICK n \in DOMAIN ui.zones : ui.zones[n].id = source
  BY DEF Machine!HasZone
<1>2. ui.zones[n] \in MachineZones
  BY <1>1 DEF FormsUi
<1> QED BY <1>1, <1>2 DEF Machine!ZoneOf

LEMMA SelectStep ==
  ASSUME FormsInv, NEW source, Machine!SelectSource(source)
  PROVE  FormsInv'
<1>1. FormsUi(ui) /\ Machine!Own = "own"
  BY NoCallIsOK DEF FormsInv
<1>2. PICK mode : mode = IF Machine!IsFree(source) THEN Machine!FirstMode(Machine!ZoneOf(source)) ELSE ui.form.mode
  OBVIOUS
<1>3. /\ {"form", "zones", "left"} \subseteq DOMAIN ui' /\ ui'.zones = ui.zones
      /\ {"source", "mode", "port"} \subseteq DOMAIN ui'.form
      /\ ui'.form.source = source /\ ui'.form.mode = mode
  BY <1>1, <1>2 DEF Machine!SelectSource, FormsUi, FormOK
<1>4. \/ source = "own"
      \/ \E z \in MachineZones : source = z.id /\ (z.review \/ mode = Machine!FirstMode(z))
  <2>1. CASE source = "own"
    BY <2>1
  <2>2. CASE source # "own"
    <3>1. Machine!HasZone(source)
      BY <1>1, <2>2 DEF Machine!SelectSource
    <3>2. PICK z \in MachineZones : z = Machine!ZoneOf(source) /\ z.id = source
      BY <1>1, <3>1, OfferedZone
    <3>3. z.review \/ mode = Machine!FirstMode(z)
      BY <1>2, <3>1, <3>2 DEF Machine!IsFree
    <3> QED BY <3>2, <3>3
  <2> QED BY <2>1, <2>2
<1>5. FormsUi(ui')
  <2>1. ui.zones \in Seq(MachineZones)
    BY <1>1 DEF FormsUi
  <2> QED BY <1>3, <1>4, <2>1, ChosenIsOK
<1> QED BY <1>5, NoCallStep DEF Machine!SelectSource

LEMMA EditStep ==
  ASSUME FormsInv, Machine!Edit
  PROVE  FormsInv'
<1>1. FormsUi(ui) /\ Machine!Own = "own"
  BY NoCallIsOK DEF FormsInv
<1>2. CASE \E p \in MachinePorts \ {ui.form.port} : ui' = [ui EXCEPT !.form.port = p, !.left = @ - 1]
  BY <1>1, <1>2, NoCallStep DEF FormsUi, FormOK, Machine!Edit
<1>3. CASE /\ Machine!IsFree(ui.form.source)
           /\ \E m \in {"random", "custom"} \ {ui.form.mode} :
                /\ IF m = "random" THEN Machine!ZoneOf(ui.form.source).random ELSE Machine!ZoneOf(ui.form.source).custom
                /\ ui' = [ui EXCEPT !.form.mode = m, !.left = @ - 1]
  <2>1. PICK m \in {"random", "custom"} :
              /\ IF m = "random" THEN Machine!ZoneOf(ui.form.source).random
                 ELSE Machine!ZoneOf(ui.form.source).custom
              /\ ui' = [ui EXCEPT !.form.mode = m, !.left = @ - 1]
    BY <1>3
  <2>2. Machine!AllowsMode(ui.form.source, m)
    BY <2>1 DEF Machine!AllowsMode
  <2>3. FormsUi(ui')
    BY <1>1, <2>1, <2>2 DEF FormsUi, FormOK
  <2> QED BY <2>3, NoCallStep DEF Machine!Edit
<1> QED BY <1>2, <1>3 DEF Machine!Edit

LEMMA SubmitStep ==
  ASSUME FormsInv, NEW c \in Slots, NEW again, NEW u, FormsUi(u), Machine!Submit(c, again, u)
  PROVE  FormsInv'
<1>1. PICK k : k = [Machine!NoCall EXCEPT !.op = "submit", !.st = "sent", !.arg = u.form, !.again = again]
  OBVIOUS
<1>2. FormsCall(k)
  BY <1>1, NoCallIsOK DEF FormsCall, FormsUi
<1>3. OnlyOneCall(c)
  BY <1>1, <1>2, PutCall DEF Machine!Submit
<1>4. FormsUi(ui')
  BY DEF Machine!Submit, FormsUi
<1> QED BY <1>3, <1>4, OneCallStep DEF Machine!Submit

LEMMA SubmitSteps ==
  ASSUME FormsInv, NEW c \in Slots, Machine!PressSubmit(c) \/ Machine!Agree(c)
  PROVE  FormsInv'
<1>1. FormsUi(ui)
  BY DEF FormsInv
<1>2. CASE Machine!PressSubmit(c)
  <2>1. PICK u : u = [ui EXCEPT !.left = @ - 1]
    OBVIOUS
  <2>2. FormsUi(u)
    BY <1>1, <2>1 DEF FormsUi
  <2> QED BY <1>2, <2>1, <2>2, SubmitStep DEF Machine!PressSubmit
<1>3. CASE Machine!Agree(c)
  <2>1. PICK u : u = [ui EXCEPT !.second = FALSE]
    OBVIOUS
  <2>2. FormsUi(u)
    BY <1>1, <2>1 DEF FormsUi
  <2> QED BY <1>3, <2>1, <2>2, SubmitStep DEF Machine!Agree
<1> QED BY <1>2, <1>3

LEMMA SubmitReturnsStep ==
  ASSUME FormsInv, NEW c \in Slots, Machine!SubmitReturns(c)
  PROVE  FormsInv'
<1>1. FormsUi(ui)
  BY DEF FormsInv
<1>2. CASE calls[c].ans = "ok"
  <2>1. PICK u : u = Machine!ResetForm(ui)
    OBVIOUS
  <2>2. FormsUi(u) /\ ui' = [u EXCEPT !.open = FALSE]
    BY <1>1, <1>2, <2>1, ResetFormOK DEF Machine!SubmitReturns
  <2>3. FormsUi(ui')
    BY <2>2 DEF FormsUi
  <2>4. OnlyOneCall(c)
    BY <1>2, SendPuts DEF Machine!SubmitReturns
  <2> QED BY <2>3, <2>4, OneCallStep DEF Machine!SubmitReturns
<1>3. CASE calls[c].ans # "ok"
  <2>1. FormKept(ui')
    BY <1>1, <1>3 DEF FormsUi, FormKept, Machine!SubmitReturns
  <2>2. OnlyOneCall(c)
    BY <1>3, NoCallIsOK, PutCall DEF Machine!SubmitReturns
  <2> QED BY <1>1, <2>1, <2>2, KeptIsOK, OneCallStep DEF Machine!SubmitReturns
<1> QED BY <1>2, <1>3

\* The operations on domains and on the cluster behind the panel leave the form alone.
LEMMA ReviewSteps ==
  ASSUME FormsInv, NEW c \in Slots,
         \/ \E r \in ui.routes, op \in {"approve", "reject", "remove"} : Machine!Review(c, r, op)
         \/ \E op \in {"k8s-status", "k8s-apply", "k8s-delete", "kubeconfig"} : Machine!PressK8s(c, op)
         \/ Machine!ReviewReturns(c) \/ Machine!ReloadReturns(c) \/ Machine!K8sReturns(c)
  PROVE  FormsInv'
<1>1. FormsUi(ui) /\ FormsCall(calls[c])
  BY DEF FormsInv
<1>2. FormKept(ui')
  BY <1>1 DEF FormsUi, FormKept, Machine!Review, Machine!PressK8s, Machine!ReviewReturns, Machine!ReloadReturns,
              Machine!K8sReturns
<1>3. UNCHANGED server
  BY DEF Machine!Review, Machine!PressK8s, Machine!ReviewReturns, Machine!ReloadReturns, Machine!K8sReturns
<1>4. OnlyOneCall(c)
  <2>1. ASSUME NEW r, NEW op \in {"approve", "reject", "remove"}, Machine!Review(c, r, op)
        PROVE  OnlyOneCall(c)
    <3>1. PICK k : k = [Machine!NoCall EXCEPT !.op = op, !.st = "sent", !.id = r.id]
      OBVIOUS
    <3>2. FormsCall(k)
      BY <3>1, NoCallIsOK DEF FormsCall
    <3> QED BY <2>1, <3>1, <3>2, PutCall DEF Machine!Review
  <2>2. ASSUME NEW op \in {"k8s-status", "k8s-apply", "k8s-delete", "kubeconfig"}, Machine!PressK8s(c, op)
        PROVE  OnlyOneCall(c)
    BY <2>2, SendPuts DEF Machine!PressK8s
  <2>3. CASE Machine!ReviewReturns(c) \/ Machine!ReloadReturns(c)
    BY <2>3, NoCallIsOK, SendPuts, PutCall DEF Machine!ReviewReturns, Machine!ReloadReturns
  <2>4. CASE Machine!K8sReturns(c)
    <3>1. PICK k : k = [Machine!NoCall EXCEPT !.op = "k8s-reload", !.st = "sent", !.again = calls[c].again]
      OBVIOUS
    <3>2. FormsCall(k)
      BY <3>1, NoCallIsOK DEF FormsCall
    <3> QED BY <2>4, <3>1, <3>2, NoCallIsOK, PutCall DEF Machine!K8sReturns
  <2> QED BY <2>1, <2>2, <2>3, <2>4
<1> QED BY <1>1, <1>2, <1>3, <1>4, KeptIsOK, OneCallStep

(* The server *)

LEMMA AnswerPuts ==
  ASSUME FormsInv, NEW c \in Slots, NEW ans, Machine!Answer(c, ans)
  PROVE  OnlyOneCall(c)
<1>1. FormsCall(calls[c])
  BY DEF FormsInv
<1>2. PICK k : k = [calls[c] EXCEPT !.st = "answered", !.ans = ans]
  OBVIOUS
<1>3. calls' = [calls EXCEPT ![c] = k]
  BY <1>1, <1>2 DEF Machine!Answer, FormsInv
<1>4. FormsCall(k)
  BY <1>1, <1>2 DEF FormsCall
<1> QED BY <1>3, <1>4, PutCall

LEMMA ServeSteps ==
  ASSUME FormsInv, NEW c \in Slots, Machine!ServeSubmit(c) \/ Machine!ServeReview(c) \/ Machine!ServeOther(c)
  PROVE  FormsInv'
<1>1. FormsUi(ui') /\ FormsCall(calls[c]) /\ server.zones \in Seq(MachineZones)
  BY DEF FormsInv, Machine!ServeSubmit, Machine!ServeReview, Machine!ServeOther
<1>2. "zones" \in DOMAIN server' /\ server'.zones = server.zones
  BY DEF FormsInv, Machine!ServeSubmit, Machine!ServeReview, Machine!ServeOther
<1>3. OnlyOneCall(c)
  <2>1. CASE Machine!ServeSubmit(c)
    BY <2>1, AnswerPuts DEF Machine!ServeSubmit
  <2>2. CASE Machine!ServeReview(c)
    BY <2>2, AnswerPuts DEF Machine!ServeReview
  <2>3. CASE Machine!ServeOther(c)
    <3>1. PICK ans, data, zones :
            /\ zones \in Seq(MachineZones)
            /\ calls' = [calls EXCEPT ![c] = [calls[c] EXCEPT !.st = "answered", !.ans = ans, !.data = data, !.seq = zones]]
      <4>1. PICK zones \in Seq(MachineZones) : zones = IF calls[c].op = "meta" THEN server.zones ELSE Machine!NoZones
        BY <1>1, NoCallIsOK
      <4>2. PICK data : data = IF calls[c].op \in {"routes", "reload"} THEN server.routes ELSE {}
        OBVIOUS
      <4>3. c \in DOMAIN calls
        BY DEF FormsInv
      <4>4. PICK ans : calls' = [calls EXCEPT ![c] = [calls[c] EXCEPT !.st = "answered", !.ans = ans,
                                                                      !.data = data, !.seq = zones]]
        BY <2>3, <4>1, <4>2, <4>3 DEF Machine!ServeOther
      <4> QED BY <4>1, <4>4
    <3>2. PICK k : k = [calls[c] EXCEPT !.st = "answered", !.ans = ans, !.data = data, !.seq = zones]
      OBVIOUS
    <3>3. FormsCall(k)
      BY <1>1, <3>1, <3>2 DEF FormsCall
    <3> QED BY <3>1, <3>2, <3>3, PutCall
  <2> QED BY <2>1, <2>2, <2>3
<1>4. \A d \in Slots : FormsCall(calls'[d])
  BY <1>3 DEF FormsInv, OnlyOneCall
<1> QED BY <1>1, <1>2, <1>3, <1>4 DEF FormsInv, OnlyOneCall

LEMMA FormsStart ==
  ASSUME Machine!Init
  PROVE  FormsInv
<1>1. cast.zones \in Seq(MachineZones)
  BY ZonesAssumption DEF Machine!Init
<1>2. "zones" \in DOMAIN server /\ server.zones = cast.zones
  BY DEF Machine!Init
<1>3. FormsUi(ui)
  BY NoCallIsOK DEF Machine!Init, FormsUi
<1>4. calls = [c \in Slots |-> Machine!NoCall]
  BY DEF Machine!Init
<1> QED BY <1>1, <1>2, <1>3, <1>4, NoCallIsOK DEF FormsInv

LEMMA FormsStep ==
  FormsInv /\ [Machine!Next]_(Machine!vars) => FormsInv'
<1> SUFFICES ASSUME FormsInv, [Machine!Next]_(Machine!vars) PROVE FormsInv'
  OBVIOUS
<1>1. CASE UNCHANGED Machine!vars
  BY <1>1 DEF Machine!vars, FormsInv
<1>2. CASE \E s \in Machine!Sections, send \in UNION {[S -> {"meta", "routes", "k8s-status"}] : S \in SUBSET Slots} :
             Machine!Enter(s, send)
  BY <1>2, EnterStep
<1>3. CASE \/ Machine!LoadAside \/ Machine!OpenForm \/ Machine!Disagree
           \/ Machine!OpenTerminal \/ Machine!TerminalFrame \/ Machine!TerminalAnswer \/ Machine!CloseTerminal
  BY <1>3, AsideSteps
<1>4. CASE Machine!CloseForm \/ Machine!Edit
  BY <1>4, CloseFormStep, EditStep
<1>5. CASE \E z \in MachineZones \cup {[id |-> Machine!Own]} : Machine!SelectSource(z.id)
  BY <1>5, SelectStep
<1>6. ASSUME NEW c \in Slots,
             \/ Machine!PressSubmit(c) \/ Machine!Agree(c)
             \/ \E r \in ui.routes, op \in {"approve", "reject", "remove"} : Machine!Review(c, r, op)
             \/ \E op \in {"k8s-status", "k8s-apply", "k8s-delete", "kubeconfig"} : Machine!PressK8s(c, op)
             \/ Machine!LoadReturns(c) \/ Machine!SubmitReturns(c) \/ Machine!ReviewReturns(c)
             \/ Machine!ReloadReturns(c) \/ Machine!K8sReturns(c)
             \/ Machine!ServeSubmit(c) \/ Machine!ServeReview(c) \/ Machine!ServeOther(c)
      PROVE  FormsInv'
  BY <1>6, SubmitSteps, ReviewSteps, LoadReturnsStep, SubmitReturnsStep, ServeSteps
<1> QED BY <1>1, <1>2, <1>3, <1>4, <1>5, <1>6 DEF Machine!Next

\* Whatever order the meta data, the resets and the selections come in: a domain
\* of a zone without review is asked for in a way the zone allows.
THEOREM FormsAskInAnAllowedWay == Spec => []ModeAllowed
<1> DEFINE Inv == scene = "machine" => FormsInv
<1>1. Init => Inv
  BY FormsStart DEF Init
<1>2. Inv /\ [Next]_vars => Inv'
  BY SceneSteps, FormsStep
<1>3. Inv => ModeAllowed
  BY NoCallIsOK DEF FormsInv, FormsCall, FormOK, ModeAllowed, Machine!ModeAllowed
<1> QED BY <1>1, <1>2, <1>3, PTL DEF Spec

----------------------------------------------------------------------------
(* The dialog that asks for a machine: the capacity of the selection       *)

CapacityUi(u) ==
  /\ {"open", "choice", "capacity", "available", "loading", "busy", "error", "usage", "asked", "row", "re", "left"}
       \subseteq DOMAIN u
  /\ u.open /\ ~u.loading /\ u.capacity # "none" => u.capacity = u.choice

\* A query that was not cancelled is about the choice that is selected.
QueryOf(k, choice) ==
  /\ {"op", "st", "for", "live", "ans", "size", "shown", "now", "fresh"} \subseteq DOMAIN k
  /\ k.op = "availability" /\ k.live => k.for = choice

CapacityInv ==
  /\ CapacityUi(ui)
  /\ DOMAIN calls = Slots /\ \A c \in Slots : QueryOf(calls[c], ui.choice)

\* A step that leaves the selection and its capacity alone, and touches one call at most.
SameSelection(u) ==
  /\ {"open", "choice", "capacity", "available", "loading", "busy", "error", "usage", "asked", "row", "re", "left"}
       \subseteq DOMAIN u
  /\ u.open = ui.open /\ u.choice = ui.choice /\ u.capacity = ui.capacity /\ u.loading = ui.loading

LEMMA SelectionKept ==
  ASSUME CapacityInv, SameSelection(ui'),
         \/ UNCHANGED calls
         \/ \E c \in Slots : \E k : calls' = [calls EXCEPT ![c] = k] /\ QueryOf(k, ui.choice)
  PROVE  CapacityInv'
BY DEF CapacityInv, CapacityUi, SameSelection

LEMMA NoQuery ==
  ASSUME NEW choice
  PROVE  QueryOf(Forms!NoCall, choice) /\ Forms!None = "none"
BY DEF QueryOf, Forms!NoCall, Forms!None

LEMMA QueryStep ==
  ASSUME CapacityInv, NEW c \in Slots, NEW u, CapacityUi(u) \/ SameSelection(u)
                                                \/ (\E ch : u = [ui EXCEPT !.choice = ch])
                                                \/ u = [ui EXCEPT !.open = TRUE],
         Forms!Query(c, u)
  PROVE  CapacityInv'
<1>1. {"open", "choice", "capacity", "available", "loading", "busy", "error", "usage", "asked", "row", "re", "left"}
       \subseteq DOMAIN u
  BY DEF CapacityInv, CapacityUi, SameSelection
<1>2. PICK v : v = Forms!LoadUsage(u)
  OBVIOUS
<1>3. DOMAIN v = DOMAIN u /\ v.choice = u.choice
  BY <1>1, <1>2 DEF Forms!LoadUsage
<1>4. ui' = [v EXCEPT !.loading = TRUE, !.left = @ - 1]
  BY <1>2 DEF Forms!Query
<1>5. CapacityUi(ui') /\ ui'.choice = u.choice
  BY <1>1, <1>3, <1>4 DEF CapacityUi
<1>6. PICK k : k = [Forms!NoCall EXCEPT !.op = "availability", !.st = "sent", !.for = u.choice, !.live = TRUE]
  OBVIOUS
<1>7. QueryOf(k, u.choice)
  BY <1>6, NoQuery DEF QueryOf
<1>8. PICK cs : cs = Forms!CancelQueries(calls)
  OBVIOUS
<1>9. DOMAIN cs = Slots /\ \A d \in Slots : QueryOf(cs[d], u.choice)
  BY <1>8 DEF Forms!CancelQueries, CapacityInv, QueryOf
<1>10. calls' = [cs EXCEPT ![c] = k]
  BY <1>6, <1>8 DEF Forms!Query
<1> QED BY <1>5, <1>7, <1>9, <1>10 DEF CapacityInv

\* Closing cancels what is on its way and forgets the capacity.
LEMMA ClosedIsOK ==
  ASSUME CapacityUi(ui), NEW v, v = Forms!Closed(ui)
  PROVE  CapacityUi(v) /\ v.choice = ui.choice /\ ~v.open
<1>1. PICK u : u = Forms!LoadUsage(ui)
  OBVIOUS
<1>2. DOMAIN u = DOMAIN ui /\ u.choice = ui.choice
  BY <1>1 DEF Forms!LoadUsage, CapacityUi
<1>3. v = [u EXCEPT !.open = FALSE, !.capacity = "none", !.loading = FALSE]
  BY <1>1 DEF Forms!Closed, Forms!None
<1> QED BY <1>2, <1>3 DEF CapacityUi

LEMMA CancelIsOK ==
  ASSUME NEW cs, DOMAIN cs = Slots, NEW choice, \A d \in Slots : QueryOf(cs[d], choice)
  PROVE  /\ DOMAIN Forms!CancelQueries(cs) = Slots
         /\ \A d \in Slots : QueryOf(Forms!CancelQueries(cs)[d], choice)
BY DEF Forms!CancelQueries, QueryOf

\* A resize dialog the row takes away takes no query of the create form with it.
LEMMA UnmountedIsOK ==
  ASSUME NEW cs, DOMAIN cs = Slots, NEW choice, \A d \in Slots : QueryOf(cs[d], choice)
  PROVE  /\ DOMAIN Forms!Unmounted(cs) = Slots
         /\ \A d \in Slots : QueryOf(Forms!Unmounted(cs)[d], choice)
BY DEF Forms!Unmounted, QueryOf

LEMMA SelectionSteps ==
  ASSUME CapacityInv, NEW c \in Slots,
         \/ Forms!OpenCreate(c) \/ (\E ch \in FormsChoices : Forms!Select(c, ch)) \/ Forms!QueryReturns(c)
         \/ Forms!CloseCreate \/ Forms!CreateReturns(c)
  PROVE  CapacityInv'
<1>1. CASE Forms!OpenCreate(c)
  BY <1>1, QueryStep DEF Forms!OpenCreate
<1>2. ASSUME NEW ch \in FormsChoices, Forms!Select(c, ch)
      PROVE  CapacityInv'
  BY <1>2, QueryStep DEF Forms!Select
<1>3. CASE Forms!QueryReturns(c)
  <2>1. calls' = [calls EXCEPT ![c] = Forms!NoCall]
    BY <1>3 DEF Forms!QueryReturns, Forms!Drop
  <2>2. CASE ~calls[c].live
    BY <1>3, <2>1, <2>2, NoQuery DEF Forms!QueryReturns, CapacityInv, CapacityUi
  <2>3. CASE calls[c].live
    <3>1. calls[c].for = ui.choice
      BY <1>3, <2>3 DEF CapacityInv, QueryOf, Forms!QueryReturns
    <3>2. PICK free : free = (calls[c].ans = "free")
      OBVIOUS
    <3>3. PICK cap : cap = IF calls[c].ans = "failed" THEN "none" ELSE calls[c].for
      OBVIOUS
    <3>4. ui' = [ui EXCEPT !.loading = FALSE, !.available = free, !.capacity = cap]
      BY <1>3, <2>3, <3>2, <3>3 DEF Forms!QueryReturns, Forms!None
    <3>5. CapacityUi(ui') /\ ui'.choice = ui.choice
      BY <3>1, <3>3, <3>4 DEF CapacityInv, CapacityUi
    <3> QED BY <2>1, <3>5, NoQuery DEF CapacityInv
  <2> QED BY <2>2, <2>3
<1>4. CASE Forms!CloseCreate
  BY <1>4, ClosedIsOK, CancelIsOK DEF Forms!CloseCreate, CapacityInv
<1>5. CASE Forms!CreateReturns(c)
  <2>1. CASE calls[c].ans = "ok"
    <3>1. PICK v : v = Forms!Closed(ui)
      OBVIOUS
    <3>2. CapacityUi(v) /\ v.choice = ui.choice /\ ui' = [v EXCEPT !.busy = FALSE]
      BY <1>5, <2>1, <3>1, ClosedIsOK DEF Forms!CreateReturns, CapacityInv
    <3>3. CapacityUi(ui') /\ ui'.choice = ui.choice
      BY <3>2 DEF CapacityUi
    <3>4. PICK cs : cs = [calls EXCEPT ![c] = Forms!NoCall]
      OBVIOUS
    <3>5. DOMAIN cs = Slots /\ \A d \in Slots : QueryOf(cs[d], ui.choice)
      BY <3>4, NoQuery DEF CapacityInv
    <3>6. calls' = Forms!CancelQueries(cs)
      BY <1>5, <2>1, <3>4 DEF Forms!CreateReturns
    <3> QED BY <3>3, <3>5, <3>6, CancelIsOK DEF CapacityInv
  <2>2. CASE calls[c].ans # "ok"
    <3>1. SameSelection(ui')
      BY <1>5, <2>2 DEF Forms!CreateReturns, SameSelection, CapacityInv, CapacityUi
    <3>2. calls' = [calls EXCEPT ![c] = Forms!NoCall]
      BY <1>5, <2>2 DEF Forms!CreateReturns, Forms!Drop
    <3> QED BY <3>1, <3>2, NoQuery, SelectionKept
  <2> QED BY <2>1, <2>2
<1> QED BY <1>1, <1>2, <1>3, <1>4, <1>5

\* The dialog that asks for another size, the purpose that is missing, the usage, the others.
LEMMA OtherFormSteps ==
  ASSUME CapacityInv,
         \/ Forms!OpenResize \/ Forms!CloseResize \/ Forms!LeaveDisk \/ Forms!Preview \/ Forms!BackToForm
         \/ Forms!Poll \/ Forms!World \/ Forms!UsageReturns
         \/ (\E name \in DOMAIN ui.plans \cup {Forms!Custom} : Forms!FillFromPlan(name))
         \/ (\E field \in {"cpu", "mem", "disk"}, n \in FormsSizes : Forms!Type(field, n))
  PROVE  CapacityInv'
<1>1. CASE Forms!Poll
  <2>1. SameSelection(ui')
    <3>1. PICK row, re : ui' = [ui EXCEPT !.row = row, !.re = re]
      BY <1>1 DEF Forms!Poll
    <3> QED BY <3>1 DEF CapacityInv, CapacityUi, SameSelection
  <2>2. calls' = calls \/ calls' = Forms!Unmounted(calls)
    BY <1>1 DEF Forms!Poll
  <2> QED BY <2>1, <2>2, SelectionKept, UnmountedIsOK DEF CapacityInv, CapacityUi, SameSelection
<1>2. ~Forms!Poll => UNCHANGED calls
  BY DEF Forms!OpenResize, Forms!CloseResize, Forms!LeaveDisk, Forms!Preview, Forms!BackToForm,
         Forms!World, Forms!UsageReturns, Forms!FillFromPlan, Forms!Type
<1>3. ~Forms!Poll => SameSelection(ui')
  <2> SUFFICES ASSUME ~Forms!Poll PROVE SameSelection(ui')
    OBVIOUS
  <2> USE DEF CapacityInv, CapacityUi, SameSelection
  <2>1. CASE \/ Forms!CloseResize \/ Forms!LeaveDisk \/ Forms!Preview \/ Forms!BackToForm
             \/ Forms!World \/ Forms!UsageReturns
    BY <2>1 DEF Forms!CloseResize, Forms!LeaveDisk, Forms!Preview, Forms!BackToForm,
                Forms!World, Forms!UsageReturns
  <2>2. CASE Forms!OpenResize
    <3>1. PICK re : ui' = [ui EXCEPT !.left = ui.left - 1, !.re = re]
      BY <2>2 DEF Forms!OpenResize
    <3> QED BY <3>1
  <2>3. CASE \E name \in DOMAIN ui.plans \cup {Forms!Custom} : Forms!FillFromPlan(name)
    BY <2>3 DEF Forms!FillFromPlan
  <2>4. CASE \E field \in {"cpu", "mem", "disk"}, n \in FormsSizes : Forms!Type(field, n)
    BY <2>4 DEF Forms!Type
  <2> QED BY <2>1, <2>2, <2>3, <2>4
<1> QED BY <1>1, <1>2, <1>3, SelectionKept

LEMMA OtherFormCallSteps ==
  ASSUME CapacityInv, NEW c \in Slots,
         \/ Forms!SubmitCreate(c) \/ Forms!Confirm(c) \/ Forms!ConfirmReturns(c)
         \/ Forms!ServeQuery(c) \/ Forms!ServeCreate(c) \/ Forms!ServeResize(c)
  PROVE  CapacityInv'
<1>1. SameSelection(ui')
  BY DEF Forms!SubmitCreate, Forms!Confirm, Forms!ConfirmReturns, Forms!ServeQuery, Forms!ServeCreate,
         Forms!ServeResize, SameSelection, CapacityInv, CapacityUi
<1>2. CASE Forms!SubmitCreate(c)
  <2>1. PICK k : k = [Forms!NoCall EXCEPT !.op = "create", !.st = "sent", !.for = ui.choice]
    OBVIOUS
  <2>2. QueryOf(k, ui.choice)
    BY <2>1, NoQuery DEF QueryOf
  <2> QED BY <1>1, <1>2, <2>1, <2>2, SelectionKept DEF Forms!SubmitCreate
<1>3. CASE Forms!Confirm(c)
  <2>1. PICK now, fresh : /\ now = Forms!ApplyNow
                          /\ fresh = (ui.re.kind = Forms!Classify(Forms!Spec0, ui.re.target))
    OBVIOUS
  <2>2. PICK k : k = [Forms!NoCall EXCEPT !.op = "resize", !.st = "sent", !.size = ui.re.target,
                        !.live = TRUE, !.shown = Forms!Spec0, !.now = now, !.fresh = fresh]
    OBVIOUS
  <2>3. QueryOf(k, ui.choice)
    BY <2>2, NoQuery DEF QueryOf
  <2>4. calls' = [calls EXCEPT ![c] = k]
    BY <1>3, <2>1, <2>2 DEF Forms!Confirm
  <2> QED BY <1>1, <2>3, <2>4, SelectionKept
<1>4. CASE Forms!ConfirmReturns(c)
  BY <1>1, <1>4, NoQuery, SelectionKept DEF Forms!ConfirmReturns, Forms!Drop
<1>5. ASSUME NEW ans, Forms!Answer(c, ans)
      PROVE  CapacityInv'
  <2>1. PICK k : k = [calls[c] EXCEPT !.st = "answered", !.ans = ans]
    OBVIOUS
  <2>2. calls' = [calls EXCEPT ![c] = k]
    BY <1>5, <2>1 DEF Forms!Answer, CapacityInv
  <2>3. QueryOf(k, ui.choice)
    BY <2>1 DEF CapacityInv, QueryOf
  <2> QED BY <1>1, <2>2, <2>3, SelectionKept
<1>6. CASE Forms!ServeQuery(c)
  BY <1>5, <1>6 DEF Forms!ServeQuery
<1>7. CASE Forms!ServeCreate(c)
  BY <1>5, <1>7 DEF Forms!ServeCreate
<1>8. CASE Forms!ServeResize(c)
  BY <1>5, <1>8 DEF Forms!ServeResize
<1> QED BY <1>2, <1>3, <1>4, <1>6, <1>7, <1>8

LEMMA CapacityStart == Forms!Init => CapacityInv
<1> SUFFICES ASSUME Forms!Init PROVE CapacityInv
  OBVIOUS
<1>1. CapacityUi(ui)
  BY DEF Forms!Init, Forms!None, CapacityUi
<1> QED BY <1>1, NoQuery DEF Forms!Init, CapacityInv

LEMMA CapacityStep ==
  CapacityInv /\ [Forms!Next]_(Forms!vars) => CapacityInv'
<1> SUFFICES ASSUME CapacityInv, [Forms!Next]_(Forms!vars) PROVE CapacityInv'
  OBVIOUS
<1>1. CASE UNCHANGED Forms!vars
  BY <1>1 DEF Forms!vars, CapacityInv
<1>2. CASE Forms!CloseCreate
  <2>1. CapacityUi(ui') /\ ui'.choice = ui.choice
    BY <1>2, ClosedIsOK DEF Forms!CloseCreate, CapacityInv
  <2> QED BY <1>2, <2>1, CancelIsOK DEF Forms!CloseCreate, CapacityInv
<1>3. CASE \/ Forms!OpenResize \/ Forms!CloseResize \/ Forms!LeaveDisk \/ Forms!Preview \/ Forms!BackToForm
           \/ Forms!Poll \/ Forms!World \/ Forms!UsageReturns
           \/ (\E name \in DOMAIN ui.plans \cup {Forms!Custom} : Forms!FillFromPlan(name))
           \/ (\E field \in {"cpu", "mem", "disk"}, n \in FormsSizes : Forms!Type(field, n))
  BY <1>3, OtherFormSteps
<1>4. ASSUME NEW c \in Slots,
             \/ Forms!OpenCreate(c) \/ (\E ch \in FormsChoices : Forms!Select(c, ch)) \/ Forms!QueryReturns(c)
             \/ Forms!CreateReturns(c) \/ Forms!SubmitCreate(c) \/ Forms!Confirm(c) \/ Forms!ConfirmReturns(c)
             \/ Forms!ServeQuery(c) \/ Forms!ServeCreate(c) \/ Forms!ServeResize(c)
      PROVE  CapacityInv'
  BY <1>4, SelectionSteps, OtherFormCallSteps
<1> QED BY <1>1, <1>2, <1>3, <1>4 DEF Forms!Next

----------------------------------------------------------------------------
(* The members of a project: the people offered for it                     *)

MembersUi(u) ==
  /\ {"project", "rows", "rowsFor", "loading", "busy", "dialog", "person", "candidates", "candidatesFor", "fetching",
      "token", "filter", "join", "target", "lines", "result", "left"} \subseteq DOMAIN u
  /\ u.dialog = "add" /\ ~u.fetching => u.candidatesFor = u.project

\* A query that was not cancelled belongs to the open dialog, and is about the project shown.
CandidatesOf(k, dialog, project) ==
  /\ {"op", "st", "for", "who", "arg", "live", "ans", "data"} \subseteq DOMAIN k
  /\ k.op = "candidates" /\ k.live => dialog = "add" /\ k.for = project
  /\ k.st = "idle" => k.op # "candidates"

CandidatesInv ==
  /\ MembersUi(ui)
  /\ DOMAIN calls = Slots /\ \A c \in Slots : CandidatesOf(calls[c], ui.dialog, ui.project)

\* A step that leaves the dialog and its candidates alone, and touches one call at most.
SameDialog(u) ==
  /\ DOMAIN u = DOMAIN ui /\ u.project = ui.project /\ u.candidatesFor = ui.candidatesFor
  /\ u.fetching = ui.fetching
  /\ u.dialog = ui.dialog \/ (ui.dialog # "add" /\ u.dialog # "add")

LEMMA DialogKept ==
  ASSUME CandidatesInv, SameDialog(ui'),
         \/ UNCHANGED calls
         \/ \E c \in Slots : \E k : calls' = [calls EXCEPT ![c] = k] /\ CandidatesOf(k, ui.dialog, ui.project)
  PROVE  CandidatesInv'
BY DEF CandidatesInv, MembersUi, SameDialog, CandidatesOf

\* A call of another kind may go anywhere.
LEMMA NoCandidates ==
  /\ Members!None = "none"
  /\ \A dialog, project : CandidatesOf(Members!NoCall, dialog, project)
  /\ \A op, for, who, arg, dialog, project :
       op # "candidates" => CandidatesOf(Members!Sent(op, for, who, arg), dialog, project)
BY DEF CandidatesOf, Members!NoCall, Members!None, Members!Sent

LEMMA StepKeeps ==
  ASSUME NEW u, MembersUi(u), NEW v, v = Members!Step(u)
  PROVE  /\ MembersUi(v) /\ DOMAIN v = DOMAIN u /\ v.project = u.project /\ v.dialog = u.dialog
         /\ v.candidatesFor = u.candidatesFor /\ v.fetching = u.fetching
BY DEF Members!Step, MembersUi

LEMMA FieldKeeps ==
  ASSUME NEW s, SameDialog(s), NEW f \in {"target", "join", "filter", "lines"}, NEW x
  PROVE  SameDialog([s EXCEPT ![f] = x])
BY DEF SameDialog

LEMMA OperateStep ==
  ASSUME CandidatesInv, NEW c \in Slots, NEW k, CandidatesOf(k, ui.dialog, ui.project),
         NEW u, SameDialog(u), Members!Operate(c, k, u)
  PROVE  CandidatesInv'
<1>1. SameDialog(ui')
  BY DEF Members!Operate, SameDialog, CandidatesInv, MembersUi
<1> QED BY <1>1, DialogKept DEF Members!Operate

\* Cancelled, nothing is left that belongs to the dialog.
LEMMA CancelledIsOK ==
  ASSUME NEW cs, DOMAIN cs = Slots, NEW dialog, NEW project,
         \A d \in Slots : CandidatesOf(cs[d], dialog, project),
         NEW other
  PROVE  /\ DOMAIN Members!CancelCandidates(cs) = Slots
         /\ \A d \in Slots : CandidatesOf(Members!CancelCandidates(cs)[d], other, project)
BY DEF Members!CancelCandidates, CandidatesOf

LEMMA ProjectSteps ==
  ASSUME CandidatesInv, Members!Deselect \/ (\E c \in Slots, p \in MembersProjects : Members!SelectProject(c, p))
  PROVE  CandidatesInv'
<1>0. \A d \in Slots : calls[d].op = "candidates" => ~calls[d].live /\ calls[d].st # "idle"
  BY NoCandidates DEF CandidatesInv, CandidatesOf, Members!Deselect, Members!SelectProject
<1>1. CASE Members!Deselect
  <2>1. MembersUi(ui') /\ ui'.dialog = "none"
    BY <1>1 DEF Members!Deselect, Members!Blank, Members!None, MembersUi
  <2>2. ASSUME NEW d \in Slots
        PROVE  CandidatesOf(calls'[d], ui'.dialog, ui'.project)
    <3>1. PICK live : live = Members!Free(d)
      OBVIOUS
    <3>2. calls'[d] = [calls[d] EXCEPT !.live = live]
      BY <1>1, <3>1 DEF Members!Deselect
    <3> QED BY <1>0, <3>1, <3>2 DEF Members!Free, CandidatesInv, CandidatesOf
  <2> QED BY <1>1, <2>1, <2>2 DEF Members!Deselect, CandidatesInv
<1>2. ASSUME NEW c \in Slots, NEW p \in MembersProjects, Members!SelectProject(c, p)
      PROVE  CandidatesInv'
  <2>1. PICK u : u = Members!Step(ui)
    OBVIOUS
  <2>2. DOMAIN u = DOMAIN ui /\ u.dialog = "none" /\ MembersUi(u)
    <3>1. ui.dialog = "none"
      BY <1>2, NoCandidates DEF Members!SelectProject
    <3> QED BY <2>1, <3>1, StepKeeps DEF CandidatesInv
  <2>3. PICK result, lines : ui' = [u EXCEPT !.project = p, !.loading = TRUE, !.token = Members!None,
                                               !.filter = "all", !.result = result, !.lines = lines]
    <3>1. PICK r, l : r = (u.result /\ ui.project # Members!None) /\ l = IF ui.project # Members!None THEN u.lines ELSE {}
      OBVIOUS
    <3> QED BY <1>2, <2>1, <2>2, <3>1 DEF Members!SelectProject, MembersUi
  <2>4. MembersUi(ui') /\ ui'.dialog = "none"
    BY <2>2, <2>3 DEF MembersUi
  <2>5. ASSUME NEW d \in Slots
        PROVE  CandidatesOf(calls'[d], ui'.dialog, ui'.project)
    <3>1. CASE d = c
      BY <1>2, <3>1, NoCandidates DEF Members!SelectProject
    <3>2. CASE d # c
      <4>1. PICK live : live = (calls[d].live /\ (ui.project # Members!None \/ calls[d].op # "batch"))
        OBVIOUS
      <4>2. "live" \in DOMAIN calls[d]
        BY DEF CandidatesInv, CandidatesOf
      <4>3. calls'[d] = [calls[d] EXCEPT !.live = live]
        BY <1>2, <3>2, <4>1, <4>2 DEF Members!SelectProject
      <4> QED BY <1>0, <4>1, <4>3 DEF CandidatesInv, CandidatesOf
    <3> QED BY <3>1, <3>2
  <2> QED BY <1>2, <2>4, <2>5 DEF Members!SelectProject, CandidatesInv
<1> QED BY <1>1, <1>2

LEMMA AddSteps ==
  ASSUME CandidatesInv, NEW c \in Slots, Members!OpenAdd(c) \/ Members!CandidatesReturn(c)
  PROVE  CandidatesInv'
<1>1. CASE Members!OpenAdd(c)
  <2>1. PICK u : u = Members!Step(ui)
    OBVIOUS
  <2>2. DOMAIN u = DOMAIN ui /\ u.project = ui.project
    BY <2>1, StepKeeps DEF CandidatesInv, MembersUi
  <2>3. ui' = [u EXCEPT !.dialog = "add", !.person = Members!None, !.fetching = TRUE]
    BY <1>1, <2>1 DEF Members!OpenAdd
  <2>4. MembersUi(ui') /\ ui'.dialog = "add" /\ ui'.project = ui.project
    BY <2>2, <2>3 DEF CandidatesInv, MembersUi
  <2>5. CandidatesOf(Members!Sent("candidates", ui.project, Members!None, Members!None), "add", ui.project)
    BY DEF CandidatesOf, Members!Sent, Members!NoCall
  <2>6. calls' = [calls EXCEPT ![c] = Members!Sent("candidates", ui.project, Members!None, Members!None)]
    BY <1>1 DEF Members!OpenAdd
  <2>7. \A d \in Slots : CandidatesOf(calls[d], "add", ui.project)
    BY DEF CandidatesInv, CandidatesOf
  <2> HIDE DEF CandidatesInv
  <2>8. DOMAIN calls' = Slots /\ \A d \in Slots : CandidatesOf(calls'[d], ui'.dialog, ui'.project)
    BY <2>4, <2>5, <2>6, <2>7 DEF CandidatesInv
  <2> QED BY <2>4, <2>8 DEF CandidatesInv
<1>2. CASE Members!CandidatesReturn(c)
  <2>1. calls' = [calls EXCEPT ![c] = Members!NoCall]
    BY <1>2 DEF Members!CandidatesReturn
  <2>2. CASE ~calls[c].live
    BY <1>2, <2>1, <2>2, NoCandidates DEF Members!CandidatesReturn, CandidatesInv
  <2>3. CASE calls[c].live
    <3>1. calls[c].for = ui.project
      BY <1>2, <2>3 DEF CandidatesInv, CandidatesOf, Members!CandidatesReturn
    <3>2. PICK people : ui' = [ui EXCEPT !.fetching = FALSE, !.candidatesFor = calls[c].for, !.candidates = people]
      BY <1>2, <2>3 DEF Members!CandidatesReturn
    <3>3. MembersUi(ui') /\ ui'.dialog = ui.dialog /\ ui'.project = ui.project
      BY <3>1, <3>2 DEF CandidatesInv, MembersUi
    <3> QED BY <2>1, <3>3, NoCandidates DEF CandidatesInv
  <2> QED BY <2>2, <2>3
<1> QED BY <1>1, <1>2

LEMMA CloseDialogStep ==
  ASSUME CandidatesInv, Members!CloseDialog
  PROVE  CandidatesInv'
<1>1. MembersUi(ui') /\ ui'.dialog = "none" /\ ui'.project = ui.project
  <2>1. PICK v : v = [ui EXCEPT !.dialog = "none", !.person = "none"]
    OBVIOUS
  <2>2. MembersUi(v) /\ v.dialog = "none" /\ v.project = ui.project
    BY <2>1 DEF CandidatesInv, MembersUi
  <2>3. ui' = v \/ ui' = [v EXCEPT !.result = FALSE, !.lines = {}]
    BY <2>1, NoCandidates DEF Members!CloseDialog
  <2> QED BY <2>2, <2>3 DEF MembersUi
<1>2. CASE ui.dialog = "add"
  <2>1. calls' = Members!CancelCandidates(calls)
    BY <1>2 DEF Members!CloseDialog
  <2> QED BY <1>1, <2>1, CancelledIsOK DEF CandidatesInv
<1>3. CASE ui.dialog # "add"
  <2>1. UNCHANGED calls
    BY <1>3 DEF Members!CloseDialog
  <2> QED BY <1>1, <1>3, <2>1 DEF CandidatesInv, CandidatesOf
<1> QED BY <1>2, <1>3

\* The filter, the other dialogs and the text of a batch send nothing.
LEMMA QuietSteps ==
  ASSUME CandidatesInv,
         \/ Members!Tick \/ Members!BackToBatch
         \/ (\E f : Members!SetFilter(f)) \/ (\E u : Members!Choose(u)) \/ (\E l : Members!EditLines(l))
         \/ (\E d \in {"invite", "batch", "remove"} : \E u : Members!OpenDialog(d, u))
  PROVE  CandidatesInv'
<1>1. PICK s : s = Members!Step(ui)
  OBVIOUS
<1>2. DOMAIN s = DOMAIN ui /\ SameDialog(s) /\ SameDialog(ui)
  BY <1>1, StepKeeps DEF CandidatesInv, MembersUi, SameDialog
<1>3. UNCHANGED calls
  BY DEF Members!Tick, Members!BackToBatch, Members!SetFilter, Members!Choose, Members!EditLines, Members!OpenDialog
<1>4. CASE Members!Tick
  <2>1. CASE \E p : ui' = [s EXCEPT !.target = p]
    <3>1. PICK p : ui' = [s EXCEPT !.target = p]
      BY <2>1
    <3> QED BY <1>2, <1>3, <3>1, FieldKeeps, DialogKept
  <2>2. CASE ui' = [s EXCEPT !.join = ~@]
    <3>1. PICK join \in BOOLEAN : join = ~s.join
      OBVIOUS
    <3>2. ui' = [s EXCEPT !.join = join]
      BY <1>2, <2>2, <3>1 DEF CandidatesInv, MembersUi
    <3> QED BY <1>2, <1>3, <3>2, FieldKeeps, DialogKept
  <2> QED BY <1>1, <1>4, <2>1, <2>2 DEF Members!Tick
<1>5. CASE Members!BackToBatch
  BY <1>3, <1>5, DialogKept DEF Members!BackToBatch, SameDialog, CandidatesInv, MembersUi
<1>6. CASE \E f : Members!SetFilter(f)
  <2>1. SameDialog(ui')
    BY <1>1, <1>2, <1>6 DEF Members!SetFilter, SameDialog, CandidatesInv, MembersUi
  <2> QED BY <1>3, <2>1, DialogKept
<1>7. CASE \E u : Members!Choose(u)
  BY <1>3, <1>7, DialogKept DEF Members!Choose, SameDialog, CandidatesInv, MembersUi
<1>8. CASE \E l : Members!EditLines(l)
  <2>1. PICK lines : ui' = [s EXCEPT !.lines = lines]
    BY <1>1, <1>2, <1>8 DEF Members!EditLines, CandidatesInv, MembersUi
  <2>2. SameDialog(ui')
    BY <1>2, <2>1 DEF SameDialog, CandidatesInv, MembersUi
  <2> QED BY <1>3, <2>2, DialogKept
<1>9. CASE \E d \in {"invite", "batch", "remove"} : \E u : Members!OpenDialog(d, u)
  <2>1. PICK d, u : /\ d # "add" /\ ui.dialog = "none"
                   /\ ui' = [s EXCEPT !.dialog = d, !.person = u]
    BY <1>1, <1>9, NoCandidates DEF Members!OpenDialog
  <2>2. SameDialog(ui')
    BY <1>2, <2>1 DEF SameDialog, CandidatesInv, MembersUi
  <2> QED BY <1>3, <2>2, DialogKept
<1> QED BY <1>4, <1>5, <1>6, <1>7, <1>8, <1>9

LEMMA OperationSteps ==
  ASSUME CandidatesInv, NEW c \in Slots,
         \/ Members!ConfirmRemove(c) \/ Members!RequestSsh(c)
         \/ (\E r : Members!SubmitAdd(c, r) \/ Members!SubmitInvite(c, r))
         \/ (\E u : Members!ToggleSsh(c, u) \/ \E r : Members!ChangeRole(c, u, r))
  PROVE  CandidatesInv'
<1>1. PICK s : s = Members!Step(ui)
  OBVIOUS
<1>2. SameDialog(s) /\ SameDialog(ui)
  BY <1>1, StepKeeps DEF CandidatesInv, MembersUi, SameDialog
<1>3. \A op, for, who, arg : op # "candidates" =>
        CandidatesOf(Members!Sent(op, for, who, arg), ui.dialog, ui.project)
  BY NoCandidates
<1>4. CASE Members!ConfirmRemove(c)
  <2>1. PICK u : u = [ui EXCEPT !.dialog = Members!None, !.person = Members!None]
    OBVIOUS
  <2>2. SameDialog(u)
    BY <1>4, <2>1, NoCandidates DEF SameDialog, CandidatesInv, MembersUi, Members!ConfirmRemove
  <2> QED BY <1>3, <1>4, <2>1, <2>2, OperateStep DEF Members!ConfirmRemove
<1>5. CASE Members!RequestSsh(c)
  BY <1>1, <1>2, <1>3, <1>5, OperateStep DEF Members!RequestSsh
<1>6. ASSUME NEW r, Members!SubmitAdd(c, r) \/ Members!SubmitInvite(c, r)
      PROVE  CandidatesInv'
  BY <1>2, <1>3, <1>6, OperateStep DEF Members!SubmitAdd, Members!SubmitInvite
<1>7. ASSUME NEW u, Members!ToggleSsh(c, u)
      PROVE  CandidatesInv'
  BY <1>1, <1>2, <1>3, <1>7, OperateStep DEF Members!ToggleSsh
<1>8. ASSUME NEW u, NEW r, Members!ChangeRole(c, u, r)
      PROVE  CandidatesInv'
  BY <1>1, <1>2, <1>3, <1>8, OperateStep DEF Members!ChangeRole
<1> QED BY <1>4, <1>5, <1>6, <1>7, <1>8

\* A success may close the dialog, and with it cancels the query for people.
LEMMA OperationReturnsStep ==
  ASSUME CandidatesInv, NEW c \in Slots, Members!OperationReturns(c)
  PROVE  CandidatesInv'
<1> DEFINE k == calls[c]
<1>1. CASE k.ans = "ok" /\ k.op # "invite"
  <2>1. PICK closes \in BOOLEAN : closes <=> (k.live /\ k.op = "add" /\ ui.dialog = "add")
    OBVIOUS
  <2>2. PICK reload : reload = [Members!Sent("reload", k.for, Members!None, Members!None) EXCEPT !.live = k.live]
    OBVIOUS
  <2>3. \A dialog, project : CandidatesOf(reload, dialog, project)
    BY <2>2, NoCandidates DEF CandidatesOf, Members!Sent, Members!NoCall
  <2>4. PICK rest : rest = [calls EXCEPT ![c] = reload]
    OBVIOUS
  <2>5. DOMAIN rest = Slots /\ \A d \in Slots : CandidatesOf(rest[d], ui.dialog, ui.project)
    BY <2>3, <2>4 DEF CandidatesInv
  <2>6. calls' = IF closes THEN Members!CancelCandidates(rest) ELSE rest
    BY <1>1, <2>1, <2>2, <2>4 DEF Members!OperationReturns
  <2>7. PICK loading, person :
          ui' = [ui EXCEPT !.loading = loading, !.dialog = IF closes THEN "none" ELSE @, !.person = person]
    <3>1. PICK l, p : /\ l \in BOOLEAN /\ l = (ui.loading \/ k.live)
                     /\ p = IF closes THEN "none" ELSE ui.person
      OBVIOUS
    <3>2. ui' = [ui EXCEPT !.loading = l, !.dialog = IF closes THEN "none" ELSE @, !.person = p]
      BY <1>1, <2>1, <3>1, NoCandidates DEF Members!OperationReturns, CandidatesInv, MembersUi
    <3> QED BY <3>2
  <2>8. CASE closes
    <3>1. ui' = [ui EXCEPT !.loading = loading, !.dialog = "none", !.person = person]
      BY <2>7, <2>8
    <3>2. MembersUi(ui') /\ ui'.project = ui.project
      BY <3>1 DEF CandidatesInv, MembersUi
    <3> QED BY <2>5, <2>6, <2>8, <3>2, CancelledIsOK DEF CandidatesInv
  <2>9. CASE ~closes
    <3>1. ui' = [ui EXCEPT !.loading = loading, !.person = person]
      BY <2>7, <2>9 DEF CandidatesInv, MembersUi
    <3>2. MembersUi(ui') /\ ui'.project = ui.project /\ ui'.dialog = ui.dialog
      BY <3>1 DEF CandidatesInv, MembersUi
    <3> QED BY <2>5, <2>6, <2>9, <3>2 DEF CandidatesInv
  <2> QED BY <2>8, <2>9
<1>2. CASE ~(k.ans = "ok" /\ k.op # "invite")
  <2>0. PICK busy, token : /\ busy \in BOOLEAN /\ busy = (ui.busy /\ ~k.live)
                          /\ token = IF k.live /\ k.ans = "ok" THEN k.for ELSE ui.token
    OBVIOUS
  <2>1. ui' = [ui EXCEPT !.busy = busy, !.token = token]
    BY <1>2, <2>0 DEF Members!OperationReturns, CandidatesInv, MembersUi
  <2>2. SameDialog(ui')
    BY <2>1 DEF SameDialog, CandidatesInv, MembersUi
  <2>3. calls' = [calls EXCEPT ![c] = Members!NoCall]
    BY <1>2 DEF Members!OperationReturns
  <2> QED BY <2>2, <2>3, NoCandidates, DialogKept
<1> QED BY <1>1, <1>2

LEMMA OtherReturns ==
  ASSUME CandidatesInv, NEW c \in Slots,
         Members!SubmitBatch(c) \/ Members!LoadReturns(c) \/ Members!BatchReturns(c) \/ Members!Serve(c)
  PROVE  CandidatesInv'
<1>1. CASE Members!SubmitBatch(c)
  <2>1. SameDialog(ui')
    BY <1>1 DEF Members!SubmitBatch, SameDialog
  <2> QED BY <1>1, <2>1, NoCandidates, DialogKept DEF Members!SubmitBatch
<1>2. CASE Members!LoadReturns(c)
  <2>1. SameDialog(ui')
    BY <1>2 DEF Members!LoadReturns, SameDialog, CandidatesInv, MembersUi
  <2> QED BY <1>2, <2>1, NoCandidates, DialogKept DEF Members!LoadReturns
<1>3. CASE Members!BatchReturns(c)
  <2>1. PICK some \in BOOLEAN, loads \in BOOLEAN :
          /\ calls' = [calls EXCEPT ![c] = IF ~loads THEN Members!NoCall
                         ELSE [Members!Sent("load", calls[c].arg, Members!None, Members!None) EXCEPT !.live = calls[c].live]]
          /\ ui' = [ui EXCEPT !.result = @ \/ (calls[c].live /\ calls[c].ans = "ok"), !.loading = @ \/ (calls[c].live /\ loads)]
    <3>1. PICK some \in BOOLEAN :
       LET loads == some /\ calls[c].ans = "ok" /\ calls[c].arg # Members!None IN
       /\ calls' = [calls EXCEPT ![c] = IF ~loads THEN Members!NoCall
                                        ELSE [Members!Sent("load", calls[c].arg, Members!None, Members!None) EXCEPT !.live = calls[c].live]]
       /\ ui' = [ui EXCEPT !.result = @ \/ (calls[c].live /\ calls[c].ans = "ok"), !.loading = @ \/ (calls[c].live /\ loads)]
      BY <1>3 DEF Members!BatchReturns
    <3>2. PICK loads \in BOOLEAN : loads = (some /\ calls[c].ans = "ok" /\ calls[c].arg # Members!None)
      OBVIOUS
    <3> QED BY <3>1, <3>2
  <2>2. SameDialog(ui')
    BY <2>1 DEF SameDialog, CandidatesInv, MembersUi
  <2>3. PICK k : k = IF ~loads THEN Members!NoCall
                     ELSE [Members!Sent("load", calls[c].arg, Members!None, Members!None) EXCEPT !.live = calls[c].live]
    OBVIOUS
  <2>4. CandidatesOf(k, ui.dialog, ui.project)
    BY <2>3, NoCandidates DEF CandidatesOf, Members!Sent, Members!NoCall
  <2> QED BY <2>1, <2>2, <2>3, <2>4, DialogKept
<1>4. CASE Members!Serve(c)
  <2>1. SameDialog(ui')
    BY <1>4 DEF Members!Serve, SameDialog
  <2>2. PICK ans, data : calls' = [calls EXCEPT ![c] = [calls[c] EXCEPT !.st = "answered", !.ans = ans, !.data = data]]
    <3>0. c \in DOMAIN calls /\ {"st", "ans", "data"} \subseteq DOMAIN calls[c]
      BY DEF CandidatesInv, CandidatesOf
    <3>1. PICK a : a = IF Members!Refuses(calls[c]) THEN "refused" ELSE "ok"
      OBVIOUS
    <3>2. PICK got : got = [role |-> server'.members[calls[c].for], ssh |-> server'.ssh[calls[c].for]]
      OBVIOUS
    <3>3. calls' = [calls EXCEPT ![c].st = "answered", ![c].ans = a,
                      ![c].data = IF calls[c].op \in {"load", "reload", "candidates"} THEN got ELSE @]
      BY <1>4, <3>1, <3>2 DEF Members!Serve
    <3>4. PICK d : d = IF calls[c].op \in {"load", "reload", "candidates"} THEN got ELSE calls[c].data
      OBVIOUS
    <3>5. calls' = [calls EXCEPT ![c] = [calls[c] EXCEPT !.st = "answered", !.ans = a, !.data = d]]
      BY <3>0, <3>3, <3>4
    <3> QED BY <3>5
  <2>3. PICK k : k = [calls[c] EXCEPT !.st = "answered", !.ans = ans, !.data = data]
    OBVIOUS
  <2>4. CandidatesOf(k, ui.dialog, ui.project)
    BY <2>3 DEF CandidatesInv, CandidatesOf
  <2> QED BY <2>1, <2>2, <2>3, <2>4, DialogKept
<1> QED BY <1>1, <1>2, <1>3, <1>4

LEMMA CandidatesStart == Members!Init => CandidatesInv
<1> SUFFICES ASSUME Members!Init PROVE CandidatesInv
  OBVIOUS
<1>1. MembersUi(ui)
  BY DEF Members!Init, Members!Blank, Members!None, MembersUi
<1> QED BY <1>1, NoCandidates DEF Members!Init, CandidatesInv

LEMMA CandidatesStep ==
  CandidatesInv /\ [Members!Next]_(Members!vars) => CandidatesInv'
<1> SUFFICES ASSUME CandidatesInv, [Members!Next]_(Members!vars) PROVE CandidatesInv'
  OBVIOUS
<1>1. CASE UNCHANGED Members!vars
  BY <1>1 DEF Members!vars, CandidatesInv
<1>2. CASE Members!CloseDialog \/ Members!Deselect
  BY <1>2, CloseDialogStep, ProjectSteps
<1>3. CASE \/ Members!Tick \/ Members!BackToBatch
           \/ (\E f : Members!SetFilter(f)) \/ (\E u : Members!Choose(u)) \/ (\E l : Members!EditLines(l))
           \/ (\E d \in {"invite", "batch", "remove"} : \E u : Members!OpenDialog(d, u))
  BY <1>3, QuietSteps
<1>4. ASSUME NEW c \in Slots,
             \/ (\E p \in MembersProjects : Members!SelectProject(c, p)) \/ Members!OpenAdd(c)
             \/ Members!ConfirmRemove(c) \/ Members!RequestSsh(c)
             \/ (\E r : Members!SubmitAdd(c, r) \/ Members!SubmitInvite(c, r))
             \/ (\E u : Members!ToggleSsh(c, u) \/ \E r : Members!ChangeRole(c, u, r))
             \/ Members!SubmitBatch(c) \/ Members!LoadReturns(c) \/ Members!CandidatesReturn(c)
             \/ Members!OperationReturns(c) \/ Members!BatchReturns(c) \/ Members!Serve(c)
      PROVE  CandidatesInv'
  BY <1>4, ProjectSteps, AddSteps, OperationSteps, OtherReturns, OperationReturnsStep
<1> QED BY <1>1, <1>2, <1>3, <1>4 DEF Members!Next

\* However selections, answers that come late and dialogs that are closed and opened
\* again interleave: what is shown for a selection was worked out for it.
THEOREM AnswersFitTheSelection == Spec => []AnswersFitSelection
<1> DEFINE Inv == /\ scene = "forms" => CapacityInv
                  /\ scene = "members" => CandidatesInv
<1>1. Init => Inv
  BY CapacityStart, CandidatesStart DEF Init
<1>2. Inv /\ [Next]_vars => Inv'
  BY SceneSteps, CapacityStep, CandidatesStep
<1>3. Inv => AnswersFitSelection
  BY DEF CapacityInv, CapacityUi, CandidatesInv, MembersUi, AnswersFitSelection, Forms!CapacityMatchesSelection,
         Forms!None, Members!CandidatesOfThisProject
<1> QED BY <1>1, <1>2, <1>3, PTL DEF Spec


----------------------------------------------------------------------------
(* The projects: the form that is saved to the project it was filled from  *)

PlaceFields(u) ==
  {"page", "id", "shown", "dialog", "target", "fields", "budget"} \subseteq DOMAIN u

\* On the page of a project, once it is shown, its budget and the fields of the
\* dialog that edits are its own; in the list the fields are those of the target.
FilledIn(u) ==
  /\ PlaceFields(u)
  /\ u.page = "detail" => u.id \in PageProjects
  /\ u.page = "detail" /\ u.shown # "none" =>
       u.shown = u.id /\ u.budget = u.id /\ (u.dialog = "edit" => u.fields = u.id)
  /\ u.page # "detail" /\ u.dialog = "edit" => u.fields = u.target

SavesItsOwn(k) ==
  /\ {"op", "st", "for", "from", "live", "ans", "made"} \subseteq DOMAIN k
  /\ k.op \in {"save", "budget"} => k.from = k.for
  /\ k.op = "create" /\ k.ans = "ok" => k.made \in PageProjects

FilledInv ==
  FilledIn(ui) /\ DOMAIN calls = Slots /\ \A c \in Slots : SavesItsOwn(calls[c])

\* The same page with the same forms; a dialog may have been closed.
SamePage(u) ==
  /\ PlaceFields(u) /\ u.page = ui.page /\ u.id = ui.id /\ u.shown = ui.shown /\ u.fields = ui.fields
  /\ u.budget = ui.budget
  /\ (u.dialog = ui.dialog /\ u.target = ui.target) \/ u.dialog # "edit"

LEMMA SamePageIsOK ==
  ASSUME FilledIn(ui), NEW u, SamePage(u)
  PROVE  FilledIn(u)
BY DEF FilledIn, SamePage

LEMMA FieldOfPage ==
  ASSUME NEW u, SamePage(u), NEW f, f \notin {"page", "id", "shown", "dialog", "target", "fields", "budget"}, NEW x
  PROVE  SamePage([u EXCEPT ![f] = x])
BY DEF SamePage, PlaceFields

LEMMA ProjectStepIsSame ==
  ASSUME FilledIn(ui), NEW s, s = ProjectsPage!Step(ui)
  PROVE  SamePage(s) /\ s.dialog = ui.dialog /\ s.target = ui.target
BY DEF FilledIn, SamePage, PlaceFields, ProjectsPage!Step

LEMMA ClosedIsSame ==
  ASSUME FilledIn(ui), NEW u, SamePage(u)
  PROVE  SamePage(ProjectsPage!Closed(u))
BY DEF FilledIn, SamePage, PlaceFields, ProjectsPage!Closed, ProjectsPage!None

\* A page that is entered has no dialog, and shows nothing yet.
LEMMA LeftIsOK ==
  ASSUME NEW u, PlaceFields(u), NEW p \in PageProjects
  PROVE  FilledIn(ProjectsPage!Visit(u, p)) /\ FilledIn(ProjectsPage!ToList(u))
<1>1. PICK l : l = ProjectsPage!Left(u)
  OBVIOUS
<1>2. PlaceFields(l) /\ l.shown = "none" /\ l.dialog = "none"
  BY <1>1 DEF ProjectsPage!Left, ProjectsPage!None, PlaceFields
<1>3. PICK v : v = ProjectsPage!Visit(u, p)
  OBVIOUS
<1>4. v = [l EXCEPT !.page = "detail", !.id = p, !.current = p, !.section = "overview"]
  BY <1>1, <1>3 DEF ProjectsPage!Visit
<1>5. FilledIn(v)
  BY <1>2, <1>4 DEF FilledIn, PlaceFields
<1>6. PICK w : w = ProjectsPage!ToList(u)
  OBVIOUS
<1>7. w = [l EXCEPT !.page = "list", !.id = "none"]
  BY <1>1, <1>6 DEF ProjectsPage!ToList, ProjectsPage!None
<1>8. FilledIn(w)
  BY <1>2, <1>7 DEF FilledIn, PlaceFields
<1> QED BY <1>3, <1>5, <1>6, <1>8

LEMMA DeafIsOK ==
  ASSUME NEW cs, DOMAIN cs = Slots, \A c \in Slots : SavesItsOwn(cs[c])
  PROVE  DOMAIN ProjectsPage!Deaf(cs) = Slots /\ \A c \in Slots : SavesItsOwn(ProjectsPage!Deaf(cs)[c])
BY DEF ProjectsPage!Deaf, SavesItsOwn

LEMMA PageSteps ==
  ASSUME FilledInv, ProjectsPage!BackToList \/ (\E p \in PageProjects : ProjectsPage!OpenProject(p) \/ ProjectsPage!Jump(p))
  PROVE  FilledInv'
<1>1. PICK s : s = ProjectsPage!Step(ui)
  OBVIOUS
<1>2. SamePage(s) /\ PlaceFields(s)
  BY <1>1, ProjectStepIsSame DEF FilledInv, SamePage
<1>3. CASE ProjectsPage!BackToList
  <2>1. ui.id \in PageProjects
    BY <1>3 DEF ProjectsPage!BackToList, FilledInv, FilledIn
  <2>2. FilledIn(ui')
    BY <1>1, <1>2, <1>3, <2>1, LeftIsOK DEF ProjectsPage!BackToList
  <2> QED BY <1>3, <2>2, DeafIsOK DEF ProjectsPage!BackToList, FilledInv
<1>4. ASSUME NEW p \in PageProjects, ProjectsPage!OpenProject(p)
      PROVE  FilledInv'
  <2>1. FilledIn(ui')
    BY <1>1, <1>2, <1>4, LeftIsOK DEF ProjectsPage!OpenProject
  <2> QED BY <1>4, <2>1, DeafIsOK DEF ProjectsPage!OpenProject, FilledInv
<1>5. ASSUME NEW p \in PageProjects, ProjectsPage!Jump(p)
      PROVE  FilledInv'
  <2>1. ui' = [s EXCEPT !.id = p, !.shown = "none", !.section = "overview"] /\ ui.page = "detail"
    BY <1>1, <1>5 DEF ProjectsPage!Jump, ProjectsPage!None
  <2>2. FilledIn(ui')
    BY <1>2, <2>1 DEF FilledIn, SamePage, PlaceFields
  <2> QED BY <1>5, <2>2 DEF ProjectsPage!Jump, FilledInv
<1> QED BY <1>3, <1>4, <1>5

\* What a project is shown with fills its budget and the dialog that was left open.
LEMMA ShowStep ==
  ASSUME FilledInv, ProjectsPage!ShowProject
  PROVE  FilledInv'
<1>1. PICK target, fields, purpose :
        /\ fields = IF ui.dialog = "edit" THEN ui.id ELSE ui.fields
        /\ target = IF ui.dialog \in {"edit", "delete"} THEN ui.id ELSE ui.target
        /\ purpose = server.alive \ server.purpose
  OBVIOUS
<1>2. ui' = [ui EXCEPT !.shown = ui.id, !.current = ui.id, !.budget = ui.id, !.noPurpose = purpose,
                       !.target = target, !.fields = fields]
  BY <1>1 DEF ProjectsPage!ShowProject
<1>3. ui.page = "detail" /\ UNCHANGED calls
  BY DEF ProjectsPage!ShowProject
<1>4. FilledIn(ui')
  BY <1>1, <1>2, <1>3 DEF FilledInv, FilledIn, PlaceFields
<1> QED BY <1>3, <1>4 DEF FilledInv

LEMMA OpenDialogStep ==
  ASSUME FilledInv, NEW d \in {"create", "edit", "delete"}, NEW p, ProjectsPage!OpenDialog(d, p)
  PROVE  FilledInv'
<1>1. PICK s : s = ProjectsPage!Step(ui)
  OBVIOUS
<1>2. SamePage(s) /\ PlaceFields(s)
  BY <1>1, ProjectStepIsSame DEF FilledInv, SamePage
<1>3. PICK fields : fields = IF d = "delete" THEN s.fields ELSE p
  OBVIOUS
<1>4. ui' = [s EXCEPT !.dialog = d, !.target = p, !.fields = fields, !.error = FALSE] /\ UNCHANGED calls
  BY <1>1, <1>2, <1>3 DEF ProjectsPage!OpenDialog, ProjectsPage!Opened, PlaceFields
<1>5. ui.page = "detail" /\ d = "edit" => p = ui.shown
  BY DEF ProjectsPage!OpenDialog, ProjectsPage!Subject
<1>6. FilledIn(ui')
  BY <1>2, <1>3, <1>4, <1>5 DEF FilledInv, FilledIn, SamePage, PlaceFields
<1> QED BY <1>4, <1>6 DEF FilledInv

LEMMA StillSteps ==
  ASSUME FilledInv, \/ ProjectsPage!FoldSideBar \/ ProjectsPage!Filter \/ ProjectsPage!CloseDialog
                    \/ ProjectsPage!RefuseInput \/ ProjectsPage!Refetch
                    \/ (\E section : ProjectsPage!Navigate(section) \/ ProjectsPage!FollowShortcut(section))
  PROVE  FilledInv'
<1>1. PICK s : s = ProjectsPage!Step(ui)
  OBVIOUS
<1>2. SamePage(s) /\ SamePage(ui)
  BY <1>1, ProjectStepIsSame DEF FilledInv, FilledIn, SamePage
<1>3. CASE ProjectsPage!CloseDialog
  BY <1>2, <1>3, ClosedIsSame, SamePageIsOK DEF ProjectsPage!CloseDialog, FilledInv
<1>4. CASE ProjectsPage!FoldSideBar \/ ProjectsPage!Filter
  <2>1. SamePage([s EXCEPT !.slim = ~@]) /\ SamePage([s EXCEPT !.mine = ~@])
    BY <1>2 DEF SamePage, PlaceFields
  <2> QED BY <1>1, <1>4, <2>1, SamePageIsOK DEF ProjectsPage!FoldSideBar, ProjectsPage!Filter, FilledInv
<1>5. CASE ProjectsPage!RefuseInput
  <2>1. SamePage([s EXCEPT !.error = TRUE])
    BY <1>2 DEF SamePage, PlaceFields
  <2> QED BY <1>1, <1>5, <2>1, SamePageIsOK DEF ProjectsPage!RefuseInput, FilledInv
<1>6. CASE ProjectsPage!Refetch
  <2>1. PICK purpose : ui' = [ui EXCEPT !.rows = server.alive, !.noPurpose = purpose]
    BY <1>6 DEF ProjectsPage!Refetch
  <2>2. SamePage(ui')
    BY <1>2, <2>1 DEF SamePage, PlaceFields
  <2> QED BY <1>6, <2>2, SamePageIsOK DEF ProjectsPage!Refetch, FilledInv
<1>7. ASSUME NEW section, ProjectsPage!Navigate(section) \/ ProjectsPage!FollowShortcut(section)
      PROVE  FilledInv'
  <2>1. SamePage([s EXCEPT !.section = section])
    BY <1>2 DEF SamePage, PlaceFields
  <2> QED BY <1>1, <1>7, <2>1, SamePageIsOK DEF ProjectsPage!Navigate, ProjectsPage!FollowShortcut, FilledInv
<1> QED BY <1>3, <1>4, <1>5, <1>6, <1>7

\* A request is about the project that is shown, or the row the dialog was opened on.
LEMMA SendProject ==
  ASSUME FilledInv, NEW c \in Slots, NEW op, NEW for, NEW from, ProjectsPage!Send(c, op, for, from),
         op \in {"save", "budget"} => from = for, FilledIn(ui')
  PROVE  FilledInv'
<1>1. PICK k : k = [ProjectsPage!NoCall EXCEPT !.op = op, !.st = "sent", !.for = for, !.from = from, !.live = TRUE]
  OBVIOUS
<1>2. SavesItsOwn(k)
  BY <1>1 DEF SavesItsOwn, ProjectsPage!NoCall, ProjectsPage!None
<1>3. calls' = [calls EXCEPT ![c] = k]
  BY <1>1 DEF ProjectsPage!Send
<1> QED BY <1>2, <1>3 DEF FilledInv

LEMMA ProjectCallSteps ==
  ASSUME FilledInv, NEW c \in Slots,
         \/ ProjectsPage!SubmitCreate(c) \/ ProjectsPage!SubmitEdit(c) \/ ProjectsPage!ConfirmDelete(c)
         \/ ProjectsPage!SaveBudget(c) \/ ProjectsPage!LoadUsage(c)
  PROVE  FilledInv'
<1>1. PICK s : s = ProjectsPage!Step(ui)
  OBVIOUS
<1>2. FilledIn(ui) /\ SamePage(s) /\ SamePage(ui)
  BY <1>1, ProjectStepIsSame DEF FilledInv, FilledIn, SamePage
<1>3. CASE ProjectsPage!SubmitCreate(c)
  <2>1. SamePage([ui EXCEPT !.creating = TRUE, !.error = FALSE])
    BY <1>2 DEF SamePage, PlaceFields
  <2> QED BY <1>2, <1>3, <2>1, SamePageIsOK, SendProject DEF ProjectsPage!SubmitCreate
<1>4. CASE ProjectsPage!SubmitEdit(c)
  <2>1. SamePage([ui EXCEPT !.saving = TRUE, !.error = FALSE])
    BY <1>2 DEF SamePage, PlaceFields
  <2>2. FilledIn(ui')
    BY <1>2, <1>4, <2>1, SamePageIsOK DEF ProjectsPage!SubmitEdit
  <2>3. ui.fields = IF ui.page = "detail" THEN ui.id ELSE ui.target
    BY <1>2, <1>4, ProjectsAssumption DEF ProjectsPage!SubmitEdit, FilledIn
  <2> QED BY <1>4, <2>2, <2>3, SendProject DEF ProjectsPage!SubmitEdit
<1>5. CASE ProjectsPage!ConfirmDelete(c)
  <2>1. PICK u : u = ProjectsPage!Closed(ui)
    OBVIOUS
  <2>2. PICK removing \in BOOLEAN : removing = (ui.page = "detail")
    OBVIOUS
  <2>3. ui' = [u EXCEPT !.removing = removing]
    BY <1>5, <2>1, <2>2 DEF ProjectsPage!ConfirmDelete
  <2>4. SamePage(u)
    BY <1>2, <2>1, ClosedIsSame
  <2>5. FilledIn(ui')
    BY <1>2, <2>3, <2>4, FieldOfPage, SamePageIsOK
  <2> QED BY <1>5, <2>5, SendProject DEF ProjectsPage!ConfirmDelete
<1>6. CASE ProjectsPage!SaveBudget(c)
  <2>1. SamePage([s EXCEPT !.budgeting = TRUE])
    BY <1>2 DEF SamePage, PlaceFields
  <2>2. FilledIn(ui')
    BY <1>1, <1>2, <1>6, <2>1, SamePageIsOK DEF ProjectsPage!SaveBudget
  <2>3. ui.page = "detail" /\ ui.shown # "none"
    BY <1>6 DEF ProjectsPage!SaveBudget, ProjectsPage!DetailOffers, ProjectsPage!None
  <2>4. ui.budget = ui.id
    BY <1>2, <2>3 DEF FilledIn
  <2> QED BY <1>6, <2>2, <2>4, SendProject DEF ProjectsPage!SaveBudget
<1>7. CASE ProjectsPage!LoadUsage(c)
  BY <1>1, <1>2, <1>7, SamePageIsOK, SendProject DEF ProjectsPage!LoadUsage
<1> QED BY <1>3, <1>4, <1>5, <1>6, <1>7

LEMMA SucceededIsOK ==
  ASSUME FilledIn(ui), NEW k, SavesItsOwn(k), k.ans = "ok"
  PROVE  FilledIn(ProjectsPage!Succeeded(k))
<1>1. PICK v : v = ProjectsPage!Succeeded(k)
  OBVIOUS
<1>2. SamePage(ui) /\ PlaceFields(ui)
  BY DEF FilledIn, SamePage
<1>3. CASE k.op = "create"
  BY <1>1, <1>2, <1>3, LeftIsOK DEF ProjectsPage!Succeeded, SavesItsOwn
<1>4. CASE k.op = "save"
  <2>1. PICK u : u = IF ui.dialog = "edit" THEN ProjectsPage!Closed(ui) ELSE ui
    OBVIOUS
  <2>2. SamePage(u)
    BY <1>2, <2>1, ClosedIsSame
  <2>3. v = [u EXCEPT !.saving = FALSE]
    BY <1>1, <1>4, <2>1 DEF ProjectsPage!Succeeded
  <2> QED BY <1>1, <2>2, <2>3, FieldOfPage, SamePageIsOK
<1>5. CASE k.op = "delete"
  <2>1. PICK u : u = IF ui.page = "detail" THEN ProjectsPage!ToList(ui) ELSE ui
    OBVIOUS
  <2>2. FilledIn(u)
    BY <1>2, <2>1, LeftIsOK DEF FilledIn
  <2>3. PICK current : current = IF u.current = k.for THEN ProjectsPage!None ELSE u.current
    OBVIOUS
  <2>4. v = [u EXCEPT !.current = IF @ = k.for THEN ProjectsPage!None ELSE @]
    BY <1>1, <1>5, <2>1 DEF ProjectsPage!Succeeded
  <2>5. FilledIn(v)
    BY <2>2, <2>4 DEF FilledIn, PlaceFields
  <2> QED BY <1>1, <2>5
<1>6. CASE k.op = "budget"
  <2>1. v = [ui EXCEPT !.budgeting = FALSE]
    BY <1>1, <1>6 DEF ProjectsPage!Succeeded
  <2> QED BY <1>1, <1>2, <2>1, FieldOfPage, SamePageIsOK
<1>7. CASE k.op \notin {"create", "save", "delete", "budget"}
  <2>1. v = [ui EXCEPT !.usage = k.for]
    BY <1>1, <1>7 DEF ProjectsPage!Succeeded
  <2> QED BY <1>1, <1>2, <2>1, FieldOfPage, SamePageIsOK
<1> QED BY <1>3, <1>4, <1>5, <1>6, <1>7

LEMMA FailedIsOK ==
  ASSUME FilledIn(ui), NEW k
  PROVE  FilledIn(ProjectsPage!Failed(k))
<1>1. SamePage(ui)
  BY DEF FilledIn, SamePage
<1>2. PICK error : error = (ui.dialog \in {"create", "edit"})
  OBVIOUS
<1>3. PICK v : v = ProjectsPage!Failed(k)
  OBVIOUS
<1>4. \/ v = [ui EXCEPT !.creating = FALSE, !.error = error] \/ v = [ui EXCEPT !.saving = FALSE, !.error = error]
      \/ v = [ui EXCEPT !.removing = FALSE] \/ v = [ui EXCEPT !.budgeting = FALSE] \/ v = ui
  BY <1>2, <1>3 DEF ProjectsPage!Failed
<1>5. SamePage(v)
  BY <1>1, <1>4 DEF SamePage, PlaceFields
<1> QED BY <1>3, <1>5, SamePageIsOK

LEMMA ProjectReturnsStep ==
  ASSUME FilledInv, NEW c \in Slots, ProjectsPage!Returns(c)
  PROVE  FilledInv'
<1>1. FilledIn(ui')
  BY SucceededIsOK, FailedIsOK DEF ProjectsPage!Returns, FilledInv
<1>2. PICK rest : rest = [calls EXCEPT ![c] = ProjectsPage!NoCall]
  OBVIOUS
<1>3. DOMAIN rest = Slots /\ \A d \in Slots : SavesItsOwn(rest[d])
  BY <1>2 DEF FilledInv, SavesItsOwn, ProjectsPage!NoCall, ProjectsPage!None
<1>4. calls' = rest \/ calls' = ProjectsPage!Deaf(rest)
  BY <1>2 DEF ProjectsPage!Returns
<1> QED BY <1>1, <1>3, <1>4, DeafIsOK DEF FilledInv

LEMMA ProjectServeStep ==
  ASSUME FilledInv, NEW c \in Slots, ProjectsPage!Serve(c)
  PROVE  FilledInv'
<1>1. UNCHANGED ui /\ c \in DOMAIN calls /\ SavesItsOwn(calls[c])
  BY DEF ProjectsPage!Serve, FilledInv
<1>2. PICK k : calls' = [calls EXCEPT ![c] = k] /\ SavesItsOwn(k)
  <2>1. CASE calls' = [calls EXCEPT ![c].st = "answered", ![c].ans = "failed"]
    <3>1. PICK k : k = [calls[c] EXCEPT !.st = "answered", !.ans = "failed"]
      OBVIOUS
    <3>2. calls' = [calls EXCEPT ![c] = k]
      BY <1>1, <2>1, <3>1
    <3>3. SavesItsOwn(k)
      BY <1>1, <3>1 DEF SavesItsOwn
    <3> QED BY <3>2, <3>3
  <2>2. ASSUME NEW made, calls[c].op = "create" => made \in PageProjects,
               calls' = [calls EXCEPT ![c].st = "answered", ![c].ans = "ok", ![c].made = made]
        PROVE  \E k : calls' = [calls EXCEPT ![c] = k] /\ SavesItsOwn(k)
    <3>1. PICK k : k = [calls[c] EXCEPT !.st = "answered", !.ans = "ok", !.made = made]
      OBVIOUS
    <3>2. calls' = [calls EXCEPT ![c] = k]
      BY <1>1, <2>2, <3>1
    <3>3. SavesItsOwn(k)
      BY <1>1, <2>2, <3>1 DEF SavesItsOwn
    <3> QED BY <3>2, <3>3
  <2> QED BY <2>1, <2>2 DEF ProjectsPage!Serve
<1> QED BY <1>1, <1>2 DEF FilledInv

LEMMA FilledStart == ProjectsPage!Init => FilledInv
<1> SUFFICES ASSUME ProjectsPage!Init PROVE FilledInv
  OBVIOUS
<1>1. FilledIn(ui)
  BY DEF ProjectsPage!Init, ProjectsPage!None, FilledIn, PlaceFields
<1>2. SavesItsOwn(ProjectsPage!NoCall)
  BY DEF SavesItsOwn, ProjectsPage!NoCall, ProjectsPage!None
<1> QED BY <1>1, <1>2 DEF ProjectsPage!Init, FilledInv

LEMMA FilledStep ==
  FilledInv /\ [ProjectsPage!Next]_(ProjectsPage!vars) => FilledInv'
<1> SUFFICES ASSUME FilledInv, [ProjectsPage!Next]_(ProjectsPage!vars) PROVE FilledInv'
  OBVIOUS
<1>1. CASE UNCHANGED ProjectsPage!vars
  BY <1>1 DEF ProjectsPage!vars, FilledInv
<1>2. CASE ProjectsPage!BackToList \/ (\E p \in PageProjects : ProjectsPage!OpenProject(p) \/ ProjectsPage!Jump(p))
  BY <1>2, PageSteps
<1>3. CASE ProjectsPage!ShowProject
  BY <1>3, ShowStep
<1>4. CASE \/ ProjectsPage!FoldSideBar \/ ProjectsPage!Filter \/ ProjectsPage!CloseDialog
           \/ ProjectsPage!RefuseInput \/ ProjectsPage!Refetch
           \/ (\E section : ProjectsPage!Navigate(section) \/ ProjectsPage!FollowShortcut(section))
  BY <1>4, StillSteps
<1>5. CASE \E d \in {"create", "edit", "delete"}, p \in PageProjects \cup {ProjectsPage!None} : ProjectsPage!OpenDialog(d, p)
  BY <1>5, OpenDialogStep
<1>6. ASSUME NEW c \in Slots,
             \/ ProjectsPage!SubmitCreate(c) \/ ProjectsPage!SubmitEdit(c) \/ ProjectsPage!ConfirmDelete(c)
             \/ ProjectsPage!SaveBudget(c) \/ ProjectsPage!LoadUsage(c)
             \/ ProjectsPage!Returns(c) \/ ProjectsPage!Serve(c)
      PROVE  FilledInv'
  BY <1>6, ProjectCallSteps, ProjectReturnsStep, ProjectServeStep
<1> QED BY <1>1, <1>2, <1>3, <1>4, <1>5, <1>6 DEF ProjectsPage!Next

----------------------------------------------------------------------------
(* The accounts: the role in the form that configures one                  *)

RoleFields(u) == {"action", "user", "roleOf"} \subseteq DOMAIN u

\* The role in the form was read for the account that is configured.
RoleOK(u) == RoleFields(u) /\ u.roleOf = IF u.action = "configure" THEN u.user ELSE "none"

\* The same dialog about the same account.
SameForm(u) == RoleFields(u) /\ u.action = ui.action /\ u.user = ui.user /\ u.roleOf = ui.roleOf

LEMMA SameFormIsOK ==
  ASSUME RoleOK(ui), NEW v, SameForm(v)
  PROVE  RoleOK(v)
BY DEF RoleOK, SameForm

LEMMA OtherFields ==
  ASSUME NEW u, SameForm(u), NEW f, f \notin {"action", "user", "roleOf"}, NEW x
  PROVE  SameForm([u EXCEPT ![f] = x])
BY DEF SameForm, RoleFields

LEMMA RoleStepIsSame ==
  ASSUME NEW u, SameForm(u)
  PROVE  SameForm(Users!Step(u))
BY DEF SameForm, RoleFields, Users!Step

\* Whatever the dialogs become, the effect that fills the form names their account.
LEMMA EffectsFill ==
  ASSUME RoleOK(ui), NEW v, RoleFields(v), v.roleOf = ui.roleOf
  PROVE  RoleOK(Users!Effects(v))
<1>0. PICK role, roleOf, password :
        /\ role = IF Users!ConfigOf(v) # Users!ConfigOf(ui) THEN Users!ConfigOf(v)[2] ELSE v.role
        /\ roleOf = IF Users!ConfigOf(v) # Users!ConfigOf(ui) THEN Users!ConfigOf(v)[1] ELSE v.roleOf
        /\ password = IF Users!UserIn(v, "reset") # Users!UserIn(ui, "reset") THEN Users!None ELSE v.password
  OBVIOUS
<1>1. PICK project, resetting :
        Users!Effects(v) = [v EXCEPT !.role = role, !.roleOf = roleOf, !.project = project,
                                     !.password = password, !.resetting = resetting]
  BY <1>0 DEF Users!Effects
<1>2. /\ Users!ConfigOf(v)[1] = IF v.action = "configure" THEN v.user ELSE "none"
      /\ Users!ConfigOf(ui)[1] = IF ui.action = "configure" THEN ui.user ELSE "none"
  BY DEF Users!ConfigOf, Users!None
<1>3. roleOf = Users!ConfigOf(v)[1]
  BY <1>0, <1>2 DEF RoleOK
<1>4. PICK w : w = [v EXCEPT !.role = role, !.roleOf = roleOf, !.project = project,
                             !.password = password, !.resetting = resetting]
  OBVIOUS
<1>5. RoleOK(w)
  BY <1>2, <1>3, <1>4 DEF RoleOK, RoleFields
<1> QED BY <1>1, <1>4, <1>5

LEMMA DialogSteps ==
  ASSUME RoleOK(ui), \/ Users!Close \/ Users!OpenAdd \/ Users!ListReturns
                     \/ (\E kind \in Users!Kinds, u \in UsersPeople : Users!Open(kind, u))
  PROVE  RoleOK(ui')
<1>1. PICK s : s = Users!Step(ui)
  OBVIOUS
<1>2. SameForm(s) /\ SameForm(ui) /\ RoleFields(ui)
  BY <1>1, RoleStepIsSame DEF SameForm, RoleOK
<1>3. CASE Users!Close
  <2>1. PICK v : v = Users!Closed(s)
    OBVIOUS
  <2>2. RoleFields(v) /\ v.roleOf = ui.roleOf
    BY <1>2, <2>1 DEF Users!Closed, SameForm, RoleFields
  <2> QED BY <1>1, <1>3, <2>1, <2>2, EffectsFill DEF Users!Close
<1>4. CASE Users!OpenAdd
  <2>1. PICK v : v = [s EXCEPT !.action = "add", !.taken = Users!Target(ui)]
    OBVIOUS
  <2>2. RoleFields(v) /\ v.roleOf = ui.roleOf
    BY <1>2, <2>1 DEF SameForm, RoleFields
  <2> QED BY <1>1, <1>4, <2>1, <2>2, EffectsFill DEF Users!OpenAdd
<1>5. CASE Users!ListReturns
  <2>1. PICK rows : rows = {u \in UsersPeople : calls[Users!List].data.users[u].status # "deleted"}
    OBVIOUS
  <2>2. PICK v : v = [ui EXCEPT !.users = calls[Users!List].data.users, !.joined = calls[Users!List].data.joined,
                                !.rows = rows]
    OBVIOUS
  <2>3. RoleFields(v) /\ v.roleOf = ui.roleOf
    BY <1>2, <2>2 DEF RoleFields
  <2>4. ui' = Users!Effects(v)
    BY <1>5, <2>1, <2>2 DEF Users!ListReturns
  <2> QED BY <2>3, <2>4, EffectsFill
<1>6. ASSUME NEW kind \in Users!Kinds, NEW u \in UsersPeople, Users!Open(kind, u)
      PROVE  RoleOK(ui')
  <2>1. PICK v : v = [s EXCEPT !.action = kind, !.user = u, !.taken = ui.users[u]]
    OBVIOUS
  <2>2. RoleFields(v) /\ v.roleOf = ui.roleOf
    BY <1>2, <2>1 DEF SameForm, RoleFields
  <2> QED BY <1>1, <1>6, <2>1, <2>2, EffectsFill DEF Users!Open
<1> QED BY <1>3, <1>4, <1>5, <1>6

LEMMA FieldSteps ==
  ASSUME RoleOK(ui), \/ Users!OpenBatch \/ Users!Refresh \/ Users!ChooseProject
                     \/ (\E f : Users!SetFilter(f)) \/ (\E role : Users!ChooseRole(role))
  PROVE  RoleOK(ui')
<1>1. PICK s : s = Users!Step(ui)
  OBVIOUS
<1>2. SameForm(s)
  BY <1>1, RoleStepIsSame DEF SameForm, RoleOK
<1>3. CASE Users!OpenBatch \/ Users!ChooseProject
  <2>1. PICK f \in {"batch", "project"} : ui' = [s EXCEPT ![f] = ~@]
    BY <1>1, <1>3 DEF Users!OpenBatch, Users!ChooseProject
  <2>2. SameForm(ui')
    BY <1>2, <2>1 DEF SameForm, RoleFields
  <2> QED BY <2>2, SameFormIsOK
<1>4. CASE Users!Refresh
  BY <1>1, <1>2, <1>4, SameFormIsOK DEF Users!Refresh
<1>5. ASSUME NEW x, Users!SetFilter(x) \/ Users!ChooseRole(x)
      PROVE  RoleOK(ui')
  <2>1. PICK f \in {"filter", "role"} : ui' = [s EXCEPT ![f] = x]
    BY <1>1, <1>5 DEF Users!SetFilter, Users!ChooseRole
  <2> QED BY <1>2, <2>1, OtherFields, SameFormIsOK
<1> QED BY <1>3, <1>4, <1>5

LEMMA RequestKeeps ==
  ASSUME RoleOK(ui), NEW c, NEW k, NEW u, SameForm(u), Users!Request(c, k, u)
  PROVE  RoleOK(ui')
BY RoleStepIsSame, SameFormIsOK DEF Users!Request

LEMMA UserCallSteps ==
  ASSUME RoleOK(ui), NEW c,
         \/ Users!Save(c) \/ Users!ToggleStatus(c) \/ Users!ConfirmSuspend(c) \/ Users!ConfirmDelete(c)
         \/ Users!Generate(c) \/ Users!SubmitAdd(c)
  PROVE  RoleOK(ui')
<1>1. /\ SameForm([ui EXCEPT !.saving = TRUE]) /\ SameForm([ui EXCEPT !.toggling = TRUE])
      /\ SameForm([ui EXCEPT !.suspending = TRUE]) /\ SameForm([ui EXCEPT !.deleting = TRUE])
      /\ SameForm([ui EXCEPT !.resetting = TRUE]) /\ SameForm([ui EXCEPT !.adding = TRUE])
  BY DEF SameForm, RoleOK, RoleFields
<1> QED
  BY <1>1, RequestKeeps DEF Users!Save, Users!ToggleStatus, Users!ConfirmSuspend, Users!ConfirmDelete, Users!Generate,
     Users!SubmitAdd

LEMMA UserReturnsStep ==
  ASSUME RoleOK(ui), NEW c, Users!Returns(c)
  PROVE  RoleOK(ui')
<1> DEFINE k == calls[c]
<1>1. SameForm(ui)
  BY DEF SameForm, RoleOK
<1>2. PICK v : v = CASE k.op = "patch" -> [ui EXCEPT !.saving = FALSE]
             [] k.op = "reset" -> [ui EXCEPT !.resetting = FALSE, !.password = IF k.st = "ok" THEN k.who ELSE @]
             [] k.op = "delete" -> [ui EXCEPT !.deleting = FALSE]
             [] k.op = "add" -> [ui EXCEPT !.adding = FALSE]
             [] k.arg = "configure" -> [ui EXCEPT !.toggling = FALSE]
             [] OTHER -> [ui EXCEPT !.suspending = FALSE]
  OBVIOUS
<1>3. SameForm(v)
  BY <1>1, <1>2 DEF SameForm, RoleFields
<1>4. ui' = v \/ ui' = Users!Effects(Users!Closed(v))
  BY <1>2 DEF Users!Returns, Users!Finished
<1>5. CASE ui' = Users!Effects(Users!Closed(v))
  <2>1. PICK w : w = Users!Closed(v)
    OBVIOUS
  <2>2. RoleFields(w) /\ w.roleOf = ui.roleOf
    BY <1>3, <2>1 DEF Users!Closed, SameForm, RoleFields
  <2> QED BY <1>5, <2>1, <2>2, EffectsFill
<1> QED BY <1>3, <1>4, <1>5, SameFormIsOK

LEMMA RoleStart == Users!Init => RoleOK(ui)
BY DEF Users!Init, Users!None, RoleOK, RoleFields

LEMMA RoleStep ==
  RoleOK(ui) /\ [Users!Next]_(Users!vars) => RoleOK(ui')
<1> SUFFICES ASSUME RoleOK(ui), [Users!Next]_(Users!vars) PROVE RoleOK(ui')
  OBVIOUS
<1>1. CASE UNCHANGED ui
  BY <1>1
<1>2. CASE UNCHANGED Users!vars
  BY <1>1, <1>2 DEF Users!vars
<1>3. CASE \/ Users!Close \/ Users!OpenAdd \/ Users!ListReturns
           \/ (\E kind \in Users!Kinds, u \in UsersPeople : Users!Open(kind, u))
  BY <1>3, DialogSteps
<1>4. CASE \/ Users!OpenBatch \/ Users!Refresh \/ Users!ChooseProject
           \/ (\E f : Users!SetFilter(f)) \/ (\E role : Users!ChooseRole(role))
  BY <1>4, FieldSteps
<1>5. CASE Users!ServeList \/ (\E u \in UsersPeople : Users!HandOver(u))
  BY <1>1, <1>5 DEF Users!ServeList, Users!HandOver
<1>6. ASSUME NEW c \in Slots,
             \/ Users!Save(c) \/ Users!ToggleStatus(c) \/ Users!ConfirmSuspend(c) \/ Users!ConfirmDelete(c)
             \/ Users!Generate(c) \/ Users!SubmitAdd(c) \/ Users!Returns(c)
      PROVE  RoleOK(ui')
  BY <1>6, UserCallSteps, UserReturnsStep
<1>7. ASSUME NEW c \in Slots, Users!ServeRead(c) \/ Users!ServeWrite(c)
      PROVE  RoleOK(ui')
  BY <1>1, <1>7 DEF Users!ServeRead, Users!ServeWrite
<1> QED BY <1>2, <1>3, <1>4, <1>5, <1>6, <1>7 DEF Users!Next

----------------------------------------------------------------------------
(* The settings: the reason a destruction is refused with                  *)

ReasonFields(u) == {"confirm", "kind", "reason"} \subseteq DOMAIN u

\* A reason that stands belongs to the confirmation that is open, which refuses;
\* only the page of destructions has one.
ReasonOK(u) ==
  /\ ReasonFields(u)
  /\ u.reason # "none" => u.reason = u.confirm /\ u.kind = "reject"
  /\ u.kind = "reject" => cast.page = "dangerous"

ReasonCall(k) ==
  /\ {"op", "row", "arg", "st", "after", "data"} \subseteq DOMAIN k
  /\ k.op = "reject" => \E reason \in {"none", k.row} : k.arg = {reason}
  /\ k.op = "remove" => cast.page # "dangerous"

ReasonsKept(s) ==
  /\ "reasons" \in DOMAIN s /\ DOMAIN s.reasons = SettingsRows
  /\ \A r \in SettingsRows : s.reasons[r] \in {"none", r}

ReasonInv ==
  /\ cast.page \in {"registries", "domains", "keys", "dangerous"}
  /\ ReasonsKept(server) /\ ReasonOK(ui)
  /\ DOMAIN calls = Slots /\ \A c \in Slots : ReasonCall(calls[c])

SameReason(u) == ReasonFields(u) /\ u.confirm = ui.confirm /\ u.kind = ui.kind /\ u.reason = ui.reason

LEMMA SameReasonIsOK ==
  ASSUME ReasonOK(ui), NEW u, SameReason(u)
  PROVE  ReasonOK(u)
BY DEF ReasonOK, SameReason

LEMMA FieldOfSettings ==
  ASSUME NEW u, SameReason(u), NEW f, f \notin {"confirm", "kind", "reason"}, NEW x
  PROVE  SameReason([u EXCEPT ![f] = x])
BY DEF SameReason, ReasonFields

LEMMA SettingsStepIsSame ==
  ASSUME ReasonOK(ui), NEW s, s = Settings!Step(ui)
  PROVE  SameReason(s)
BY DEF ReasonOK, SameReason, ReasonFields, Settings!Step

\* Closing a confirmation forgets its reason.
LEMMA ClosedForgets ==
  ASSUME NEW u, ReasonFields(u)
  PROVE  ReasonOK(Settings!Closed(u))
BY DEF ReasonOK, ReasonFields, Settings!Closed, Settings!None

\* A step that touches one call at most, and not what is kept.
LEMMA ReasonStep ==
  ASSUME ReasonInv, ReasonOK(ui)', UNCHANGED <<server, cast>>,
         \/ UNCHANGED calls
         \/ \E c \in Slots : \E k : calls' = [calls EXCEPT ![c] = k] /\ ReasonCall(k)
  PROVE  ReasonInv'
BY DEF ReasonInv, ReasonCall

LEMMA SameReasonStep ==
  ASSUME ReasonInv, SameReason(ui'), UNCHANGED <<server, cast>>,
         \/ UNCHANGED calls
         \/ \E c \in Slots : \E k : calls' = [calls EXCEPT ![c] = k] /\ ReasonCall(k)
  PROVE  ReasonInv'
<1>1. ReasonOK(ui')
  BY SameReasonIsOK DEF ReasonInv
<1>2. ReasonOK(ui)'
  BY <1>1 DEF ReasonOK
<1> QED BY <1>2, ReasonStep

LEMMA OtherCallsAreOK ==
  /\ Settings!None = "none"
  /\ ReasonCall(Settings!NoCall)
  /\ \A after : ReasonCall(Settings!Reload(after))
  /\ \A op, row, arg : op \notin {"reject", "remove"} => ReasonCall(Settings!Call(op, row, arg))
BY DEF ReasonCall, Settings!NoCall, Settings!None, Settings!Reload, Settings!Call

\* The dialog that adds a row, the refresh and the copied key.
LEMMA AsideOfReason ==
  ASSUME ReasonInv,
         \/ Settings!OpenDialog \/ Settings!TypeKey \/ Settings!SwitchInject \/ Settings!TypeSuffix \/ Settings!CopyFades
         \/ (\E cancel \in BOOLEAN : Settings!CloseDialog(cancel))
         \/ (\E f : Settings!TypeRegistry(f)) \/ (\E f : Settings!SwitchDomain(f))
         \/ (\E r : Settings!CopyKey(r))
  PROVE  ReasonInv'
<1>1. PICK s : s = Settings!Step(ui)
  OBVIOUS
<1>2. SameReason(s) /\ SameReason(ui) /\ ReasonOK(ui)
  BY <1>1, SettingsStepIsSame DEF ReasonInv, ReasonOK, SameReason
<1>3. UNCHANGED <<server, calls, cast>>
  BY DEF Settings!OpenDialog, Settings!TypeKey, Settings!SwitchInject, Settings!TypeSuffix, Settings!CopyFades,
         Settings!CloseDialog, Settings!TypeRegistry, Settings!SwitchDomain, Settings!CopyKey, Settings!Type,
         Settings!Switch
<1>4. SameReason(ui')
  <2> USE DEF SameReason, ReasonFields
  <2>1. CASE Settings!OpenDialog
    BY <1>1, <1>2, <2>1 DEF Settings!OpenDialog
  <2>2. CASE Settings!CopyFades
    BY <1>2, <2>2 DEF Settings!CopyFades
  <2>3. ASSUME NEW r, Settings!CopyKey(r)
        PROVE  SameReason(ui')
    BY <1>1, <1>2, <2>3 DEF Settings!CopyKey
  <2>4. ASSUME NEW cancel \in BOOLEAN, Settings!CloseDialog(cancel)
        PROVE  SameReason(ui')
    BY <1>1, <1>2, <2>4 DEF Settings!CloseDialog
  <2>5. ASSUME NEW fields, Settings!Type(fields)
        PROVE  SameReason(ui')
    BY <1>1, <1>2, <2>5 DEF Settings!Type
  <2>6. ASSUME NEW f, Settings!Switch(f)
        PROVE  SameReason(ui')
    BY <1>1, <1>2, <2>6 DEF Settings!Switch
  <2>7. CASE Settings!TypeKey
    BY <2>5, <2>7 DEF Settings!TypeKey
  <2>8. CASE Settings!TypeSuffix
    BY <2>5, <2>8 DEF Settings!TypeSuffix
  <2>9. CASE Settings!SwitchInject
    BY <2>6, <2>9 DEF Settings!SwitchInject
  <2>10. ASSUME NEW f, Settings!TypeRegistry(f)
         PROVE  SameReason(ui')
    BY <2>5, <2>10 DEF Settings!TypeRegistry
  <2>11. ASSUME NEW f, Settings!SwitchDomain(f)
         PROVE  SameReason(ui')
    BY <2>6, <2>11 DEF Settings!SwitchDomain
  <2> QED BY <2>1, <2>2, <2>3, <2>4, <2>7, <2>8, <2>9, <2>10, <2>11
<1> QED BY <1>3, <1>4, SameReasonStep

LEMMA AskSteps ==
  ASSUME ReasonInv, NEW c \in Slots,
         \/ Settings!Refresh(c) \/ Settings!AddRegistry(c) \/ Settings!AddDomain(c) \/ Settings!AddKey(c)
         \/ (\E r : \/ Settings!ToggleInject(c, r) \/ Settings!ToggleEnabled(c, r)
                    \/ Settings!TestRegistry(c, r) \/ Settings!IssueCert(c, r))
  PROVE  ReasonInv'
<1>1. PICK s : s = Settings!Step(ui)
  OBVIOUS
<1>2. SameReason(s) /\ SameReason(ui) /\ ReasonOK(ui)
  BY <1>1, SettingsStepIsSame DEF ReasonInv, ReasonOK, SameReason
<1>3. CASE Settings!Refresh(c)
  <2>1. SameReason(ui')
    BY <1>1, <1>2, <1>3 DEF Settings!Refresh, SameReason, ReasonFields
  <2> QED BY <1>3, <2>1, OtherCallsAreOK, SameReasonStep DEF Settings!Refresh
<1>4. ASSUME NEW arg, Settings!Submit(c, arg)
      PROVE  ReasonInv'
  <2>1. SameReason(ui')
    BY <1>1, <1>2, <1>4 DEF Settings!Submit, SameReason, ReasonFields
  <2> QED BY <1>4, <2>1, OtherCallsAreOK, SameReasonStep DEF Settings!Submit
<1>5. ASSUME NEW op \in {"toggle", "test", "issue"}, NEW r, NEW arg, NEW u, SameReason(u), Settings!Ask(c, op, r, arg, u)
      PROVE  ReasonInv'
  <2>1. SameReason(ui')
    BY <1>5 DEF Settings!Ask, Settings!Step, SameReason, ReasonFields
  <2> QED BY <1>5, <2>1, OtherCallsAreOK, SameReasonStep DEF Settings!Ask
<1>6. CASE Settings!AddRegistry(c) \/ Settings!AddDomain(c) \/ Settings!AddKey(c)
  BY <1>4, <1>6 DEF Settings!AddRegistry, Settings!AddDomain, Settings!AddKey
<1>7. ASSUME NEW r, Settings!ToggleInject(c, r) \/ Settings!ToggleEnabled(c, r)
      PROVE  ReasonInv'
  BY <1>2, <1>5, <1>7 DEF Settings!ToggleInject, Settings!ToggleEnabled
<1>8. ASSUME NEW r, Settings!TestRegistry(c, r) \/ Settings!IssueCert(c, r)
      PROVE  ReasonInv'
  <2>1. SameReason([ui EXCEPT !.busyRow = r])
    BY <1>2, FieldOfSettings
  <2> QED BY <1>5, <1>8, <2>1 DEF Settings!TestRegistry, Settings!IssueCert
<1> QED BY <1>3, <1>6, <1>7, <1>8

\* A confirmation that is opened finds no reason of an earlier one.
LEMMA OpenConfirmStep ==
  ASSUME ReasonInv, NEW r, NEW kind \in {"remove", "approve", "reject"}, Settings!OpenConfirm(kind, r)
  PROVE  ReasonInv'
<1>1. PICK s : s = Settings!Step(ui)
  OBVIOUS
<1>2. SameReason(s) /\ ReasonOK(ui)
  BY <1>1, SettingsStepIsSame DEF ReasonInv
<1>3. kind \in Settings!Offers(r) /\ UNCHANGED <<server, calls, cast>>
  BY DEF Settings!OpenConfirm
<1>4. ui.confirm = "none" /\ (kind = "reject" => cast.page = "dangerous")
  <2>1. ui.confirm = "none"
    BY <1>3, OtherCallsAreOK DEF Settings!Offers
  <2>2. ASSUME kind = "reject", cast.page # "dangerous"
        PROVE  FALSE
    <3>1. "reject" \notin Settings!CertOffers(r)
      BY DEF Settings!CertOffers
    <3>2. /\ "reject" \notin Settings!RegistryOffers(r)
          /\ "reject" \notin Settings!DomainOffers /\ "reject" \notin Settings!KeyOffers
      BY DEF Settings!RegistryOffers, Settings!DomainOffers, Settings!KeyOffers
    <3>3. "reject" \in Settings!Offers(r)
      BY <1>3, <2>2
    <3>4. CASE cast.page = "registries"
      BY <3>1, <3>2, <3>3, <3>4 DEF Settings!Offers, Settings!Is
    <3>5. CASE cast.page = "domains"
      BY <3>1, <3>2, <3>3, <3>5 DEF Settings!Offers, Settings!Is
    <3>6. CASE cast.page = "keys"
      BY <3>1, <3>2, <3>3, <3>6 DEF Settings!Offers, Settings!Is
    <3> QED BY <2>2, <3>4, <3>5, <3>6 DEF ReasonInv
  <2> QED BY <2>1, <2>2
<1>5. ui.reason = "none"
  <2>1. CASE ui.reason # "none"
    BY <1>2, <1>4, <2>1 DEF ReasonOK
  <2> QED BY <2>1
<1>6. ui' = [s EXCEPT !.confirm = r, !.kind = kind]
  BY <1>1 DEF Settings!OpenConfirm
<1>7. ReasonOK(ui)'
  BY <1>2, <1>3, <1>4, <1>5, <1>6 DEF ReasonOK, SameReason, ReasonFields
<1> QED BY <1>3, <1>7, ReasonStep

LEMMA ReasonSteps ==
  ASSUME ReasonInv, Settings!TypeReason \/ Settings!Dismiss
  PROVE  ReasonInv'
<1>1. PICK s : s = Settings!Step(ui)
  OBVIOUS
<1>2. SameReason(s) /\ ReasonOK(ui)
  BY <1>1, SettingsStepIsSame DEF ReasonInv
<1>3. UNCHANGED <<server, calls, cast>>
  BY DEF Settings!TypeReason, Settings!Dismiss
<1>4. CASE Settings!TypeReason
  <2>1. ui' = [s EXCEPT !.reason = ui.confirm] /\ ui.kind = "reject"
    BY <1>1, <1>4 DEF Settings!TypeReason
  <2>2. ReasonOK(ui)'
    BY <1>2, <1>3, <2>1 DEF ReasonOK, SameReason, ReasonFields
  <2> QED BY <1>3, <2>2, ReasonStep
<1>5. CASE Settings!Dismiss
  <2>1. ReasonOK(ui')
    BY <1>1, <1>2, <1>5, ClosedForgets DEF Settings!Dismiss, SameReason
  <2>2. ReasonOK(ui)'
    BY <1>3, <2>1 DEF ReasonOK
  <2> QED BY <1>3, <2>2, ReasonStep
<1> QED BY <1>4, <1>5

\* A decision is sent about the row that is confirmed, with the reason typed for it.
LEMMA ConfirmSteps ==
  ASSUME ReasonInv, NEW c \in Slots,
         \/ Settings!RemoveRegistry(c) \/ Settings!RemoveDomain(c) \/ Settings!RemoveKey(c)
         \/ Settings!Approve(c) \/ Settings!Reject(c)
  PROVE  ReasonInv'
<1>1. ReasonOK(ui)
  BY DEF ReasonInv
<1>2. ASSUME NEW kind, NEW arg, NEW u, SameReason(u), Settings!Confirm(c, kind, arg, u),
             ReasonCall(Settings!Call(kind, ui.confirm, arg))
      PROVE  ReasonInv'
  <2>1. PICK s : s = Settings!Step(u)
    OBVIOUS
  <2>2. ReasonFields(s)
    BY <1>2, <2>1 DEF Settings!Step, SameReason, ReasonFields
  <2>3. ReasonOK(ui') /\ UNCHANGED <<server, cast>>
    BY <1>2, <2>1, <2>2, ClosedForgets DEF Settings!Confirm
  <2>4. ReasonOK(ui)'
    BY <2>3 DEF ReasonOK
  <2> QED BY <1>2, <2>3, <2>4, ReasonStep DEF Settings!Confirm
<1>3. SameReason(ui) /\ \A row : SameReason([ui EXCEPT !.busyRow = row])
  <2>1. SameReason(ui)
    BY <1>1 DEF ReasonOK, SameReason
  <2> QED BY <2>1, FieldOfSettings
<1>4. CASE Settings!RemoveRegistry(c) \/ Settings!RemoveDomain(c) \/ Settings!RemoveKey(c)
  <2>1. cast.page # "dangerous"
    BY <1>4 DEF Settings!RemoveRegistry, Settings!RemoveDomain, Settings!RemoveKey, Settings!Is
  <2>2. ReasonCall(Settings!Call("remove", ui.confirm, {}))
    BY <2>1 DEF ReasonCall, Settings!Call, Settings!NoCall
  <2> QED BY <1>2, <1>3, <1>4, <2>2 DEF Settings!RemoveRegistry, Settings!RemoveDomain, Settings!RemoveKey
<1>5. CASE Settings!Approve(c)
  BY <1>2, <1>3, <1>5, OtherCallsAreOK DEF Settings!Approve
<1>6. CASE Settings!Reject(c)
  <2>1. ui.reason \in {"none", ui.confirm}
    BY <1>1 DEF ReasonOK
  <2>2. ReasonCall(Settings!Call("reject", ui.confirm, {ui.reason}))
    BY <2>1 DEF ReasonCall, Settings!Call, Settings!NoCall
  <2> QED BY <1>2, <1>3, <1>6, <2>2 DEF Settings!Reject
<1> QED BY <1>4, <1>5, <1>6

LEMMA SettingsReturns ==
  ASSUME ReasonInv, NEW c \in Slots, Settings!ListReturns(c) \/ Settings!Returns(c)
  PROVE  ReasonInv'
<1>1. ReasonOK(ui) /\ SameReason(ui)
  BY DEF ReasonInv, ReasonOK, SameReason
<1>2. UNCHANGED <<server, cast>>
  BY DEF Settings!ListReturns, Settings!Returns
<1>3. ASSUME NEW u, ReasonOK(u), NEW op
      PROVE  ReasonOK(Settings!Cleared(u, op))
  <2>1. PICK v : v = Settings!Cleared(u, op)
    OBVIOUS
  <2>2. ReasonFields(v) /\ v.confirm = u.confirm /\ v.kind = u.kind /\ v.reason = u.reason
    BY <1>3, <2>1 DEF Settings!Cleared, ReasonOK, ReasonFields
  <2> QED BY <1>3, <2>1, <2>2 DEF ReasonOK
<1>4. CASE Settings!ListReturns(c)
  <2>1. PICK v : v = [ui EXCEPT !.loading = FALSE]
    OBVIOUS
  <2>2. ReasonOK(v)
    BY <1>1, <2>1, FieldOfSettings, SameReasonIsOK
  <2>3. PICK u : u = Settings!Cleared(v, calls[c].after)
    OBVIOUS
  <2>4. ReasonOK(u)
    BY <1>3, <2>2, <2>3
  <2>5. PICK rows : rows = IF Settings!Is("dangerous") THEN {} ELSE u.rows
    OBVIOUS
  <2>6. \/ ui' = [u EXCEPT !.rows = calls[c].data.rows, !.on = calls[c].data.on, !.certs = calls[c].data.certs]
        \/ ui' = [u EXCEPT !.rows = IF Settings!Is("dangerous") THEN {} ELSE @]
    BY <1>4, <2>1, <2>3 DEF Settings!ListReturns
  <2>7. ReasonFields(ui') /\ ui'.confirm = u.confirm /\ ui'.kind = u.kind /\ ui'.reason = u.reason
    BY <2>4, <2>6 DEF ReasonOK, ReasonFields
  <2>8. ReasonOK(ui)'
    BY <1>2, <2>4, <2>7 DEF ReasonOK
  <2> QED BY <1>2, <1>4, <2>8, OtherCallsAreOK, ReasonStep DEF Settings!ListReturns
<1>5. CASE Settings!Returns(c)
  <2>1. PICK u : u = IF calls[c].st = "ok" THEN Settings!Succeeded(ui, calls[c].op) ELSE ui
    OBVIOUS
  <2>2. ReasonOK(u)
    <3>1. CASE calls[c].st # "ok" \/ u = ui
      BY <1>1, <2>1, <3>1
    <3>2. CASE calls[c].st = "ok" /\ calls[c].op = "add"
      <4>1. SameReason(u)
        BY <1>1, <2>1, <3>2 DEF Settings!Succeeded, SameReason, ReasonFields
      <4> QED BY <1>1, <4>1, SameReasonIsOK
    <3>3. CASE calls[c].st = "ok" /\ calls[c].op \in {"approve", "reject"}
      <4>1. u = Settings!Closed(ui)
        BY <2>1, <3>3 DEF Settings!Succeeded
      <4> QED BY <1>1, <4>1, ClosedForgets DEF SameReason
    <3>4. CASE calls[c].st = "ok" /\ calls[c].op = "remove" /\ u # ui
      <4>1. u = [ui EXCEPT !.confirm = "none", !.kind = "none"]
        BY <2>1, <3>4, OtherCallsAreOK DEF Settings!Succeeded
      <4>2. cast.page # "dangerous"
        BY <3>4 DEF ReasonInv, ReasonCall
      <4> QED BY <1>1, <4>1, <4>2 DEF ReasonOK, ReasonFields
    <3>5. CASE calls[c].st = "ok" /\ calls[c].op \notin {"add", "approve", "reject", "remove"}
      BY <1>1, <2>1, <3>5 DEF Settings!Succeeded
    <3> QED BY <3>1, <3>2, <3>3, <3>4, <3>5
  <2>3. PICK loading \in BOOLEAN : loading = (u.loading \/ ~Settings!Is("keys"))
    OBVIOUS
  <2>4. \/ ui' = [u EXCEPT !.loading = @ \/ ~Settings!Is("keys")] \/ ui' = Settings!Cleared(u, calls[c].op)
    BY <1>5, <2>1 DEF Settings!Returns
  <2>5. ReasonOK(ui')
    <3>1. CASE ui' = [u EXCEPT !.loading = @ \/ ~Settings!Is("keys")]
      BY <2>2, <3>1 DEF ReasonOK, ReasonFields
    <3> QED BY <1>3, <2>2, <2>4, <3>1
  <2>6. ReasonOK(ui)'
    BY <1>2, <2>5 DEF ReasonOK
  <2>7. \E k : calls' = [calls EXCEPT ![c] = k] /\ ReasonCall(k)
    <3>1. \/ calls' = [calls EXCEPT ![c] = Settings!NoCall]
          \/ calls' = [calls EXCEPT ![c] = Settings!Reload(IF Settings!Is("keys") THEN Settings!None ELSE calls[c].op)]
      BY <1>5 DEF Settings!Returns
    <3> QED BY <3>1, OtherCallsAreOK
  <2> QED BY <1>2, <2>6, <2>7, ReasonStep
<1> QED BY <1>4, <1>5

\* Lost answers change no call's subject, and the server writes down what it is sent.
LEMMA LostSteps ==
  ASSUME ReasonInv, NEW c \in Slots, Settings!Lose(c) \/ Settings!LoseCerts(c)
  PROVE  ReasonInv'
<1>1. ReasonCall(calls[c]) /\ c \in DOMAIN calls /\ UNCHANGED <<server, ui, cast>>
  BY DEF ReasonInv, Settings!Lose, Settings!LoseCerts
<1>2. CASE Settings!Lose(c)
  <2>1. PICK k : k = [calls[c] EXCEPT !.st = "refused"]
    OBVIOUS
  <2>2. calls' = [calls EXCEPT ![c] = k]
    BY <1>2, <2>1 DEF Settings!Lose
  <2>3. ReasonCall(k)
    BY <1>1, <2>1 DEF ReasonCall
  <2> QED BY <1>1, <2>2, <2>3, ReasonStep DEF ReasonInv, ReasonOK
<1>3. CASE Settings!LoseCerts(c)
  <2>1. PICK data : data = [calls[c].data EXCEPT !.certs = {}]
    OBVIOUS
  <2>2. PICK k : k = [calls[c] EXCEPT !.data = data]
    OBVIOUS
  <2>3. calls' = [calls EXCEPT ![c] = k]
    BY <1>3, <2>1, <2>2 DEF Settings!LoseCerts
  <2>4. ReasonCall(k)
    BY <1>1, <2>2 DEF ReasonCall
  <2> QED BY <1>1, <2>3, <2>4, ReasonStep DEF ReasonInv, ReasonOK
<1> QED BY <1>2, <1>3

LEMMA SettingsServe ==
  ASSUME ReasonInv, NEW c \in Slots, Settings!Serve(c)
  PROVE  ReasonInv'
<1> DEFINE k == calls[c]
<1>1. ReasonCall(k) /\ c \in DOMAIN calls /\ UNCHANGED <<ui, cast>> /\ ReasonsKept(server)
  BY DEF ReasonInv, Settings!Serve
<1>2. server' = server \/ server' = Settings!Served(k)
  BY DEF Settings!Serve
<1>3. ReasonsKept(Settings!Served(k))
  <2>1. PICK s : s = Settings!Served(k)
    OBVIOUS
  <2>2. CASE k.op = "reject"
    <3>1. PICK reason \in {"none", k.row} : k.arg = {reason}
      BY <1>1, <2>2 DEF ReasonCall
    <3>2. (CHOOSE x \in k.arg : TRUE) = reason
      BY <3>1
    <3>3. PICK rows : rows = server.rows \ {k.row}
      OBVIOUS
    <3>4. s = [server EXCEPT !.rows = server.rows \ {k.row}, !.reasons[k.row] = CHOOSE x \in k.arg : TRUE]
      BY <2>1, <2>2 DEF Settings!Served
    <3>5. PICK reasons : reasons = [server.reasons EXCEPT ![k.row] = reason]
      OBVIOUS
    <3>6. s = [server EXCEPT !.rows = rows, !.reasons = reasons]
      BY <3>2, <3>3, <3>4, <3>5
    <3>7. DOMAIN reasons = SettingsRows /\ \A r \in SettingsRows : reasons[r] \in {"none", r}
      BY <1>1, <3>5 DEF ReasonsKept
    <3> QED BY <1>1, <2>1, <3>6, <3>7 DEF ReasonsKept
  <2>3. CASE k.op # "reject"
    <3>1. "reasons" \in DOMAIN s /\ s.reasons = server.reasons
      BY <1>1, <2>1, <2>3 DEF Settings!Served, ReasonsKept
    <3> QED BY <1>1, <2>1, <3>1 DEF ReasonsKept
  <2> QED BY <2>2, <2>3
<1>4. PICK st, data : calls' = [calls EXCEPT ![c] = [k EXCEPT !.st = st, !.data = data]]
  <2>1. PICK list : list = [rows |-> server.rows, on |-> server.on, certs |-> server.certs]
    OBVIOUS
  <2>2. PICK data : data = IF k.op = "list" THEN list ELSE k.data
    OBVIOUS
  <2>3. PICK st : st = IF (IF k.op = "issue" THEN k.row \in server.certs
                           ELSE k.op \in {"list", "add"} \/ k.row \in server.rows) THEN "ok" ELSE "refused"
    OBVIOUS
  <2>4. "data" \in DOMAIN k
    BY <1>1 DEF ReasonCall
  <2>5. calls' = [calls EXCEPT ![c] = [k EXCEPT !.st = st, !.data = data]]
    BY <1>1, <2>1, <2>2, <2>3, <2>4 DEF Settings!Serve
  <2> QED BY <2>5
<1>5. PICK j : j = [k EXCEPT !.st = st, !.data = data]
  OBVIOUS
<1>6. ReasonCall(j)
  BY <1>1, <1>5 DEF ReasonCall
<1>7. \A d \in Slots : ReasonCall(calls'[d])
  BY <1>1, <1>4, <1>5, <1>6 DEF ReasonInv
<1>8. ReasonsKept(server') /\ DOMAIN calls' = Slots
  BY <1>1, <1>2, <1>3, <1>4 DEF ReasonInv
<1> QED BY <1>1, <1>7, <1>8 DEF ReasonInv, ReasonOK, ReasonsKept, ReasonCall

LEMMA ReasonStart == Settings!Init => ReasonInv
<1> SUFFICES ASSUME Settings!Init PROVE ReasonInv
  OBVIOUS
<1>1. cast.page \in {"registries", "domains", "keys", "dangerous"}
  BY SettingsAssumption DEF Settings!Init
<1>2. ReasonsKept(server)
  BY OtherCallsAreOK DEF Settings!Init, ReasonsKept
<1>3. ReasonOK(ui)
  BY OtherCallsAreOK DEF Settings!Init, ReasonOK, ReasonFields
<1>4. DOMAIN calls = Slots /\ \A c \in Slots : ReasonCall(calls[c])
  BY OtherCallsAreOK DEF Settings!Init
<1> QED BY <1>1, <1>2, <1>3, <1>4 DEF ReasonInv

LEMMA SettingsStep ==
  ReasonInv /\ [Settings!Next]_(Settings!vars) => ReasonInv'
<1> SUFFICES ASSUME ReasonInv, [Settings!Next]_(Settings!vars) PROVE ReasonInv'
  OBVIOUS
<1>1. CASE UNCHANGED Settings!vars
  BY <1>1 DEF Settings!vars, ReasonInv, ReasonOK, ReasonCall, ReasonsKept
<1>2. CASE \/ Settings!OpenDialog \/ Settings!TypeKey \/ Settings!SwitchInject \/ Settings!TypeSuffix \/ Settings!CopyFades
           \/ (\E cancel \in BOOLEAN : Settings!CloseDialog(cancel))
           \/ (\E f : Settings!TypeRegistry(f)) \/ (\E f : Settings!SwitchDomain(f))
  BY <1>2, AsideOfReason
<1>3. CASE Settings!TypeReason \/ Settings!Dismiss
  BY <1>3, ReasonSteps
<1>4. ASSUME NEW r, Settings!CopyKey(r) \/ \E kind \in {"remove", "approve", "reject"} : Settings!OpenConfirm(kind, r)
      PROVE  ReasonInv'
  BY <1>4, AsideOfReason, OpenConfirmStep
<1>5. ASSUME NEW c \in Slots,
         \/ Settings!Refresh(c) \/ Settings!AddRegistry(c) \/ Settings!AddDomain(c) \/ Settings!AddKey(c)
         \/ (\E r : \/ Settings!ToggleInject(c, r) \/ Settings!ToggleEnabled(c, r)
                    \/ Settings!TestRegistry(c, r) \/ Settings!IssueCert(c, r))
      PROVE  ReasonInv'
  BY <1>5, AskSteps
<1>6. ASSUME NEW c \in Slots,
         \/ Settings!RemoveRegistry(c) \/ Settings!RemoveDomain(c) \/ Settings!RemoveKey(c)
         \/ Settings!Approve(c) \/ Settings!Reject(c)
         \/ Settings!ListReturns(c) \/ Settings!Returns(c) \/ Settings!Lose(c) \/ Settings!LoseCerts(c) \/ Settings!Serve(c)
      PROVE  ReasonInv'
  BY <1>6, ConfirmSteps, SettingsReturns, LostSteps, SettingsServe
<1> QED BY <1>1, <1>2, <1>3, <1>4, <1>5, <1>6 DEF Settings!Next

\* Whatever is opened over a form, shown under it or answered late: a form is saved to
\* what it was filled from, and a reason stands with the request it was typed for.
THEOREM FormsReachTheirTarget == Spec => []FormsBelongToTarget
<1> DEFINE Inv == /\ scene = "projects" => FilledInv
                  /\ scene = "users" => RoleOK(ui)
                  /\ scene = "settings" => ReasonInv
<1>1. Init => Inv
  BY FilledStart, RoleStart, ReasonStart DEF Init
<1>2. Inv /\ [Next]_vars => Inv'
  BY SceneSteps, FilledStep, RoleStep, SettingsStep DEF RoleOK
<1>3. Inv => FormsBelongToTarget
  BY OtherCallsAreOK DEF FilledInv, SavesItsOwn, RoleOK, ReasonInv, ReasonsKept, FormsBelongToTarget,
     ProjectsPage!SavedToItsProject, Users!FormOfThisUser, Settings!ReasonForThisRow
<1> QED BY <1>1, <1>2, <1>3, PTL DEF Spec

----------------------------------------------------------------------------
(* The fields that pick: what is left of the last opening                  *)

ListOK(s) == s = [items |-> s.items, value |-> s.value] /\ \E set : s.items \in Seq(set)

PickerFields == {"open", "mounted", "query", "field", "hl", "recent", "ack", "openings", "frame", "checked", "left"}
PickerOK(u) == PickerFields \subseteq DOMAIN u /\ u.open \in BOOLEAN /\ u.hl.at \in Nat

\* A combobox that is closed reads one of these labels and searches for nothing.
AtRest(u, labels) ==
  Choosing!Is(Choosing!Combo) /\ ~u.open =>
    u.query = Choosing!NoText /\ (Choosing!Is({"single"}) => u.field \in labels)

\* A close that is put off is of this opening, and only a select puts off.
AckOK(u) ==
  /\ Choosing!Is({"select"}) /\ u.ack # 0 => u.ack = u.openings
  /\ ~ Choosing!Is({"select"}) => u.ack = 0

SelectOK(u) == AckOK(u) /\ (Choosing!Is({"select"}) /\ u.open => u.mounted)

PickInv ==
  /\ ListOK(server) /\ PickerOK(ui)
  /\ AtRest(ui, {Choosing!Label(server)}) /\ SelectOK(ui)

LEMMA PickStart ==
  ASSUME Choosing!Init
  PROVE  PickInv
<1>1. ui = [open |-> FALSE, mounted |-> FALSE, query |-> Choosing!NoText, field |-> Choosing!NoText,
            hl |-> [at |-> 0, keyboard |-> FALSE],
            recent |-> FALSE, ack |-> 0, openings |-> 0, frame |-> FALSE, checked |-> 0, left |-> cast.steps]
  BY DEF Choosing!Init, Choosing!NoHighlight
<1>2. PickerOK(ui) /\ SelectOK(ui)
  BY <1>1 DEF PickerOK, PickerFields, SelectOK, AckOK
<1>3. server.items \in Seq(STRING)
  BY ListAssumption DEF Choosing!Init
<1>4. ListOK(server)
  BY <1>3 DEF ListOK, Choosing!Init
<1>5. Choosing!Label(server) = Choosing!NoText
  BY DEF Choosing!Label, Choosing!Init
<1>6. AtRest(ui, {Choosing!Label(server)})
  BY <1>1, <1>5 DEF AtRest
<1> QED BY <1>2, <1>4, <1>6 DEF PickInv

LEMMA PickPrimed ==
  ASSUME cast' = cast, ListOK(server'), PickerOK(ui'), AtRest(ui', {Choosing!Label(server')}), SelectOK(ui')
  PROVE  PickInv'
BY DEF PickInv, ListOK, PickerOK, AtRest, SelectOK, AckOK, Choosing!Label, Choosing!Is

\* What is decided on before the page is drawn may still read the former selection:
\* the field follows the selection.
LEMMA Rendered ==
  ASSUME NEW u, NEW s, ListOK(s), PickerOK(u), AckOK(u),
         AtRest(u, {Choosing!Label(s), Choosing!Label(server)}), Choosing!Render(u, s)
  PROVE  PickInv'
<1> DEFINE v == [u EXCEPT !.left = u.left - 1]
<1>1. /\ ui' = [v EXCEPT !.field = IF Choosing!Label(s) # Choosing!Label(server) THEN Choosing!Label(s) ELSE v.field,
                         !.hl = IF v.open /\ ~ui.open /\ v.hl = Choosing!NoHighlight THEN Choosing!First ELSE v.hl,
                         !.mounted = v.mounted \/ v.open]
      /\ server' = s /\ cast' = cast
  BY DEF Choosing!Render, Choosing!Effects, Choosing!Step
<1>2. DOMAIN v = DOMAIN u /\ \A f \in PickerFields \ {"left"} : v[f] = u[f]
  BY DEF PickerOK, PickerFields
<1>3. /\ v.open = u.open /\ v.query = u.query /\ v.field = u.field /\ v.hl = u.hl
      /\ v.mounted = u.mounted /\ v.ack = u.ack /\ v.openings = u.openings
  BY <1>2 DEF PickerFields
<1>4. PickerFields \subseteq DOMAIN v
  BY <1>2 DEF PickerOK
<1> HIDE DEF v
<1>5. /\ ui'.open = u.open /\ ui'.query = u.query /\ ui'.ack = u.ack /\ ui'.openings = u.openings
      /\ ui'.mounted = (u.mounted \/ u.open)
      /\ ui'.field = IF Choosing!Label(s) # Choosing!Label(server) THEN Choosing!Label(s) ELSE u.field
      /\ ui'.hl \in {Choosing!First, u.hl} /\ DOMAIN ui' = DOMAIN v
  BY <1>1, <1>3, <1>4 DEF PickerFields
<1>6. PickerOK(ui')
  BY <1>4, <1>5 DEF PickerOK, Choosing!First
<1>7. AtRest(ui', {Choosing!Label(server')})
  BY <1>1, <1>5 DEF AtRest
<1>8. SelectOK(ui')
  BY <1>5 DEF SelectOK, AckOK
<1> QED BY <1>1, <1>6, <1>7, <1>8, PickPrimed

\* Closing leaves a field that reads its selection, or what was picked.
LEMMA ClosedFields ==
  ASSUME PickInv, NEW open \in BOOLEAN, NEW text
  PROVE  /\ PickerOK(Choosing!SetOpen(ui, open)) /\ AckOK(Choosing!SetOpen(ui, open))
         /\ AtRest(Choosing!SetOpen(ui, open), {Choosing!Label(server)})
         /\ PickerOK(Choosing!Picked(ui, text)) /\ AckOK(Choosing!Picked(ui, text))
         /\ AtRest(Choosing!Picked(ui, text), {text})
<1> USE DEF PickInv, PickerOK, PickerFields
<1>1. Choosing!NoHighlight.at = 0
  BY DEF Choosing!NoHighlight
<1>2. ASSUME NEW u, u = Choosing!SetOpen(ui, open)
      PROVE  PickerOK(u) /\ AckOK(u) /\ AtRest(u, {Choosing!Label(server)})
  <2>1. /\ DOMAIN u = DOMAIN ui /\ u.open = open /\ u.query = (IF open THEN ui.query ELSE Choosing!NoText)
        /\ u.hl = (IF open THEN ui.hl ELSE Choosing!NoHighlight) /\ u.ack = ui.ack /\ u.openings = ui.openings
        /\ u.field = (IF open THEN ui.field ELSE Choosing!Label(server))
    BY <1>2 DEF Choosing!SetOpen
  <2> QED BY <1>1, <2>1 DEF AtRest, AckOK, SelectOK
<1>3. ASSUME NEW u, u = Choosing!Picked(ui, text)
      PROVE  PickerOK(u) /\ AckOK(u) /\ AtRest(u, {text})
  <2>1. /\ DOMAIN u = DOMAIN ui /\ u.open = FALSE /\ u.query = Choosing!NoText
        /\ u.hl = Choosing!NoHighlight /\ u.ack = ui.ack /\ u.openings = ui.openings /\ u.field = text
    BY <1>3 DEF Choosing!Picked
  <2>5. u.open \in BOOLEAN
    BY <1>3 DEF Choosing!Picked
  <2>2. AckOK(u)
    BY <2>1 DEF AckOK, SelectOK
  <2>3. AtRest(u, {text})
    BY <2>1 DEF AtRest
  <2>4. PickerOK(u)
    BY <1>1, <2>1, <2>5
  <2> QED BY <2>2, <2>3, <2>4
<1> HIDE DEF PickInv, PickerOK, PickerFields
<1> QED BY <1>2, <1>3

LEMMA SameCount ==
  ASSUME NEW S
  PROVE  Choosing!Cardinality(S) = Cardinality(S)
BY DEF Choosing!Cardinality, Cardinality

\* The rows are items of the list, and the one that creates.
LEMMA RowsOfList ==
  ASSUME PickInv
  PROVE  /\ Len(Choosing!Rows) \in Nat /\ DOMAIN Choosing!Rows = 1..Len(Choosing!Rows)
         /\ \A k \in DOMAIN Choosing!Rows :
              Choosing!Rows[k] = Choosing!Create \/ Choosing!Rows[k] \in Choosing!Range(server.items)
<1>1. PICK set : server.items \in Seq(set)
  BY DEF PickInv, ListOK
<1>2. DOMAIN server.items = 1..Len(server.items) /\ Len(server.items) \in Nat
  BY <1>1
<1>3. Choosing!Shown \subseteq DOMAIN server.items
  BY DEF Choosing!Shown
<1>4. IsFiniteSet(Choosing!Shown)
  <2>1. IsFiniteSet(1..Len(server.items))
    BY <1>2, FS_Interval
  <2> QED BY <1>2, <1>3, <2>1, FS_Subset
<1> DEFINE n == Choosing!Cardinality(Choosing!Shown) + (IF Choosing!Creates THEN 1 ELSE 0)
<1>5. n \in Nat
  BY <1>4, SameCount, FS_CardinalityType
<1> HIDE DEF n
<1> DEFINE Row(k) == IF \E i \in Choosing!Shown : Choosing!Place(i) = k
                     THEN server.items[CHOOSE i \in Choosing!Shown : Choosing!Place(i) = k] ELSE Choosing!Create
<1>6. Choosing!Rows = [k \in 1..n |-> Row(k)]
  BY DEF Choosing!Rows, n
<1>7. \A k : Row(k) = Choosing!Create \/ Row(k) \in Choosing!Range(server.items)
  BY <1>3 DEF Choosing!Range
<1> HIDE DEF Row
<1>8. Len(Choosing!Rows) = n
  BY <1>5, <1>6
<1> QED BY <1>5, <1>6, <1>7, <1>8

LEMMA PicksStep ==
  ASSUME PickInv, NEW row, row = Choosing!Create \/ row \in Choosing!Range(server.items), Choosing!Pick(row)
  PROVE  PickInv'
<1>1. ListOK(server) /\ PickerOK(ui) /\ AckOK(ui) /\ AtRest(ui, {Choosing!Label(server)})
  BY DEF PickInv, SelectOK
<1>2. server = [items |-> server.items, value |-> server.value]
  BY <1>1 DEF ListOK
<1>3. CASE Choosing!Render(Choosing!Picked(ui, Choosing!Label(server)), server)
  BY <1>1, <1>3, ClosedFields, Rendered DEF AtRest
<1>4. CASE row = Choosing!Create
           /\ Choosing!Render(Choosing!Picked(ui, IF Choosing!Is({"multiple"}) THEN Choosing!NoText ELSE ui.query),
                [items |-> Append(server.items, ui.query),
                 value |-> IF Choosing!Is({"multiple"}) THEN Append(server.value, ui.query) ELSE <<ui.query>>])
  <2> DEFINE s == [items |-> Append(server.items, ui.query),
                   value |-> IF Choosing!Is({"multiple"}) THEN Append(server.value, ui.query) ELSE <<ui.query>>]
             text == IF Choosing!Is({"multiple"}) THEN Choosing!NoText ELSE ui.query
  <2>1. PICK set : server.items \in Seq(set)
    BY <1>1 DEF ListOK
  <2>2. server.items \in Seq(set \cup {ui.query})
    BY <2>1
  <2>3. /\ Append(server.items, ui.query) \in Seq(set \cup {ui.query})
        /\ Append(server.items, ui.query)[Len(server.items) + 1] = ui.query
        /\ Len(server.items) + 1 \in DOMAIN Append(server.items, ui.query)
    BY <2>2
  <2>4. ListOK(s)
    BY <2>3 DEF ListOK
  <2>5. Choosing!Is({"single"}) => Choosing!Label(s) = text
    BY <2>3 DEF Choosing!Label, Choosing!Is, Choosing!Range
  <2> HIDE DEF s, text
  <2>6. AtRest(Choosing!Picked(ui, text), {Choosing!Label(s), Choosing!Label(server)})
    BY <2>5, ClosedFields DEF AtRest
  <2>7. Choosing!Render(Choosing!Picked(ui, text), s)
    BY <1>4 DEF s, text
  <2> QED BY <2>4, <2>6, <2>7, ClosedFields, Rendered
<1>5. CASE Choosing!Is({"multiple"})
           /\ Choosing!Render(IF ui.query = Choosing!NoText THEN ui ELSE Choosing!Picked(ui, Choosing!NoText),
                              Choosing!Selected(Choosing!Toggle(server.value, row)))
  <2> DEFINE s == Choosing!Selected(Choosing!Toggle(server.value, row))
             u == IF ui.query = Choosing!NoText THEN ui ELSE Choosing!Picked(ui, Choosing!NoText)
  <2>1. ListOK(s)
    BY <1>1, <1>2 DEF ListOK, Choosing!Selected
  <2>2. ~ Choosing!Is({"single"})
    BY <1>5 DEF Choosing!Is
  <2> HIDE DEF s
  <2>3. PickerOK(u) /\ AckOK(u) /\ AtRest(u, {Choosing!Label(s), Choosing!Label(server)})
    BY <1>1, <2>2, ClosedFields DEF AtRest
  <2> HIDE DEF u
  <2>4. Choosing!Render(u, s)
    BY <1>5 DEF u, s
  <2> QED BY <2>1, <2>3, <2>4, Rendered
<1>6. CASE row # Choosing!Create /\ Choosing!Render(Choosing!Picked(ui, row), Choosing!Selected(<<row>>))
  <2> DEFINE s == Choosing!Selected(<<row>>)
  <2>1. s = [items |-> server.items, value |-> <<row>>]
    BY <1>2 DEF Choosing!Selected
  <2>2. ListOK(s)
    BY <1>1, <2>1 DEF ListOK
  <2>3. Choosing!Is({"single"}) => Choosing!Label(s) = row
    BY <1>6, <2>1 DEF Choosing!Label, Choosing!Is
  <2> HIDE DEF s
  <2>4. AtRest(Choosing!Picked(ui, row), {Choosing!Label(s), Choosing!Label(server)})
    BY <2>3, ClosedFields DEF AtRest
  <2>5. Choosing!Render(Choosing!Picked(ui, row), s)
    BY <1>6 DEF s
  <2> QED BY <2>2, <2>4, <2>5, ClosedFields, Rendered
<1> QED BY <1>3, <1>4, <1>5, <1>6 DEF Choosing!Pick

LEMMA FieldStep ==
  ASSUME PickInv,
         \/ Choosing!PressField \/ Choosing!Clear
         \/ \E text \in PickersQueries \cup {Choosing!NoText} : Choosing!Type(text)
  PROVE  PickInv'
<1>1. ListOK(server) /\ PickerOK(ui) /\ AckOK(ui) /\ AtRest(ui, {Choosing!Label(server)})
  BY DEF PickInv, SelectOK
<1>2. CASE Choosing!PressField
  <2>1. PICK open \in BOOLEAN : Choosing!Render(Choosing!SetOpen(ui, open), server)
    BY <1>2 DEF Choosing!PressField
  <2> QED BY <1>1, <2>1, ClosedFields, Rendered DEF AtRest
<1>3. CASE Choosing!Clear
  <2> DEFINE u == [ui EXCEPT !.field = Choosing!NoText, !.query = Choosing!NoText, !.hl = Choosing!NoHighlight]
             s == Choosing!Selected(<<>>)
  <2>1. /\ DOMAIN u = DOMAIN ui /\ u.open = ui.open /\ u.query = Choosing!NoText /\ u.field = Choosing!NoText
        /\ u.hl = Choosing!NoHighlight /\ u.ack = ui.ack /\ u.openings = ui.openings
    BY <1>1 DEF PickerOK, PickerFields
  <2>2. s = [items |-> server.items, value |-> <<>>]
    BY <1>1 DEF ListOK, Choosing!Selected
  <2>3. Choosing!Label(s) = Choosing!NoText /\ ListOK(s)
    BY <1>1, <2>2 DEF Choosing!Label, ListOK
  <2>4. Choosing!NoHighlight.at = 0
    BY DEF Choosing!NoHighlight
  <2> HIDE DEF u, s
  <2>5. PickerOK(u) /\ AckOK(u) /\ AtRest(u, {Choosing!Label(s), Choosing!Label(server)})
    BY <1>1, <2>1, <2>3, <2>4 DEF PickerOK, AckOK, AtRest
  <2>6. Choosing!Render(u, s)
    BY <1>3 DEF Choosing!Clear, u, s
  <2> QED BY <2>3, <2>5, <2>6, Rendered
<1>4. ASSUME NEW text, Choosing!Type(text)
      PROVE  PickInv'
  <2> DEFINE u == [ui EXCEPT !.field = text, !.query = text, !.open = TRUE, !.hl = Choosing!First]
  <2>1. /\ DOMAIN u = DOMAIN ui /\ u.open \in BOOLEAN /\ u.open
        /\ u.hl = Choosing!First /\ u.ack = ui.ack /\ u.openings = ui.openings
    BY <1>1 DEF PickerOK, PickerFields
  <2>2. Choosing!First.at = 1
    BY DEF Choosing!First
  <2> HIDE DEF u
  <2>3. PickerOK(u) /\ AckOK(u) /\ AtRest(u, {Choosing!Label(server)})
    BY <1>1, <2>1, <2>2 DEF PickerOK, AckOK, AtRest
  <2>4. Choosing!Render(u, server)
    BY <1>4 DEF Choosing!Type, u
  <2> QED BY <1>1, <2>3, <2>4, Rendered DEF AtRest
<1> QED BY <1>2, <1>3, <1>4

\* The highlight alone, or the list that opens under it.
LEMMA Highlighted ==
  ASSUME PickInv, NEW hl, hl.at \in Nat, NEW u,
         u \in {[ui EXCEPT !.hl = hl], [ui EXCEPT !.open = TRUE, !.hl = hl]}
  PROVE  PickerOK(u) /\ AckOK(u) /\ AtRest(u, {Choosing!Label(server)})
<1>1. PickerOK(ui) /\ AckOK(ui) /\ AtRest(ui, {Choosing!Label(server)})
  BY DEF PickInv, SelectOK
<1>2. /\ DOMAIN u = DOMAIN ui /\ u.open \in BOOLEAN /\ (~u.open => ~ui.open)
      /\ u.hl = hl /\ u.ack = ui.ack /\ u.openings = ui.openings /\ u.query = ui.query /\ u.field = ui.field
  BY <1>1 DEF PickerOK, PickerFields
<1> QED BY <1>1, <1>2 DEF PickerOK, AckOK, AtRest

LEMMA ArrowStep ==
  ASSUME PickInv, NEW step \in {1, -1}, Choosing!Arrow(step)
  PROVE  PickInv'
<1> DEFINE n == Len(Choosing!Rows)
           to == (IF Choosing!At = 0 /\ step = -1 THEN n + 1 ELSE Choosing!At) + step
           edge == IF n > 0 THEN [at |-> IF step = 1 THEN 1 ELSE n, keyboard |-> TRUE] ELSE ui.hl
           next == IF to \in 1..n THEN [at |-> to, keyboard |-> TRUE] ELSE Choosing!NoHighlight
<1>1. n \in Nat
  BY RowsOfList
<1>2. edge.at \in Nat
  BY <1>1 DEF PickInv, PickerOK
<1>3. next.at \in Nat
  <2>1. Choosing!NoHighlight.at = 0
    BY DEF Choosing!NoHighlight
  <2> HIDE DEF to
  <2> QED BY <1>1, <2>1
<1>4. \/ Choosing!Render([ui EXCEPT !.open = TRUE, !.hl = edge], server)
      \/ Choosing!Render([ui EXCEPT !.hl = next], server)
  BY DEF Choosing!Arrow
<1> HIDE DEF edge, next
<1>5. ASSUME NEW hl, hl.at \in Nat, NEW u,
             u \in {[ui EXCEPT !.hl = hl], [ui EXCEPT !.open = TRUE, !.hl = hl]}, Choosing!Render(u, server)
      PROVE  PickInv'
  <2>1. PickerOK(u) /\ AckOK(u) /\ AtRest(u, {Choosing!Label(server)})
    BY <1>5, Highlighted
  <2> QED BY <1>5, <2>1, Rendered DEF AtRest, PickInv
<1> QED BY <1>2, <1>3, <1>4, <1>5

LEMMA ListStep ==
  ASSUME PickInv, NEW k, Choosing!PressRow(k) \/ Choosing!PointAt(k) \/ Choosing!PressEnter
  PROVE  PickInv'
<1>1. Len(Choosing!Rows) \in Nat /\ DOMAIN Choosing!Rows = 1..Len(Choosing!Rows)
  BY RowsOfList
<1>2. CASE Choosing!PressRow(k)
  BY <1>2, RowsOfList, PicksStep DEF Choosing!PressRow, Choosing!Pressable
<1>3. CASE Choosing!PointAt(k)
  <2> DEFINE hl == [at |-> k, keyboard |-> FALSE]
             u == [ui EXCEPT !.hl = hl]
  <2>1. k \in Nat
    BY <1>1, <1>3 DEF Choosing!PointAt, Choosing!Pressable
  <2>2. hl.at \in Nat
    BY <2>1
  <2>3. Choosing!Render(u, server)
    BY <1>3 DEF Choosing!PointAt
  <2> HIDE DEF hl
  <2>4. PickerOK(u) /\ AckOK(u) /\ AtRest(u, {Choosing!Label(server)})
    BY <2>2, Highlighted
  <2> HIDE DEF u
  <2> QED BY <2>3, <2>4, Rendered DEF AtRest, PickInv
<1>4. CASE Choosing!PressEnter
  <2>1. Choosing!At # 0 /\ Choosing!Pick(Choosing!Rows[Choosing!At])
    BY <1>4 DEF Choosing!PressEnter
  <2>2. ui.hl.at \in Nat
    BY DEF PickInv, PickerOK
  <2>3. Choosing!At \in 1..Len(Choosing!Rows)
    BY <1>1, <2>1, <2>2 DEF Choosing!At
  <2> QED BY <1>1, <2>1, <2>3, RowsOfList, PicksStep
<1> QED BY <1>2, <1>3, <1>4

LEMMA ChipStep ==
  ASSUME PickInv, NEW vals, Choosing!Render(ui, Choosing!Selected(vals))
  PROVE  PickInv'
<1> DEFINE s == Choosing!Selected(vals)
<1>1. ListOK(server) /\ PickerOK(ui) /\ AckOK(ui) /\ AtRest(ui, {Choosing!Label(server)})
  BY DEF PickInv, SelectOK
<1>2. s = [items |-> server.items, value |-> vals]
  BY <1>1 DEF Choosing!Selected, ListOK
<1>3. ListOK(s)
  BY <1>1, <1>2 DEF ListOK
<1> HIDE DEF s
<1>4. AtRest(ui, {Choosing!Label(s), Choosing!Label(server)})
  BY <1>1 DEF AtRest
<1>5. Choosing!Render(ui, s)
  BY DEF s
<1> QED BY <1>1, <1>3, <1>4, <1>5, Rendered

\* A step that changes nothing a closed picker keeps.
LEMMA PopupStep ==
  ASSUME PickInv, UNCHANGED <<server, cast>>, NEW mounted, NEW hl, hl.at \in Nat, NEW recent,
         ui' \in {[ui EXCEPT !.hl = hl], [ui EXCEPT !.recent = recent]}
         \/ (~ui.open /\ ui' = [ui EXCEPT !.mounted = mounted])
  PROVE  PickInv'
<1>1. ListOK(server) /\ PickerOK(ui) /\ SelectOK(ui) /\ AtRest(ui, {Choosing!Label(server)})
  BY DEF PickInv
<1>2. /\ DOMAIN ui' = DOMAIN ui /\ ui'.open = ui.open /\ (ui.open => ui'.mounted = ui.mounted)
      /\ ui'.hl \in {hl, ui.hl} /\ ui'.ack = ui.ack /\ ui'.openings = ui.openings
      /\ ui'.query = ui.query /\ ui'.field = ui.field
  BY <1>1 DEF PickerOK, PickerFields
<1>3. PickerOK(ui') /\ SelectOK(ui') /\ AtRest(ui', {Choosing!Label(server)})
  BY <1>1, <1>2 DEF PickerOK, SelectOK, AckOK, AtRest
<1> QED BY <1>1, <1>3, PickPrimed

LEMMA OtherStep ==
  ASSUME PickInv, Choosing!Is({"simple"}),
         DOMAIN ui' = DOMAIN ui, ui'.open \in BOOLEAN, ui'.hl = ui.hl, ui'.ack = ui.ack, ListOK(server'), cast' = cast
  PROVE  PickInv'
<1>1. ~ Choosing!Is({"select"}) /\ ~ Choosing!Is(Choosing!Combo)
  BY DEF Choosing!Is, Choosing!Combo
<1>2. PickerOK(ui') /\ AtRest(ui', {Choosing!Label(server')}) /\ SelectOK(ui')
  BY <1>1 DEF PickInv, PickerOK, AtRest, SelectOK, AckOK
<1> QED BY <1>2, PickPrimed

LEMMA SimpleStep ==
  ASSUME PickInv, NEW k, NEW text,
         Choosing!PressTrigger \/ Choosing!Search(text) \/ Choosing!PressSimpleRow(k)
  PROVE  PickInv'
<1>1. ListOK(server) /\ PickerOK(ui)
  BY DEF PickInv
<1>2. /\ DOMAIN ui' = DOMAIN ui /\ ui'.open \in BOOLEAN /\ ui'.hl = ui.hl /\ ui'.ack = ui.ack
  <2> DEFINE v == Choosing!Step(ui)
  <2>1. DOMAIN v = DOMAIN ui /\ v.open = ui.open /\ v.hl = ui.hl /\ v.ack = ui.ack
    BY <1>1 DEF Choosing!Step, PickerOK, PickerFields
  <2>2. \/ ui' = [v EXCEPT !.open = ~v.open, !.query = IF ui.open THEN v.query ELSE Choosing!NoText, !.mounted = TRUE]
        \/ ui' = [v EXCEPT !.query = text]
        \/ ui' = [v EXCEPT !.open = FALSE, !.query = Choosing!NoText]
    BY DEF Choosing!PressTrigger, Choosing!Search, Choosing!PressSimpleRow
  <2> HIDE DEF v
  <2> QED BY <1>1, <2>1, <2>2 DEF PickerOK, PickerFields
<1>3. ListOK(server')
  <2>1. CASE server' = server
    BY <1>1, <2>1
  <2>2. ASSUME NEW vals, server' = Choosing!Selected(vals)
        PROVE  ListOK(server')
    <3>1. server' = [items |-> server.items, value |-> vals]
      BY <1>1, <2>2 DEF Choosing!Selected, ListOK
    <3> QED BY <1>1, <3>1 DEF ListOK
  <2> QED BY <2>1, <2>2 DEF Choosing!PressTrigger, Choosing!Search, Choosing!PressSimpleRow
<1> QED BY <1>2, <1>3, OtherStep DEF Choosing!PressTrigger, Choosing!Search, Choosing!PressSimpleRow

(* The select *)

LEMMA Changed ==
  ASSUME Choosing!Is({"select"}), NEW u, PickerOK(u), SelectOK(u), NEW open \in BOOLEAN
  PROVE  PickerOK(Choosing!OpenChange(u, open)) /\ SelectOK(Choosing!OpenChange(u, open))
<1> DEFINE r == Choosing!OpenChange(u, open)
           c == Choosing!CancelAck(u, open)
<1>1. /\ DOMAIN c = DOMAIN u /\ c.ack = 0 /\ c.open = u.open /\ c.mounted = u.mounted /\ c.openings = u.openings
      /\ c.hl = u.hl
  BY DEF Choosing!CancelAck, PickerOK, PickerFields
<1>2. r = IF ~open /\ u.recent THEN [c EXCEPT !.ack = u.openings]
          ELSE [c EXCEPT !.open = open, !.mounted = c.mounted \/ open,
                         !.openings = IF open THEN c.openings + 1 ELSE c.openings]
  BY DEF Choosing!OpenChange
<1> HIDE DEF c, r
<1>3. CASE ~open /\ u.recent
  <2>1. /\ DOMAIN r = DOMAIN u /\ r.ack = u.openings /\ r.openings = u.openings /\ r.open = u.open
        /\ r.mounted = u.mounted /\ r.hl = u.hl
    BY <1>1, <1>2, <1>3 DEF PickerOK, PickerFields
  <2> QED BY <2>1 DEF r, PickerOK, SelectOK, AckOK
<1>4. CASE ~(~open /\ u.recent)
  <2>1. /\ DOMAIN r = DOMAIN u /\ r.ack = 0 /\ r.open = open /\ (open => r.mounted) /\ r.hl = u.hl
    BY <1>1, <1>2, <1>4 DEF PickerOK, PickerFields
  <2> QED BY <2>1 DEF r, PickerOK, SelectOK, AckOK
<1> QED BY <1>3, <1>4

\* What the effects of a render and the budget change of a select is not in question.
LEMMA SelectRendered ==
  ASSUME Choosing!Is({"select"}), NEW u, NEW v, PickerOK(u), SelectOK(u), v \in {u, Choosing!Step(u)},
         NEW s, ListOK(s), ui' = Choosing!Looked(v, s), server' = s, cast' = cast
  PROVE  PickInv'
<1>1. /\ DOMAIN v = DOMAIN u /\ v.open = u.open /\ v.mounted = u.mounted /\ v.ack = u.ack
      /\ v.openings = u.openings /\ v.hl = u.hl
  BY DEF Choosing!Step, PickerOK, PickerFields
<1>2. /\ DOMAIN ui' = DOMAIN v /\ ui'.open = v.open /\ ui'.mounted = v.mounted /\ ui'.ack = v.ack
      /\ ui'.openings = v.openings /\ ui'.hl = v.hl
  BY <1>1 DEF Choosing!Looked, PickerOK, PickerFields
<1>3. PickerOK(ui') /\ SelectOK(ui')
  BY <1>1, <1>2 DEF PickerOK, SelectOK, AckOK
<1>4. AtRest(ui', {Choosing!Label(server')})
  BY DEF AtRest, Choosing!Is, Choosing!Combo
<1> QED BY <1>3, <1>4, PickPrimed

LEMMA SelectBoxStep ==
  ASSUME PickInv, NEW k, Choosing!OpenSelect \/ Choosing!DismissSelect \/ Choosing!PickOption(k) \/ Choosing!AckCloses
  PROVE  PickInv'
<1>1. ListOK(server) /\ PickerOK(ui) /\ SelectOK(ui)
  BY DEF PickInv
<1>2. CASE Choosing!OpenSelect
  BY <1>1, <1>2, Changed, SelectRendered DEF Choosing!OpenSelect
<1>3. CASE Choosing!DismissSelect
  BY <1>1, <1>3, Changed, SelectRendered DEF Choosing!DismissSelect
<1>4. CASE Choosing!PickOption(k)
  <2> DEFINE s == Choosing!Selected(<<server.items[k]>>)
             u == [ui EXCEPT !.recent = ui.recent \/ s # server]
  <2>1. s = [items |-> server.items, value |-> <<server.items[k]>>]
    BY <1>1 DEF Choosing!Selected, ListOK
  <2>2. ListOK(s)
    BY <1>1, <2>1 DEF ListOK
  <2>3. PickerOK(u) /\ SelectOK(u)
    <3>1. /\ DOMAIN u = DOMAIN ui /\ u.open = ui.open /\ u.mounted = ui.mounted /\ u.ack = ui.ack
          /\ u.openings = ui.openings /\ u.hl = ui.hl
      BY <1>1 DEF PickerOK, PickerFields
    <3> HIDE DEF u
    <3> QED BY <1>1, <3>1 DEF PickerOK, SelectOK, AckOK
  <2>4. /\ Choosing!Is({"select"}) /\ ui' = Choosing!Looked(Choosing!Step(Choosing!OpenChange(u, FALSE)), s)
        /\ server' = s /\ cast' = cast
    BY <1>4 DEF Choosing!PickOption
  <2> HIDE DEF u, s
  <2> QED BY <2>2, <2>3, <2>4, Changed, SelectRendered
<1>5. CASE Choosing!AckCloses
  <2> DEFINE u == [ui EXCEPT !.ack = 0, !.open = FALSE]
  <2>1. Choosing!Is({"select"})
    BY <1>1, <1>5 DEF Choosing!AckCloses, SelectOK, AckOK
  <2>2. PickerOK(u) /\ SelectOK(u)
    <3>1. /\ DOMAIN u = DOMAIN ui /\ ~u.open /\ u.open \in BOOLEAN /\ u.ack = 0 /\ u.hl = ui.hl
      BY <1>1 DEF PickerOK, PickerFields
    <3> HIDE DEF u
    <3> QED BY <1>1, <2>1, <3>1 DEF PickerOK, SelectOK, AckOK
  <2>3. ui' = Choosing!Looked(u, server) /\ server' = server /\ cast' = cast
    BY <1>5 DEF Choosing!AckCloses
  <2> HIDE DEF u
  <2> QED BY <1>1, <2>1, <2>2, <2>3, SelectRendered
<1> QED BY <1>2, <1>3, <1>4, <1>5

(* Timers, animations and the page around *)

LEMMA TimerSteps ==
  ASSUME PickInv, Choosing!LeaveList \/ Choosing!PickAges \/ Choosing!ExitEnds \/ Choosing!FrameMarks
  PROVE  PickInv'
<1>1. ListOK(server) /\ PickerOK(ui) /\ SelectOK(ui) /\ AtRest(ui, {Choosing!Label(server)})
  BY DEF PickInv
<1>2. CASE Choosing!LeaveList
  <2>1. Choosing!NoHighlight.at \in Nat
    BY DEF Choosing!NoHighlight
  <2> QED BY <1>2, <2>1, PopupStep DEF Choosing!LeaveList
<1>3. CASE Choosing!PickAges
  BY <1>1, <1>3, PopupStep DEF Choosing!PickAges, PickerOK
<1>4. CASE Choosing!ExitEnds
  BY <1>1, <1>4, PopupStep DEF Choosing!ExitEnds, PickerOK
<1>5. CASE Choosing!FrameMarks
  <2>1. /\ DOMAIN ui' = DOMAIN ui /\ ui'.open = ui.open /\ ui'.mounted = ui.mounted
        /\ ui'.hl = ui.hl /\ ui'.ack = ui.ack /\ ui'.openings = ui.openings
        /\ ui'.query = ui.query /\ ui'.field = ui.field
    BY <1>1, <1>5 DEF Choosing!FrameMarks, PickerOK, PickerFields
  <2>2. PickerOK(ui') /\ SelectOK(ui') /\ AtRest(ui', {Choosing!Label(server)})
    BY <1>1, <2>1 DEF PickerOK, SelectOK, AckOK, AtRest
  <2> QED BY <1>1, <1>5, <2>2, PickPrimed DEF Choosing!FrameMarks
<1> QED BY <1>2, <1>3, <1>4, <1>5

LEMMA PageStep ==
  ASSUME PickInv, NEW vals, NEW items \in {PickersItems, Tail(PickersItems)},
         Choosing!PageSets(vals) \/ Choosing!PageLoads(items)
  PROVE  PickInv'
<1>1. ListOK(server) /\ PickerOK(ui) /\ SelectOK(ui) /\ AtRest(ui, {Choosing!Label(server)})
  BY DEF PickInv
<1>2. CASE Choosing!PageSets(vals)
  <2> DEFINE s == Choosing!Selected(vals)
  <2>1. CASE Choosing!Is({"select"})
    <3>1. s = [items |-> server.items, value |-> vals]
      BY <1>1 DEF Choosing!Selected, ListOK
    <3>2. ListOK(s)
      BY <1>1, <3>1 DEF ListOK
    <3> HIDE DEF s
    <3>3. ui' = Choosing!Looked(Choosing!Step(ui), s) /\ server' = s /\ cast' = cast
      BY <1>2, <2>1 DEF Choosing!PageSets, s
    <3> QED BY <1>1, <2>1, <3>2, <3>3, SelectRendered
  <2>2. CASE ~ Choosing!Is({"select"})
    <3>1. Choosing!Render(ui, Choosing!Selected(vals))
      BY <1>2, <2>2 DEF Choosing!PageSets, Choosing!Render
    <3> QED BY <3>1, ChipStep
  <2> QED BY <2>1, <2>2
<1>3. CASE Choosing!PageLoads(items)
  <2> DEFINE s == [server EXCEPT !.items = items]
  <2>1. s = [items |-> items, value |-> server.value]
    BY <1>1 DEF ListOK
  <2>2. items \in Seq(STRING)
    BY ListAssumption
  <2>3. ListOK(s)
    BY <2>1, <2>2 DEF ListOK
  <2> HIDE DEF s
  <2>4. Choosing!Render(ui, s)
    BY <1>3 DEF Choosing!PageLoads, s
  <2>5. AtRest(ui, {Choosing!Label(s), Choosing!Label(server)})
    BY <1>1 DEF AtRest
  <2> QED BY <1>1, <2>3, <2>4, <2>5, Rendered DEF SelectOK
<1> QED BY <1>2, <1>3

LEMMA PickerStep ==
  ASSUME PickInv, [Choosing!Next]_(Choosing!vars)
  PROVE  PickInv'
<1>1. CASE UNCHANGED Choosing!vars
  <2>1. server' = server /\ ui' = ui /\ cast' = cast
    BY <1>1 DEF Choosing!vars
  <2> QED BY <2>1, PickPrimed DEF PickInv
<1>2. ASSUME NEW k, \/ Choosing!PressRow(k) \/ Choosing!PointAt(k) \/ Choosing!PressEnter
                    \/ Choosing!PressTrigger \/ Choosing!PressSimpleRow(k)
                    \/ Choosing!OpenSelect \/ Choosing!DismissSelect \/ Choosing!PickOption(k) \/ Choosing!AckCloses
      PROVE  PickInv'
  BY <1>2, ListStep, SimpleStep, SelectBoxStep
<1>3. ASSUME NEW text \in PickersQueries \cup {Choosing!NoText},
             \/ Choosing!Type(text) \/ Choosing!Search(text) \/ Choosing!PressField \/ Choosing!Clear
      PROVE  PickInv'
  BY <1>3, FieldStep, SimpleStep
<1>4. ASSUME NEW i, Choosing!Backspace \/ Choosing!RemoveChip(i)
      PROVE  PickInv'
  BY <1>4, ChipStep DEF Choosing!Backspace, Choosing!RemoveChip
<1>5. CASE Choosing!LeaveList \/ Choosing!PickAges \/ Choosing!ExitEnds \/ Choosing!FrameMarks
  BY <1>5, TimerSteps
<1>6. ASSUME NEW vals, Choosing!PageSets(vals)
      PROVE  PickInv'
  BY <1>6, PageStep
<1>7. ASSUME NEW items \in {PickersItems, Tail(PickersItems)}, Choosing!PageLoads(items)
      PROVE  PickInv'
  BY <1>7, PageStep
<1>8. ASSUME NEW step \in {1, -1}, Choosing!Arrow(step)
      PROVE  PickInv'
  BY <1>8, ArrowStep
<1> QED BY <1>1, <1>2, <1>3, <1>4, <1>5, <1>6, <1>7, <1>8 DEF Choosing!Next

\* Whatever is typed, picked, cleared, created or changed by the page, in whatever order
\* closes, timers and animations come: a picker that is closed, or on its way out, keeps
\* nothing it would act on.
THEOREM PickersStartAfresh == Spec => []ClosedHoldsNothing
<1> DEFINE Inv == scene = "pickers" => PickInv
<1>1. Init => Inv
  BY PickStart DEF Init
<1>2. Inv /\ [Next]_vars => Inv'
  BY SceneSteps, PickerStep
<1>3. Inv => ClosedHoldsNothing
  BY DEF PickInv, AtRest, SelectOK, AckOK, ClosedHoldsNothing, Choosing!ClosedHoldsNothing
<1> QED BY <1>1, <1>2, <1>3, PTL DEF Spec

=============================================================================
