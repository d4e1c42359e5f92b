------------------------------ MODULE Dialogs ------------------------------
(***************************************************************************)
(* The dialogs of one chat with the bot: the state machines that ask for a *)
(* value in one update and read the answer in a later one (the routers of  *)
(* app/bot/handlers: admin.py, wallet.py, shop.py, tournament.py).         *)
(*                                                                         *)
(* aiogram keeps for every chat one state, which decides the handler of    *)
(* the next message, and one dictionary of data, here state and data.  All *)
(* dialogs share the two: a button of an old message opens its dialog on   *)
(* top of another, and several dialogs use the same key (product_id).      *)
(* main.py keeps them in memory: a restart empties both.                   *)
(*                                                                         *)
(* Polling handles the updates of a chat concurrently.  A handler runs     *)
(* without interruption up to an await on the database or on Telegram;     *)
(* then it is a job, and other updates of the chat are handled before it   *)
(* continues.  For an ordinary user the middlewares already await between  *)
(* the choice of the handler, made by the state of that moment, and its    *)
(* first line (`routed'); for an admin they return at once.                *)
(*                                                                         *)
(* State and key names are the source's without WAITING_ and the forms'    *)
(* prefixes.  Answers that a handler refuses change nothing and are left   *)
(* out; what a form's text fields hold does not matter, only that they     *)
(* were answered (Given).                                                  *)
(***************************************************************************)
EXTENDS Catalog, Sequences, SequencesExt

CONSTANTS
    Configs,        \* payment_provider_configs rows
    SettingKeys,    \* EDITABLE_SETTINGS
    InPlay,         \* how many of the dialogs one behaviour uses
    MaxJobs,        \* bound: suspended handlers of the chat
    MaxPresses      \* bound: presses, deletes, orders, restarts and late failures

ASSUME DialogsAssumption == {InPlay, MaxJobs, MaxPresses} \subseteq Nat

VARIABLES
    isAdmin,        \* whether the chat's user is one of settings.admin_ids
    inPlay,         \* the dialogs this behaviour uses
    state,          \* the state of the chat, or "None"
    data,           \* the data of the chat: a function of the keys present
    jobs,           \* the suspended handlers
    asked,          \* what the last prompt asked for
    wrote,          \* the row that this step stored, or NoRow
    life,           \* which data this is: counts those cleared while a handler or a row had them
    storedFrom,     \* which dialogs have stored a row from which data
    broken,         \* those of storedFrom whose handler failed after the row
    overlap,        \* an update came in while a handler of the chat was suspended
    presses         \* how much of MaxPresses is used

chatVars == <<state, data, asked, life, overlap>>
vars == <<isAdmin, inPlay, state, data, jobs, asked, wrote, life, storedFrom,
          broken, overlap, presses, catalogVars>>

Empty == <<>>
Given == "given"

Asked(what, amount) == [what |-> what, amount |-> amount]
Nothing == Asked("nothing", 0)
NoRow == [dialog |-> "none", got |-> Nothing, asked |-> Nothing, again |-> FALSE,
          overlap |-> FALSE, broken |-> FALSE]

\* What a handler that is about to be suspended takes with it.
Job(step, dialog, seen, ask) ==
    [step |-> step, dialog |-> dialog, seen |-> seen, asked |-> ask, life |-> life,
     overlap |-> overlap]
-----------------------------------------------------------------------------
\* Dialogs of one answer about one object.  `key' holds the object; a `late' opener
\* looks the object up before it asks; `reads' says whether the answer's handler
\* reads the key at once, also clearing the data (claims), or after an await (late).
Edit(key, objects, late, reads) == [key |-> key, objects |-> objects, late |-> late, reads |-> reads]

PriceEdit == Edit("product_id", Products, FALSE, "keeps")
TokenPriceEdit == Edit("product_id", Products, TRUE, "keeps")
VpnLimitEdit == Edit("product_id", Products, FALSE, "keeps")
VpnDurationEdit == Edit("product_id", Products, FALSE, "keeps")
DiscountEdit == Edit("discount_product_id", Products, FALSE, "claims")
SettingEdit == Edit("setting_key", SettingKeys, TRUE, "keeps")
ApiUrlEdit == Edit("edit_id", Configs, FALSE, "claims")
ApiKeyEdit == Edit("edit_id", Configs, FALSE, "late")
QuantityEdit == Edit("product_id", Products, FALSE, "keeps")
CouponCodeEdit == Edit("coupon_product_id", Products, FALSE, "keeps")

Edits ==
    [NEW_PRICE |-> PriceEdit, NEW_TOKEN_PRICE |-> TokenPriceEdit,
     PRODUCT_VPN_LIMIT |-> VpnLimitEdit, PRODUCT_VPN_DURATION |-> VpnDurationEdit,
     PRODUCT_DISCOUNT_PERCENT |-> DiscountEdit, SETTING_VALUE |-> SettingEdit,
     PROVIDER_EDIT_API_URL |-> ApiUrlEdit, PROVIDER_EDIT_API_KEY |-> ApiKeyEdit,
     QUANTITY |-> QuantityEdit, CODE |-> CouponCodeEdit]

\* Steps of a form that keep the answer under a key and ask for the next one.
Step(key, next) == [key |-> key, next |-> next]

CategorySteps ==
    [CATEGORY_NAME |-> Step("category_name", "CATEGORY_ICON"),
     CATEGORY_ICON |-> Step("category_icon", "CATEGORY_BUTTON_COLUMNS")]
ProductSteps ==
    [PRODUCT_FIXED_PRICE |-> Step("fixed_price", "PRODUCT_BUTTON_COLUMNS"),
     PRODUCT_UNIT_PRICE |-> Step("unit_price", "PRODUCT_MIN_QTY")]
ChannelSteps == [CHANNEL_TITLE |-> Step("channel_title", "CHANNEL_USERNAME")]
PanelSteps ==
    [VPN_PANEL_NAME |-> Step("vpn_panel_name", "VPN_PANEL_URL"),
     VPN_PANEL_URL |-> Step("vpn_panel_url", "VPN_PANEL_USERNAME"),
     VPN_PANEL_USERNAME |-> Step("vpn_panel_username", "VPN_PANEL_PASSWORD")]
ProviderSteps == [PROVIDER_API_URL |-> Step("api_url", "PROVIDER_API_KEY")]
TournamentSteps ==
    [TITLE |-> Step("title", "METRIC"), METRIC |-> Step("metric", "ENTRY_FEE"),
     ENTRY_FEE |-> Step("entry_fee", "DURATION"),
     DURATION |-> Step("duration_days", "PRIZE_DESCRIPTION"),
     PRIZE_DESCRIPTION |-> Step("prize_description", "PRIZE_CREDIT")]

Steps == Over(CategorySteps, Over(ProductSteps, Over(ChannelSteps, Over(PanelSteps,
              Over(ProviderSteps, TournamentSteps)))))

\* The first state of each form and the key its opening button sets, with its values.
Opener(first, key, values) == [first |-> first, key |-> key, values |-> values]

Forms ==
    [PRODUCT |-> Opener("PRODUCT_NAME", "", {Given}),
     CATEGORY |-> Opener("CATEGORY_NAME", "", {Given}),
     CHANNEL |-> Opener("CHANNEL_TITLE", "", {Given}),
     VPN_PANEL |-> Opener("VPN_PANEL_NAME", "vpn_panel_type", {"MARZBAN", "SANAEI"}),
     PROVIDER |-> Opener("PROVIDER_API_URL", "provider_type", {Given}),
     COUPON |-> Opener("COUPON_PERCENT", "", {Given}),
     BROADCAST |-> Opener("BROADCAST_MESSAGE", "", {Given}),
     USERS |-> Opener("USER_SEARCH", "", {Given}),
     TOURNAMENT |-> Opener("TITLE", "", {Given}),
     DEPOSIT |-> Opener("AMOUNT", "deposit_type", {"RIAL", "TOKEN"}),
     TRONADO |-> Opener("TRX_DEPOSIT_AMOUNT", "", {Given}),
     SEARCH |-> Opener("QUERY", "", {Given})]

\* The answers a form's row is made of, and those a dialog's is.
FormAnswers ==
    [PRODUCT |-> {"product_name", "category_id", "product_type", "fixed_price", "unit_price",
                  "min_qty", "max_qty"},
     CATEGORY |-> {"category_name"},
     CHANNEL |-> {"channel_title", "channel_username"},
     VPN_PANEL |-> {"vpn_panel_type", "vpn_panel_name", "vpn_panel_url", "vpn_panel_username",
                    "vpn_panel_password"},
     PROVIDER |-> {"provider_type", "api_url"},
     TOURNAMENT |-> {"title", "metric", "entry_fee", "duration_days", "prize_description"},
     BROADCAST |-> {"broadcast_message_id"},
     DEPOSIT |-> {"deposit_type", "amount", "token_amount"},
     COUPON |-> {}, TRONADO |-> {}]

Answers(d) == IF d \in DOMAIN Edits THEN {Edits[d].key} ELSE FormAnswers[d]

\* The dialogs of an ordinary user.  An admin's chat is given the two that share keys
\* or answers with the admin's own; the others only differ by the shorter way there.
UserDialogs == {"QUANTITY", "CODE", "DEPOSIT", "TRONADO", "SEARCH"}
ProductDialogs == {"PRODUCT", "CATEGORY"} \cup {d \in DOMAIN Edits : Edits[d].objects = Products}
AllDialogs == DOMAIN Edits \cup DOMAIN Forms
AdminDialogs == AllDialogs \ {"DEPOSIT", "TRONADO", "SEARCH"}

\* The part of the data that the row of dialog d is made of.
Of(d) == [k \in DOMAIN data \cap Answers(d) |-> data[k]]
-----------------------------------------------------------------------------
(* What a handler does to the chat.  J are the other handlers in flight.   *)

Ask(s, new, J, what) ==
    /\ state' = s
    /\ data' = new
    /\ asked' = what
    /\ overlap' = (overlap \/ J # <<>>)
    /\ UNCHANGED life

Goto(s, new, J) == Ask(s, new, J, asked)
Keep(J) == Goto(state, data, J)

\* FSMContext.clear: no state, no data.  Take: the handler goes on with what it read.
Wipe(J) ==
    /\ state' = "None"
    /\ data' = Empty
    /\ asked' = Nothing
    /\ overlap' = (J # <<>>)

\* A handler has read the data of this life to store it, or has stored it.
Spent(J) == \/ \E i \in DOMAIN J : J[i].step \in {"store", "stored"} /\ J[i].life = life
            \/ \E e \in storedFrom : e[1] = life

Clear(J) == Wipe(J) /\ life' = IF J = <<>> THEN 0 ELSE IF Spent(J) THEN life + 1 ELSE life
Take(J) == Wipe(J) /\ life' = life + 1

Suspend(J, job) ==
    /\ Len(J) < MaxJobs
    /\ jobs' = Append(J, job)

\* Nothing can be stored from answers that no handler and no data hold any more.
Remembered(from) == IF jobs' = <<>> /\ data' = Empty THEN {} ELSE from

Lost(more) == storedFrom' = Remembered(storedFrom) /\ broken' = Remembered(broken \cup more)
NoStore == wrote' = NoRow /\ Lost({})

\* The handler of job j stores a row.
Stored(j, got, ask) ==
    /\ wrote' = [dialog |-> j.dialog, got |-> got, asked |-> ask,
                 again |-> <<j.life, j.dialog>> \in storedFrom,
                 overlap |-> j.overlap \/ overlap,
                 broken |-> <<j.life, j.dialog>> \in broken]
    /\ storedFrom' = Remembered(storedFrom \cup {<<j.life, j.dialog>>})
    /\ broken' = Remembered(broken)

Quiet == NoStore /\ UNCHANGED <<isAdmin, inPlay, catalogVars>>

\* What the handler of jobs[i] does to the chat when its row is there.  If it took the
\* answers it is done; else the row is committed, and more awaits follow (a refresh, a
\* second commit, the end of the session) before the chat is cleared.  The two dialogs
\* of a confirmation leave their state before they send it.
Linger(i) ==
    LET j == jobs[i]
        J == RemoveAt(jobs, i)
    IN  IF j.step = "claimed" THEN Keep(J) /\ jobs' = J
        ELSE /\ Goto(IF j.dialog \in {"QUANTITY", "CODE"} THEN "None" ELSE state, data, J)
             /\ jobs' = Append(J, [step |-> "stored", dialog |-> j.dialog, seen |-> Empty,
                                   asked |-> Nothing, life |-> j.life, overlap |-> FALSE])
Pressed == presses < MaxPresses /\ presses' = presses + 1
-----------------------------------------------------------------------------
(* Buttons.  They are handled whatever the state is.                       *)

OpenForm(d, v) ==
    /\ d \in inPlay \cap DOMAIN Forms
    /\ v \in Forms[d].values
    /\ Pressed
    /\ Ask(Forms[d].first, IF Forms[d].key = "" THEN data ELSE With(Forms[d].key, v, data), jobs,
           IF d = "DEPOSIT" THEN Asked(v, 0) ELSE Nothing)
    /\ UNCHANGED jobs
    /\ Quiet

\* Objects whose button some message shows: a product may be gone by now.
Shown(o) == o \in Products => o \in issued

\* Mutant of OpenEdit: the state is set before the database is asked, the key after.
StateFirst(d, o) ==
    /\ d \in inPlay \cap DOMAIN Edits
    /\ o \in Edits[d].objects /\ Shown(o)
    /\ Pressed
    /\ IF Edits[d].late
       THEN /\ Ask(d, data, jobs, Asked(o, 0))
            /\ Suspend(jobs, Job("open", d, With(Edits[d].key, o, Empty), Asked(o, 0)))
       ELSE /\ Ask(d, With(Edits[d].key, o, data), jobs, Asked(o, 0))
            /\ UNCHANGED jobs
    /\ Quiet

\* set_state and update_data together, after a look at the database when it is late.
OpenEdit(d, o) ==
    /\ d \in inPlay \cap DOMAIN Edits
    /\ o \in Edits[d].objects /\ Shown(o)
    /\ Pressed
    /\ IF Edits[d].late
       THEN /\ Suspend(jobs, Job("open", d, With(Edits[d].key, o, Empty), Asked(o, 0)))
            /\ Keep(jobs)
       ELSE /\ Ask(d, With(Edits[d].key, o, data), jobs, Asked(o, 0))
            /\ UNCHANGED jobs
    /\ Quiet

\* The product form's two keyboards look at no state.  The one the form has just shown
\* is free; on an older message it costs a press.
Keyboard(shown) == IF state = "PRODUCT_NAME" /\ shown THEN UNCHANGED presses ELSE Pressed

PickCategory(c) ==
    /\ "PRODUCT" \in inPlay
    /\ c \in categories
    /\ Keyboard("product_name" \in DOMAIN data)
    /\ Goto(state, With("category_id", c, data), jobs)
    /\ UNCHANGED jobs
    /\ Quiet

PickType(t) ==
    /\ "PRODUCT" \in inPlay
    /\ categories # {}
    /\ Keyboard("category_id" \in DOMAIN data)
    /\ Goto(IF t = "FIXED" THEN "PRODUCT_FIXED_PRICE" ELSE "PRODUCT_UNIT_PRICE",
            With("product_type", t, data), jobs)
    /\ UNCHANGED jobs
    /\ Quiet

\* The confirming button of the last previewed message, if the data still has one.
ConfirmBroadcast ==
    /\ "BROADCAST" \in inPlay
    /\ "broadcast_message_id" \in DOMAIN data
    /\ Suspend(jobs, Job("claimed", "BROADCAST", Of("BROADCAST"), Nothing))
    /\ Take(jobs)
    /\ UNCHANGED presses
    /\ Quiet

\* /admin, admin:menu and wallet:menu.
Menu ==
    /\ state # "None" \/ data # Empty
    /\ Clear(jobs)
    /\ UNCHANGED <<jobs, presses>>
    /\ Quiet
-----------------------------------------------------------------------------
(* Messages.  s is the state the message was routed by, ask what was asked *)
(* at that moment.                                                         *)

AnswerStep(s, J) ==
    /\ s \in DOMAIN Steps
    /\ Goto(Steps[s].next, With(Steps[s].key, Given, data), J)
    /\ jobs' = J

AnswerMinQty(s, J) ==
    /\ s = "PRODUCT_MIN_QTY"
    /\ \E q \in 1..MaxQty : Goto("PRODUCT_MAX_QTY", With("min_qty", q, data), J)
    /\ jobs' = J

\* Mutant of AnswerMaxQty: any positive number is accepted.
AnyMaxQty(s, J) ==
    /\ s = "PRODUCT_MAX_QTY"
    /\ \E q \in 1..MaxQty : Goto("PRODUCT_BUTTON_COLUMNS", With("max_qty", q, data), J)
    /\ jobs' = J

AnswerMaxQty(s, J) ==
    /\ s = "PRODUCT_MAX_QTY"
    /\ \E q \in 1..MaxQty :
          /\ "min_qty" \in DOMAIN data => q >= data["min_qty"]
          /\ Goto("PRODUCT_BUTTON_COLUMNS", With("max_qty", q, data), J)
    /\ jobs' = J

AnswerProductName(s, J) ==
    /\ s = "PRODUCT_NAME"
    /\ Goto(state, With("product_name", Given, data), J)
    /\ Suspend(J, Job("look", "PRODUCT", Empty, Nothing))

\* Two searches: nothing is kept, the state goes when the answer is sent.
AnswerSearch(s, J) ==
    /\ s \in {"USER_SEARCH", "QUERY"}
    /\ Keep(J)
    /\ Suspend(J, Job("look", IF s = "QUERY" THEN "SEARCH" ELSE "USERS", Empty, Nothing))

AnswerEdit(s, J, ask) ==
    /\ s \in DOMAIN Edits
    /\ CASE Edits[s].reads = "keeps" -> Keep(J) /\ Suspend(J, Job("store", s, Of(s), ask))
         [] Edits[s].reads = "claims" -> Take(J) /\ Suspend(J, Job("claimed", s, Of(s), ask))
         [] Edits[s].reads = "late" -> Keep(J) /\ Suspend(J, Job("late", s, Empty, ask))

\* The channel is looked up on Telegram and in the database before its name is kept.
AnswerChannelUsername(s, J) ==
    /\ s = "CHANNEL_USERNAME"
    /\ Keep(J)
    /\ Suspend(J, Job("next", "CHANNEL", [channel_username |-> Given], Nothing))

\* The users are counted before the message is remembered.
AnswerBroadcast(s, J) ==
    /\ s = "BROADCAST_MESSAGE"
    /\ Keep(J)
    /\ Suspend(J, Job("next", "BROADCAST", [broadcast_message_id |-> Given], Nothing))

\* Both secrets are deleted from the chat before the form is read.
AnswerPanelPassword(s, J) ==
    /\ s = "VPN_PANEL_PASSWORD"
    /\ Goto(state, With("vpn_panel_password", Given, data), J)
    /\ Suspend(J, Job("late", "VPN_PANEL", Empty, Nothing))

AnswerProviderKey(s, J) ==
    /\ s = "PROVIDER_API_KEY"
    /\ Keep(J)
    /\ Suspend(J, Job("late", "PROVIDER", Empty, Nothing))

\* Mutant of AnswerPanelInbound: the form is cleared after the panel is created.
InboundKept(s, J) ==
    /\ s = "VPN_PANEL_INBOUND_ID"
    /\ Goto(state, With("vpn_panel_inbound_id", Given, data), J)
    /\ Suspend(J, Job("store", "VPN_PANEL", Of("VPN_PANEL"), Nothing))

\* _finalize_vpn_panel_creation takes the data and clears it before the insert.
AnswerPanelInbound(s, J) ==
    /\ s = "VPN_PANEL_INBOUND_ID"
    /\ Take(J)
    /\ Suspend(J, Job("claimed", "VPN_PANEL", Of("VPN_PANEL"), Nothing))

DepositType == IF "deposit_type" \in DOMAIN data THEN data["deposit_type"] ELSE "RIAL"

\* The type is read now; the settings are read before the amount is kept and announced.
AnswerAmount(s, J) ==
    /\ s = "AMOUNT"
    /\ Keep(J)
    /\ \E v \in 1..MaxQty :
          Suspend(J, Job("next", "DEPOSIT",
                         IF DepositType = "TOKEN" THEN [amount |-> v, token_amount |-> v]
                                                  ELSE [amount |-> v],
                         Asked(DepositType, v)))

\* The last answer of a form whose data is cleared some awaits after the row is stored.
Finish ==
    [CATEGORY_BUTTON_COLUMNS |-> "CATEGORY", PRODUCT_BUTTON_COLUMNS |-> "PRODUCT",
     CHANNEL_INVITE_LINK |-> "CHANNEL", COUPON_PERCENT |-> "COUPON",
     PRIZE_CREDIT |-> "TOURNAMENT", TRX_DEPOSIT_AMOUNT |-> "TRONADO", RECEIPT |-> "DEPOSIT"]

\* "This form has expired": the handler clears it instead.
Expired(d) ==
    \/ d = "CATEGORY" /\ "category_name" \notin DOMAIN data
    \/ d = "PRODUCT" /\ ~ {"product_type", "category_id"} \subseteq DOMAIN data
    \/ d = "DEPOSIT" /\ "amount" \notin DOMAIN data
    \/ d = "DEPOSIT" /\ DepositType = "TOKEN" /\ "token_amount" \notin DOMAIN data

FinishForm(s, J, ask) ==
    /\ s \in DOMAIN Finish
    /\ IF Expired(Finish[s]) THEN Clear(J) /\ jobs' = J
       ELSE Keep(J) /\ Suspend(J, Job("store", Finish[s], Of(Finish[s]), ask))

Handle(s, J, ask) ==
    /\ \/ AnswerStep(s, J) \/ AnswerMinQty(s, J) \/ AnswerMaxQty(s, J)
       \/ AnswerProductName(s, J) \/ AnswerSearch(s, J)
       \/ AnswerEdit(s, J, ask)
       \/ AnswerChannelUsername(s, J) \/ AnswerBroadcast(s, J)
       \/ AnswerPanelPassword(s, J) \/ AnswerProviderKey(s, J) \/ AnswerPanelInbound(s, J)
       \/ AnswerAmount(s, J) \/ FinishForm(s, J, ask)
    /\ UNCHANGED presses
    /\ Quiet

\* An admin's message reaches its handler at once.
Message == isAdmin /\ state # "None" /\ Handle(state, jobs, asked)

\* A user's message is routed by the state there is and waits in the middlewares.
Route ==
    /\ ~ isAdmin
    /\ state # "None"
    /\ Keep(jobs)
    /\ Suspend(jobs, Job("routed", state, Empty,
                         IF state \in DOMAIN Edits \cup {"RECEIPT"} THEN asked ELSE Nothing))
    /\ UNCHANGED presses
    /\ Quiet

Deliver(i) ==
    /\ jobs[i].step = "routed"
    /\ Handle(jobs[i].dialog, RemoveAt(jobs, i), jobs[i].asked)
-----------------------------------------------------------------------------
(* The rest of a suspended handler, i its place in jobs.                   *)

Rest(i) == RemoveAt(jobs, i)

FinishOpen(i) ==
    LET j == jobs[i]
        o == j.asked.what
    IN  /\ j.step = "open"
        /\ o \in Products => o \in DOMAIN products
        /\ Ask(j.dialog, Over(j.seen, data), Rest(i), j.asked)
        /\ jobs' = Rest(i)
        /\ Quiet

NextState == [CHANNEL |-> "CHANNEL_INVITE_LINK", BROADCAST |-> "None", DEPOSIT |-> "RECEIPT"]

\* The answer is kept now and the next thing is asked for.
Continue(i) ==
    LET j == jobs[i]
    IN  /\ j.step = "next"
        /\ Ask(NextState[j.dialog], Over(j.seen, data), Rest(i), j.asked)
        /\ jobs' = Rest(i)
        /\ Quiet

\* The channel is registered already: the form ends.
ChannelExists(i) ==
    /\ jobs[i].step = "next"
    /\ jobs[i].dialog = "CHANNEL"
    /\ Clear(Rest(i))
    /\ jobs' = Rest(i)
    /\ Quiet

\* A search ends; a product's name leads to the categories, if there are any.
FinishLook(i) ==
    LET j == jobs[i]
    IN  /\ j.step = "look"
        /\ CASE j.dialog = "SEARCH" -> Goto("None", data, Rest(i))
             [] j.dialog = "USERS" -> Clear(Rest(i))
             [] j.dialog = "PRODUCT" -> IF categories = {} THEN Clear(Rest(i)) ELSE Keep(Rest(i))
        /\ jobs' = Rest(i)
        /\ Quiet

\* The data as it is after the await is taken and cleared; a SANAEI panel has one
\* question more.
ReadLate(i) ==
    LET j == jobs[i]
    IN  /\ j.step = "late"
        /\ IF j.dialog = "VPN_PANEL" /\ "vpn_panel_type" \in DOMAIN data
              /\ data["vpn_panel_type"] = "SANAEI"
           THEN Goto("VPN_PANEL_INBOUND_ID", data, Rest(i)) /\ jobs' = Rest(i)
           ELSE Take(Rest(i)) /\ jobs' = Append(Rest(i), Job("claimed", j.dialog, Of(j.dialog), j.asked))
        /\ Quiet

\* An edit stores its value, or shows the confirmation of a quantity or a coupon,
\* for the object under its key.
StoreEdit(i) ==
    LET j == jobs[i]
        key == Edits[j.dialog].key
    IN  /\ j.step \in {"store", "claimed"}
        /\ j.dialog \in DOMAIN Edits
        /\ key \in DOMAIN j.seen
        /\ j.seen[key] \in Products => j.seen[key] \in DOMAIN products
        /\ Linger(i)
        /\ Stored(j, Asked(j.seen[key], 0), j.asked)
        /\ UNCHANGED <<isAdmin, inPlay, presses, catalogVars>>

\* The keys whose absence is a KeyError.
Needs(d, seen) ==
    CASE d = "PRODUCT" -> {"product_name"} \cup
                          IF seen["product_type"] = "FIXED" THEN {"fixed_price"}
                          ELSE {"unit_price", "min_qty", "max_qty"}
      [] d = "DEPOSIT" -> {"amount"}
      [] OTHER -> Answers(d)

NewProduct(seen) ==
    IF seen["product_type"] = "FIXED" THEN Fixed(seen["category_id"])
    ELSE Variable(seen["category_id"], seen["min_qty"], seen["max_qty"])

\* A deposit's type with its amount, -1 when a token request's tokens are not the
\* ones its amount was computed from.
DepositOf(seen) ==
    LET type == IF "deposit_type" \in DOMAIN seen THEN seen["deposit_type"] ELSE "RIAL"
    IN  Asked(type, IF type = "TOKEN" /\ seen["token_amount"] # seen["amount"] THEN -1
                    ELSE seen["amount"])

\* A form stores its row.
StoreForm(i) ==
    LET j == jobs[i]
    IN  /\ j.step \in {"store", "claimed"}
        /\ j.dialog \in DOMAIN Forms
        /\ Needs(j.dialog, j.seen) \subseteq DOMAIN j.seen
        /\ CASE j.dialog = "PRODUCT" -> CreateProduct(NewProduct(j.seen))
             [] j.dialog = "CATEGORY" -> CreateCategory
             [] OTHER -> UNCHANGED catalogVars
        /\ Linger(i)
        /\ IF j.dialog = "DEPOSIT" THEN Stored(j, DepositOf(j.seen), j.asked)
                                   ELSE Stored(j, Nothing, Nothing)
        /\ UNCHANGED <<isAdmin, inPlay, presses>>

\* After the row the chat is cleared: at the end, or by a handler that catches the
\* failure of one of the awaits before it.
FinishStore(i) ==
    /\ jobs[i].step = "stored"
    /\ Clear(Rest(i))
    /\ jobs' = Rest(i)
    /\ Quiet

\* The two forms that catch every exception, up to the end of their session.
Catching == {"PRODUCT", "CATEGORY"}

\* One of the awaits after the row fails: the row stays, and the form with its answers.
FailStored(i) ==
    LET j == jobs[i]
    IN  /\ j.step = "stored"
        /\ j.dialog \notin Catching
        /\ Pressed
        /\ Keep(Rest(i))
        /\ jobs' = Rest(i)
        /\ wrote' = NoRow
        /\ Lost({<<j.life, j.dialog>>})
        /\ UNCHANGED <<isAdmin, inPlay, catalogVars>>

\* An await before the row fails or finds nothing: a missing key or object, the database,
\* Telegram, a middleware that stops the update.  The two forms that catch every exception
\* clear the chat; three of the user's dialogs clear after some failures only.
Fail(i) ==
    LET j == jobs[i]
    IN  /\ j.step # "stored"
        /\ \/ /\ j.step = "store"
              /\ j.dialog \in Catching \cup {"TRONADO", "QUANTITY", "CODE"}
              /\ Clear(Rest(i))
           \/ /\ ~ (j.step = "store" /\ j.dialog \in Catching)
              /\ Keep(Rest(i))
        /\ jobs' = Rest(i)
        /\ UNCHANGED presses
        /\ Quiet

Resume(i) ==
    \/ Deliver(i) \/ FailStored(i)
    \/ /\ UNCHANGED presses
       /\ \/ FinishOpen(i) \/ Continue(i) \/ ChannelExists(i) \/ FinishLook(i)
          \/ ReadLate(i) \/ StoreEdit(i) \/ StoreForm(i) \/ FinishStore(i)
          \/ Fail(i)

\* The process stops and starts again: the chat's memory and its handlers are gone.
Restart ==
    /\ state # "None" \/ data # Empty \/ jobs # <<>>
    /\ Clear(<<>>)
    /\ jobs' = <<>>
    /\ Pressed
    /\ Quiet

\* Customers order; admins, in this chat or another, delete what nobody uses.
OfficeWork ==
    /\ inPlay \cap ProductDialogs # {}
    /\ \/ Pressed /\ \/ \E p \in Products : PlaceOrder(p) \/ CountOrders(p)
                      \/ \E c \in Categories : CountProducts(c)
       \/ UNCHANGED presses /\ \/ \E p \in Products : DeleteProduct(p)
                                \/ \E c \in Categories : DeleteCategory(c)
    /\ UNCHANGED <<isAdmin, inPlay, chatVars, jobs>>
    /\ NoStore
-----------------------------------------------------------------------------
Init ==
    /\ CatalogInit
    /\ isAdmin \in BOOLEAN
    /\ inPlay \in SUBSET (IF isAdmin THEN AdminDialogs ELSE UserDialogs)
    /\ Cardinality(inPlay) = InPlay
    /\ categories = {} => "PRODUCT" \in inPlay
    /\ state = "None" /\ data = Empty /\ jobs = <<>>
    /\ asked = Nothing /\ wrote = NoRow
    /\ life = 0 /\ storedFrom = {} /\ broken = {} /\ overlap = FALSE
    /\ presses = 0

Next ==
    \/ \E d \in inPlay, v \in {Given, "MARZBAN", "SANAEI", "RIAL", "TOKEN"} : OpenForm(d, v)
    \/ \E d \in inPlay, o \in Products \cup Configs \cup SettingKeys : OpenEdit(d, o)
    \/ \E c \in Categories : PickCategory(c)
    \/ \E t \in {"FIXED", "VARIABLE_QUANTITY"} : PickType(t)
    \/ ConfirmBroadcast \/ Menu
    \/ Message \/ Route
    \/ \E i \in DOMAIN jobs : Resume(i)
    \/ Restart \/ OfficeWork

Spec == Init /\ [][Next]_vars
-----------------------------------------------------------------------------
\* The chat's variables have their types, and the catalogue its forms and deletes
\* build can be priced and keeps what orders and products refer to.
DialogsTypeOK ==
    /\ CatalogOK
    /\ inPlay \subseteq AllDialogs
    /\ state \in {"None", "PRODUCT_NAME", "PRODUCT_MIN_QTY", "PRODUCT_MAX_QTY", "CHANNEL_USERNAME",
                 "VPN_PANEL_PASSWORD", "VPN_PANEL_INBOUND_ID", "PROVIDER_API_KEY", "AMOUNT",
                 "BROADCAST_MESSAGE", "USER_SEARCH", "QUERY"}
               \cup DOMAIN Edits \cup DOMAIN Steps \cup DOMAIN Finish
    /\ Len(jobs) <= MaxJobs
    /\ presses \in 0..MaxPresses
    /\ overlap \in BOOLEAN /\ isAdmin \in BOOLEAN
    /\ life \in Nat

\* The dialogs that let go of their answers before they store them.
Claiming == {"PRODUCT_DISCOUNT_PERCENT", "PROVIDER_EDIT_API_URL", "PROVIDER_EDIT_API_KEY",
             "VPN_PANEL", "PROVIDER", "BROADCAST"}

\* The dialogs where an answer sent while another update of the chat is being handled
\* may go to what that update asked about.
Mixing == {"PROVIDER_EDIT_API_KEY", "DEPOSIT", "QUANTITY", "CODE"}

\* An answer is stored for the object its prompt named: the product, setting or
\* provider of the edit, the type and the amount a deposit was announced with, although
\* the dialogs of a chat share their data, start on top of each other and are abandoned.
\* The exception needs two updates of the chat in flight at once, and one of Mixing.
AnswersGoWhereAsked ==
    wrote.got = wrote.asked \/ (wrote.overlap /\ wrote.dialog \in Mixing)

\* The answers of a form make one row.  A second comes only where updates of the chat
\* overlapped, as when the last answer is sent again while the first is being handled, or
\* after a failure between the row and the clearing of the form; never from such a
\* failure in the two forms that catch it, and never at all in the dialogs that take
\* their answers away before they store them.
OncePerForm ==
    wrote.again =>
       /\ wrote.dialog \notin Claiming
       /\ wrote.overlap \/ (wrote.broken /\ wrote.dialog \notin Catching)
=============================================================================
