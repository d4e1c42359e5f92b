--------------------------- MODULE DialogsProofs ---------------------------
(***************************************************************************)
(* Proofs about Dialogs, for any products, categories, providers and       *)
(* settings, any number of dialogs in one chat and any number of handlers  *)
(* suspended at once: the catalogue stays sound, an answer goes where it   *)
(* was asked for, and a form makes one row.                                *)
(*                                                                         *)
(* The invariant says of the chat what its prompt promises (ChatOK), and   *)
(* of each suspended handler what it carries and how much of it can still  *)
(* be true of the chat (JobOK).  While nothing has overlapped, a handler   *)
(* is as good as the chat it came from (Fresh); whatever remains suspended *)
(* while another update is handled has overlapped.                         *)
(***************************************************************************)
EXTENDS Dialogs, SequenceTheorems, TLAPS

States ==
    {"None", "PRODUCT_NAME", "PRODUCT_MIN_QTY", "PRODUCT_MAX_QTY", "CHANNEL_USERNAME",
     "VPN_PANEL_PASSWORD", "VPN_PANEL_INBOUND_ID", "PROVIDER_API_KEY", "AMOUNT",
     "BROADCAST_MESSAGE", "USER_SEARCH", "QUERY"}
        \cup DOMAIN Edits \cup DOMAIN Steps \cup DOMAIN Finish

\* The states of an ordinary user's dialogs.
UserStates == {"QUANTITY", "CODE", "AMOUNT", "RECEIPT", "TRX_DEPOSIT_AMOUNT", "QUERY"}

\* The type of the deposit in the data f, and whether f holds what the prompt announced.
TypeIn(f) == IF "deposit_type" \in DOMAIN f THEN f["deposit_type"] ELSE "RIAL"

Announced(f, what) ==
    /\ "amount" \in DOMAIN f
    /\ what = Asked(TypeIn(f), f["amount"])
    /\ TypeIn(f) = "TOKEN" => "token_amount" \in DOMAIN f /\ f["token_amount"] = f["amount"]

\* The product that the data f describes can be priced.
Sellable(f) ==
    \/ "product_type" \in DOMAIN f /\ f["product_type"] = "FIXED"
    \/ {"min_qty", "max_qty"} \subseteq DOMAIN f =>
          f["min_qty"] \in 1..MaxQty /\ f["max_qty"] \in 1..MaxQty /\ f["min_qty"] <= f["max_qty"]

\* What the chat's state says of its data and of its prompt.
ChatOK ==
    /\ state \in States
    /\ isAdmin \/ state \in UserStates \cup {"None"}
    /\ state \in DOMAIN Edits =>
          /\ Edits[state].key \in DOMAIN data
          /\ asked = Asked(data[Edits[state].key], 0)
    /\ ~ overlap /\ state = "RECEIPT" => Announced(data, asked)
    /\ \A k \in {"min_qty", "max_qty"} : k \in DOMAIN data => data[k] \in 1..MaxQty
    /\ state = "PRODUCT_FIXED_PRICE" =>
          "product_type" \in DOMAIN data /\ data["product_type"] = "FIXED"
    /\ state = "PRODUCT_BUTTON_COLUMNS" => Sellable(data)

\* The handler of an edit carries the object its prompt named, if it carries one.
Honest(j) ==
    Edits[j.dialog].key \in DOMAIN j.seen => Asked(j.seen[Edits[j.dialog].key], 0) = j.asked

\* What a suspended handler carries, whatever has happened since.
JobTyped(j) ==
    /\ j.step = "routed" => ~ isAdmin /\ j.dialog \in UserStates
    /\ j.step = "open" =>
          /\ j.dialog \in DOMAIN Edits
          /\ j.asked = Asked(j.asked.what, 0)
          /\ j.seen = With(Edits[j.dialog].key, j.asked.what, Empty)
          /\ isAdmin \/ j.dialog \in UserStates
    /\ j.step = "next" =>
          /\ j.dialog \in {"CHANNEL", "BROADCAST", "DEPOSIT"}
          /\ DOMAIN j.seen \subseteq {"channel_username", "broadcast_message_id", "amount",
                                      "token_amount"}
          /\ isAdmin \/ j.dialog = "DEPOSIT"
    /\ j.step = "look" => j.dialog \in {"PRODUCT", "USERS", "SEARCH"}
    /\ j.step = "late" => isAdmin /\ j.dialog \in {"VPN_PANEL", "PROVIDER", "PROVIDER_EDIT_API_KEY"}
    /\ j.step = "store" =>
          /\ j.dialog \notin Claiming
          /\ j.dialog \in DOMAIN Edits \ Mixing => Honest(j)
          /\ j.dialog = "PRODUCT" => Sellable(j.seen)
    /\ j.step = "claimed" =>
          /\ j.dialog \in Claiming
          /\ j.dialog \in DOMAIN Edits => Honest(j) \/ (j.overlap /\ j.dialog \in Mixing)

\* What it carries is still true of the chat.
Current(j) ==
    /\ j.step = "routed" =>
          /\ state = j.dialog
          /\ j.dialog \in DOMAIN Edits \cup {"RECEIPT"} => j.asked = asked
    /\ j.step = "late" /\ j.dialog \in DOMAIN Edits => state = j.dialog /\ j.asked = asked
    /\ j.step = "next" /\ j.dialog = "DEPOSIT" => Announced(Over(j.seen, data), j.asked)
    /\ j.step = "store" /\ j.dialog \in DOMAIN Edits => Honest(j)
    /\ j.step = "store" /\ j.dialog = "DEPOSIT" => Announced(j.seen, j.asked)

\* So it is, as long as nothing has overlapped.
Fresh(j) == ~ j.overlap /\ j.life = life /\ Current(j)

JobOK(j) ==
    /\ JobTyped(j)
    /\ j.life \in 0..life
    /\ j.step = "claimed" => j.life < life /\ <<j.life, j.dialog>> \notin storedFrom
    /\ j.step # "claimed" /\ ~ overlap => Fresh(j)

\* The sequences whose elements are suspended handlers, each at most once.
Range1(s) == {s[k] : k \in DOMAIN s}

JobsOK ==
    /\ jobs \in Seq(Range1(jobs))
    /\ Len(jobs) <= MaxJobs
    /\ \A k \in DOMAIN jobs : JobOK(jobs[k])

\* No two handlers took the same answers.
ClaimsApart ==
    \A k, l \in DOMAIN jobs :
        k # l /\ jobs[k].step = "claimed" /\ jobs[l].step = "claimed" => jobs[k].life # jobs[l].life

\* The one suspended handler has stored e and is about to clear the chat.
Lingers(e) ==
    Len(jobs) = 1 /\ jobs[1].step = "stored" /\ e = <<jobs[1].life, jobs[1].dialog>>

\* What was stored has been cleared, or was not taken first; then it is about to be
\* cleared, or stayed after a failure, as long as nothing has overlapped.
StoredOK ==
    \A e \in storedFrom :
        /\ e[1] \in 0..life
        /\ e[1] < life \/ (e[2] \notin Claiming /\ (overlap \/ e \in broken \/ Lingers(e)))

\* No failure leaves the answers of a form that catches it.
BrokenOK == \A e \in broken : e[2] \notin Catching

Scalars ==
    /\ isAdmin \in BOOLEAN /\ overlap \in BOOLEAN /\ life \in Nat
    /\ presses \in 0..MaxPresses
    /\ inPlay \subseteq IF isAdmin THEN AdminDialogs ELSE UserDialogs

DialogsInv ==
    /\ Scalars
    /\ CatalogOK
    /\ ChatOK
    /\ JobsOK
    /\ ClaimsApart
    /\ StoredOK
    /\ BrokenOK
    /\ AnswersGoWhereAsked
    /\ OncePerForm
-----------------------------------------------------------------------------
(* The tables of dialogs.                                                  *)

EditNames == {"NEW_PRICE", "NEW_TOKEN_PRICE", "PRODUCT_VPN_LIMIT", "PRODUCT_VPN_DURATION",
              "PRODUCT_DISCOUNT_PERCENT", "SETTING_VALUE", "PROVIDER_EDIT_API_URL",
              "PROVIDER_EDIT_API_KEY", "QUANTITY", "CODE"}

EditKeys == {"product_id", "discount_product_id", "setting_key", "edit_id", "coupon_product_id"}

\* The keys whose values some part of the invariant depends on.
Special == EditKeys \cup {"deposit_type", "amount", "token_amount", "product_type", "min_qty", "max_qty"}

\* The states that promise nothing about the data.
PlainStates == States \ (EditNames \cup {"RECEIPT", "PRODUCT_FIXED_PRICE", "PRODUCT_BUTTON_COLUMNS"})

LEMMA EditTable ==
    /\ DOMAIN Edits = EditNames
    /\ \A d \in EditNames :
          /\ Edits[d].key \in EditKeys
          /\ Edits[d].reads \in {"keeps", "claims", "late"}
          /\ Edits[d].reads = "keeps" => d \notin Claiming
          /\ Edits[d].reads = "claims" => d \in Claiming \ Mixing
          /\ Edits[d].reads = "late" => d = "PROVIDER_EDIT_API_KEY"
          /\ d \in UserStates => Edits[d].reads = "keeps"
          /\ d \in UserStates => d \in Mixing
          /\ d \in UserDialogs => d \in UserStates
<1>1. DOMAIN Edits = EditNames
  BY DEF Edits, EditNames
<1> SUFFICES ASSUME NEW d \in EditNames
             PROVE  /\ Edits[d].key \in EditKeys
                    /\ Edits[d].reads \in {"keeps", "claims", "late"}
                    /\ Edits[d].reads = "keeps" => d \notin Claiming
                    /\ Edits[d].reads = "claims" => d \in Claiming \ Mixing
                    /\ Edits[d].reads = "late" => d = "PROVIDER_EDIT_API_KEY"
                    /\ d \in UserStates => Edits[d].reads = "keeps"
                    /\ d \in UserStates => d \in Mixing
                    /\ d \in UserDialogs => d \in UserStates
  BY <1>1
<1>2. Edits[d].key \in EditKeys
  BY DEF EditNames, EditKeys, Edits, Edit, PriceEdit, TokenPriceEdit, VpnLimitEdit, VpnDurationEdit,
         DiscountEdit, SettingEdit, ApiUrlEdit, ApiKeyEdit, QuantityEdit, CouponCodeEdit
<1>3. Edits[d].reads = CASE d \in {"PRODUCT_DISCOUNT_PERCENT", "PROVIDER_EDIT_API_URL"} -> "claims"
                         [] d = "PROVIDER_EDIT_API_KEY" -> "late"
                         [] OTHER -> "keeps"
  BY DEF EditNames, Edits, Edit, PriceEdit, TokenPriceEdit, VpnLimitEdit, VpnDurationEdit,
         DiscountEdit, SettingEdit, ApiUrlEdit, ApiKeyEdit, QuantityEdit, CouponCodeEdit
<1> QED
  BY <1>2, <1>3 DEF EditNames, Claiming, Mixing, UserStates, UserDialogs

StepNames == {"CATEGORY_NAME", "CATEGORY_ICON", "PRODUCT_FIXED_PRICE", "PRODUCT_UNIT_PRICE",
              "CHANNEL_TITLE", "VPN_PANEL_NAME", "VPN_PANEL_URL", "VPN_PANEL_USERNAME",
              "PROVIDER_API_URL", "TITLE", "METRIC", "ENTRY_FEE", "DURATION", "PRIZE_DESCRIPTION"}

FinishNames == {"CATEGORY_BUTTON_COLUMNS", "PRODUCT_BUTTON_COLUMNS", "CHANNEL_INVITE_LINK",
                "COUPON_PERCENT", "PRIZE_CREDIT", "TRX_DEPOSIT_AMOUNT", "RECEIPT"}

LEMMA FinishTable ==
    /\ DOMAIN Finish = FinishNames
    /\ \A s \in FinishNames :
          /\ Finish[s] \in {"CATEGORY", "PRODUCT", "CHANNEL", "COUPON", "TOURNAMENT", "TRONADO", "DEPOSIT"}
          /\ Finish[s] = "PRODUCT" => s = "PRODUCT_BUTTON_COLUMNS"
          /\ Finish[s] = "DEPOSIT" => s = "RECEIPT"
<1>1. DOMAIN Finish = FinishNames
  BY DEF Finish, FinishNames
<1>2. \A s \in FinishNames :
          /\ Finish[s] \in {"CATEGORY", "PRODUCT", "CHANNEL", "COUPON", "TOURNAMENT", "TRONADO", "DEPOSIT"}
          /\ Finish[s] = "PRODUCT" => s = "PRODUCT_BUTTON_COLUMNS"
          /\ Finish[s] = "DEPOSIT" => s = "RECEIPT"
  BY DEF Finish, FinishNames
<1> QED
  BY <1>1, <1>2

LEMMA StepTable ==
    /\ DOMAIN Steps = StepNames
    /\ \A s \in StepNames :
          /\ Steps[s].key \notin Special
          /\ Steps[s].next \in {"CATEGORY_ICON", "CATEGORY_BUTTON_COLUMNS", "PRODUCT_BUTTON_COLUMNS",
                "PRODUCT_MIN_QTY", "CHANNEL_USERNAME", "VPN_PANEL_URL", "VPN_PANEL_USERNAME",
                "VPN_PANEL_PASSWORD", "PROVIDER_API_KEY", "METRIC", "ENTRY_FEE", "DURATION",
                "PRIZE_DESCRIPTION", "PRIZE_CREDIT"}
          /\ Steps[s].next = "PRODUCT_BUTTON_COLUMNS" => s = "PRODUCT_FIXED_PRICE"
<1>1. DOMAIN CategorySteps = {"CATEGORY_NAME", "CATEGORY_ICON"}
  BY DEF CategorySteps
<1>2. DOMAIN ProductSteps = {"PRODUCT_FIXED_PRICE", "PRODUCT_UNIT_PRICE"}
  BY DEF ProductSteps
<1>3. DOMAIN ChannelSteps = {"CHANNEL_TITLE"}
  BY DEF ChannelSteps
<1>4. DOMAIN PanelSteps = {"VPN_PANEL_NAME", "VPN_PANEL_URL", "VPN_PANEL_USERNAME"}
  BY DEF PanelSteps
<1>5. DOMAIN ProviderSteps = {"PROVIDER_API_URL"}
  BY DEF ProviderSteps
<1>6. DOMAIN TournamentSteps = {"TITLE", "METRIC", "ENTRY_FEE", "DURATION", "PRIZE_DESCRIPTION"}
  BY DEF TournamentSteps
<1>7. DOMAIN Steps = StepNames
  BY <1>1, <1>2, <1>3, <1>4, <1>5, <1>6 DEF Steps, Over, StepNames
<1>8. ASSUME NEW s \in StepNames
      PROVE  Steps[s] = CASE s \in DOMAIN CategorySteps -> CategorySteps[s]
                          [] s \in DOMAIN ProductSteps -> ProductSteps[s]
                          [] s \in DOMAIN ChannelSteps -> ChannelSteps[s]
                          [] s \in DOMAIN PanelSteps -> PanelSteps[s]
                          [] s \in DOMAIN ProviderSteps -> ProviderSteps[s]
                          [] OTHER -> TournamentSteps[s]
  BY <1>1, <1>2, <1>3, <1>4, <1>5, <1>6 DEF Steps, Over, StepNames
<1>9. ASSUME NEW s \in StepNames
      PROVE  /\ Steps[s].key \notin Special
             /\ Steps[s].next \in {"CATEGORY_ICON", "CATEGORY_BUTTON_COLUMNS", "PRODUCT_BUTTON_COLUMNS",
                   "PRODUCT_MIN_QTY", "CHANNEL_USERNAME", "VPN_PANEL_URL", "VPN_PANEL_USERNAME",
                   "VPN_PANEL_PASSWORD", "PROVIDER_API_KEY", "METRIC", "ENTRY_FEE", "DURATION",
                   "PRIZE_DESCRIPTION", "PRIZE_CREDIT"}
             /\ Steps[s].next = "PRODUCT_BUTTON_COLUMNS" => s = "PRODUCT_FIXED_PRICE"
  BY <1>1, <1>2, <1>3, <1>4, <1>5, <1>6, <1>8
     DEF StepNames, CategorySteps, ProductSteps, ChannelSteps, PanelSteps, ProviderSteps,
         TournamentSteps, Step, Special, EditKeys
<1> QED
  BY <1>7, <1>9

FormNames == {"PRODUCT", "CATEGORY", "CHANNEL", "VPN_PANEL", "PROVIDER", "COUPON", "BROADCAST",
              "USERS", "TOURNAMENT", "DEPOSIT", "TRONADO", "SEARCH"}

LEMMA FormTable ==
    /\ DOMAIN Forms = FormNames
    /\ \A d \in FormNames :
          /\ Forms[d].first \in PlainStates
          /\ d \in UserDialogs => Forms[d].first \in UserStates
          /\ Forms[d].key \in {"", "vpn_panel_type", "provider_type", "deposit_type"}
<1>1. DOMAIN Forms = FormNames
  BY DEF Forms, FormNames
<1> SUFFICES ASSUME NEW d \in FormNames
             PROVE  /\ Forms[d].first \in PlainStates
                    /\ d \in UserDialogs => Forms[d].first \in UserStates
                    /\ Forms[d].key \in {"", "vpn_panel_type", "provider_type", "deposit_type"}
  BY <1>1
<1>2. /\ Forms["PRODUCT"].first = "PRODUCT_NAME"
      /\ Forms["CATEGORY"].first = "CATEGORY_NAME"
      /\ Forms["CHANNEL"].first = "CHANNEL_TITLE"
      /\ Forms["VPN_PANEL"].first = "VPN_PANEL_NAME"
      /\ Forms["PROVIDER"].first = "PROVIDER_API_URL"
      /\ Forms["COUPON"].first = "COUPON_PERCENT"
      /\ Forms["BROADCAST"].first = "BROADCAST_MESSAGE"
      /\ Forms["USERS"].first = "USER_SEARCH"
      /\ Forms["TOURNAMENT"].first = "TITLE"
      /\ Forms["DEPOSIT"].first = "AMOUNT"
      /\ Forms["TRONADO"].first = "TRX_DEPOSIT_AMOUNT"
      /\ Forms["SEARCH"].first = "QUERY"
  BY DEF Forms, Opener
<1>3. /\ Forms["PRODUCT"].key = ""
      /\ Forms["CATEGORY"].key = ""
      /\ Forms["CHANNEL"].key = ""
      /\ Forms["VPN_PANEL"].key = "vpn_panel_type"
      /\ Forms["PROVIDER"].key = "provider_type"
      /\ Forms["COUPON"].key = ""
      /\ Forms["BROADCAST"].key = ""
      /\ Forms["USERS"].key = ""
      /\ Forms["TOURNAMENT"].key = ""
      /\ Forms["DEPOSIT"].key = "deposit_type"
      /\ Forms["TRONADO"].key = ""
      /\ Forms["SEARCH"].key = ""
  BY DEF Forms, Opener
<1>4. Forms[d].first \in PlainStates
  <2>1. Forms[d].first \in {"PRODUCT_NAME", "CATEGORY_NAME", "CHANNEL_TITLE", "VPN_PANEL_NAME",
           "PROVIDER_API_URL", "COUPON_PERCENT", "BROADCAST_MESSAGE", "USER_SEARCH", "TITLE",
           "AMOUNT", "TRX_DEPOSIT_AMOUNT", "QUERY"}
    BY <1>2 DEF FormNames
  <2> QED
    BY <2>1, EditTable, StepTable, FinishTable
       DEF PlainStates, States, EditNames, StepNames, FinishNames
<1>5. d \in UserDialogs => Forms[d].first \in UserStates
  BY <1>2 DEF FormNames, UserDialogs, UserStates
<1>6. Forms[d].key \in {"", "vpn_panel_type", "provider_type", "deposit_type"}
  BY <1>3 DEF FormNames
<1> QED
  BY <1>4, <1>5, <1>6

LEMMA StatesAre ==
    /\ States = PlainStates \cup EditNames \cup {"RECEIPT", "PRODUCT_FIXED_PRICE", "PRODUCT_BUTTON_COLUMNS"}
    /\ PlainStates \cap EditNames = {}
    /\ {"None", "PRODUCT_NAME", "PRODUCT_UNIT_PRICE", "PRODUCT_MIN_QTY", "PRODUCT_MAX_QTY",
        "VPN_PANEL_INBOUND_ID", "CHANNEL_INVITE_LINK", "CATEGORY_ICON", "CATEGORY_BUTTON_COLUMNS",
        "CHANNEL_USERNAME", "VPN_PANEL_URL", "VPN_PANEL_USERNAME", "VPN_PANEL_PASSWORD",
        "PROVIDER_API_KEY", "METRIC", "ENTRY_FEE", "DURATION", "PRIZE_DESCRIPTION",
        "PRIZE_CREDIT"} \subseteq PlainStates
BY EditTable, StepTable, FinishTable DEF PlainStates, States, EditNames, StepNames, FinishNames
-----------------------------------------------------------------------------
(* Functions with an entry more.                                           *)

LEMMA WithOne ==
    ASSUME NEW k, NEW v, NEW f
    PROVE  /\ DOMAIN With(k, v, f) = {k} \cup DOMAIN f
           /\ With(k, v, f)[k] = v
           /\ \A x \in DOMAIN f : x # k => With(k, v, f)[x] = f[x]
BY DEF With, Over

LEMMA OverBoth ==
    ASSUME NEW f, NEW g
    PROVE  /\ DOMAIN Over(f, g) = DOMAIN f \cup DOMAIN g
           /\ \A x \in DOMAIN f : Over(f, g)[x] = f[x]
           /\ \A x \in DOMAIN g : x \notin DOMAIN f => Over(f, g)[x] = g[x]
BY DEF Over

LEMMA EmptyHasNothing == DOMAIN Empty = {}
BY DEF Empty

LEMMA SingleEntry ==
    ASSUME NEW k, NEW v
    PROVE  DOMAIN With(k, v, Empty) = {k} /\ With(k, v, Empty)[k] = v
BY DEF With, Over, Empty

\* f and g agree on the keys of S.
SameOn(S, f, g) ==
    \A k \in S : /\ k \in DOMAIN f <=> k \in DOMAIN g
                 /\ k \in DOMAIN f => f[k] = g[k]

LEMMA WithElsewhere ==
    ASSUME NEW S, NEW k, k \notin S, NEW v, NEW f
    PROVE  SameOn(S, f, With(k, v, f))
BY DEF SameOn, With, Over

LEMMA OfIsPart ==
    ASSUME NEW d
    PROVE  SameOn(Answers(d), data, Of(d))
BY DEF SameOn, Of

LEMMA SameAnnounced ==
    ASSUME NEW S, {"deposit_type", "amount", "token_amount"} \subseteq S,
           NEW f, NEW g, SameOn(S, f, g), NEW what, Announced(f, what)
    PROVE  Announced(g, what)
<1>1. TypeIn(g) = TypeIn(f)
  BY DEF SameOn, TypeIn
<1> QED
  BY <1>1 DEF SameOn, Announced

LEMMA SameSellable ==
    ASSUME NEW S, {"product_type", "min_qty", "max_qty"} \subseteq S,
           NEW f, NEW g, SameOn(S, f, g), Sellable(f)
    PROVE  Sellable(g)
BY DEF SameOn, Sellable
-----------------------------------------------------------------------------
(* The handlers in flight, but one.                                        *)

LEMMA RemoveOne ==
    ASSUME NEW S, NEW s \in Seq(S), NEW i \in DOMAIN s
    PROVE  /\ RemoveAt(s, i) \in Seq(S)
           /\ Len(RemoveAt(s, i)) = Len(s) - 1
           /\ \A k \in DOMAIN RemoveAt(s, i) :
                 RemoveAt(s, i)[k] = IF k < i THEN s[k] ELSE s[k + 1]
<1>1. /\ Len(s) \in Nat /\ DOMAIN s = 1..Len(s) /\ i \in 1..Len(s)
  BY LenProperties
<1> DEFINE a == SubSeq(s, 1, i - 1)
           b == SubSeq(s, i + 1, Len(s))
<1>2. /\ a \in Seq(S) /\ Len(a) = i - 1
      /\ \A k \in 1..(i - 1) : a[k] = s[k]
  BY <1>1
<1>3. /\ b \in Seq(S) /\ Len(b) = Len(s) - i
      /\ \A k \in 1..(Len(s) - i) : b[k] = s[i + k]
  BY <1>1
<1>4. RemoveAt(s, i) = a \o b
  BY DEF RemoveAt
<1> HIDE DEF a, b
<1>5. /\ a \o b \in Seq(S) /\ Len(a \o b) = Len(s) - 1
      /\ \A k \in 1..(Len(s) - 1) : (a \o b)[k] = IF k <= i - 1 THEN a[k] ELSE b[k - (i - 1)]
  <2>1. /\ a \o b \in Seq(S) /\ Len(a \o b) = Len(a) + Len(b)
        /\ \A k \in 1..(Len(a) + Len(b)) : (a \o b)[k] = IF k <= Len(a) THEN a[k] ELSE b[k - Len(a)]
    BY <1>2, <1>3, ConcatProperties
  <2>2. Len(a) + Len(b) = Len(s) - 1
    BY <1>1, <1>2, <1>3
  <2> QED
    BY <2>1, <2>2, <1>2
<1>6. DOMAIN (a \o b) = 1..(Len(s) - 1)
  BY <1>5, LenProperties
<1>7. ASSUME NEW k \in 1..(Len(s) - 1)
      PROVE  (a \o b)[k] = IF k < i THEN s[k] ELSE s[k + 1]
  <2>1. CASE k < i
    BY <2>1, <1>1, <1>2, <1>5
  <2>2. CASE ~ (k < i)
    <3>1. k - (i - 1) \in 1..(Len(s) - i) /\ i + (k - (i - 1)) = k + 1
      BY <2>2, <1>1
    <3> QED
      <4>1. b[k - (i - 1)] = s[i + (k - (i - 1))]
        BY <3>1, <1>3
      <4>2. ~ (k <= i - 1)
        BY <2>2, <1>1
      <4> QED
        BY <4>1, <4>2, <2>2, <3>1, <1>5
  <2> QED
    BY <2>1, <2>2
<1> QED
  BY <1>4, <1>5, <1>6, <1>7

\* J are some of the suspended handlers, each once.
Part(J) ==
    /\ J \in Seq(Range1(jobs))
    /\ Len(J) <= Len(jobs)
    /\ \A k \in DOMAIN J : \E m \in DOMAIN jobs : J[k] = jobs[m]
    /\ \A k, l \in DOMAIN J : k # l =>
          \E m, n \in DOMAIN jobs : m # n /\ J[k] = jobs[m] /\ J[l] = jobs[n]

LEMMA WholeIsPart ==
    ASSUME JobsOK
    PROVE  Part(jobs)
BY LenProperties DEF JobsOK, Part

LEMMA NoneIsPart ==
    ASSUME JobsOK
    PROVE  Part(<<>>)
<1>1. <<>> \in Seq(Range1(jobs)) /\ Len(<<>>) = 0 /\ DOMAIN <<>> = {}
  OBVIOUS
<1>2. Len(jobs) \in Nat
  BY LenProperties DEF JobsOK
<1> QED
  BY <1>1, <1>2 DEF Part

LEMMA RestIsPart ==
    ASSUME JobsOK, NEW i \in DOMAIN jobs
    PROVE  /\ Part(Rest(i))
           /\ Len(Rest(i)) = Len(jobs) - 1
           /\ \A k \in DOMAIN Rest(i) : \E m \in DOMAIN jobs : m # i /\ Rest(i)[k] = jobs[m]
<1> DEFINE from(k) == IF k < i THEN k ELSE k + 1
<1>1. /\ Rest(i) \in Seq(Range1(jobs))
      /\ Len(Rest(i)) = Len(jobs) - 1
      /\ \A k \in DOMAIN Rest(i) : Rest(i)[k] = IF k < i THEN jobs[k] ELSE jobs[k + 1]
  BY RemoveOne DEF JobsOK, Rest
<1>2. Len(jobs) \in Nat /\ DOMAIN jobs = 1..Len(jobs) /\ DOMAIN Rest(i) = 1..(Len(jobs) - 1)
  BY <1>1, LenProperties DEF JobsOK
<1>3. \A k \in DOMAIN Rest(i) :
         /\ from(k) \in DOMAIN jobs /\ from(k) # i
         /\ Rest(i)[k] = jobs[from(k)]
  BY <1>1, <1>2
<1>4. \A k, l \in DOMAIN Rest(i) : k # l => from(k) # from(l)
  BY <1>2
<1> HIDE DEF from
<1>5. \A k \in DOMAIN Rest(i) : \E m \in DOMAIN jobs : m # i /\ Rest(i)[k] = jobs[m]
  BY <1>3
<1>6. \A k, l \in DOMAIN Rest(i) : k # l =>
         \E m, n \in DOMAIN jobs : m # n /\ Rest(i)[k] = jobs[m] /\ Rest(i)[l] = jobs[n]
  BY <1>3, <1>4
<1> QED
  BY <1>1, <1>2, <1>5, <1>6 DEF Part
-----------------------------------------------------------------------------
(* The suspended handlers after a step.                                    *)

\* If J is empty, the handlers with a row there were are those of more.
Left(J, more) ==
    J = <<>> => \A k \in DOMAIN jobs :
                    jobs[k].step = "stored" => <<jobs[k].life, jobs[k].dialog>> \in more

LEMMA LeftInRest ==
    ASSUME JobsOK, NEW i \in DOMAIN jobs, NEW more,
           jobs[i].step = "stored" => <<jobs[i].life, jobs[i].dialog>> \in more
    PROVE  Left(Rest(i), more)
<1>1. SUFFICES ASSUME Rest(i) = <<>>, NEW k \in DOMAIN jobs, jobs[k].step = "stored"
               PROVE  <<jobs[k].life, jobs[k].dialog>> \in more
  BY DEF Left
<1>2. Len(jobs) - 1 = 0 /\ Len(jobs) \in Nat /\ DOMAIN jobs = 1..Len(jobs)
  <2>1. Len(Rest(i)) = Len(jobs) - 1
    BY RestIsPart
  <2>2. Len(<<>>) = 0
    OBVIOUS
  <2>3. Len(jobs) \in Nat /\ DOMAIN jobs = 1..Len(jobs)
    BY LenProperties DEF JobsOK
  <2> QED
    BY <2>1, <2>2, <2>3, <1>1
<1>3. k = i
  BY <1>2
<1> QED
  BY <1>1, <1>3

\* What a step of a handler, with the others J in flight, does to life and overlap.
Moved(J) ==
    \/ life' = life /\ overlap' = (overlap \/ J # <<>>)
    \/ life' = life + 1 /\ overlap' = (J # <<>>)
    \/ life' = 0 /\ overlap' = FALSE /\ J = <<>> /\ jobs' = <<>> /\ data' = Empty

\* A handler that was suspended before a step and after it has overlapped with it.
LEMMA Survives ==
    ASSUME NEW j, JobOK(j), life \in Nat, isAdmin' = isAdmin,
           life' = life \/ life' = life + 1, overlap',
           j.step = "claimed" => <<j.life, j.dialog>> \notin storedFrom'
    PROVE  JobOK(j)'
<1>1. JobTyped(j)'
  BY DEF JobOK, JobTyped, Honest, Sellable, Claiming, Mixing
<1>2. j.life \in 0..life' /\ (j.step = "claimed" => j.life < life')
  BY DEF JobOK
<1> QED
  BY <1>1, <1>2 DEF JobOK

LEMMA JobsAfter ==
    ASSUME JobsOK, ClaimsApart, life \in Nat, isAdmin' = isAdmin,
           NEW J, Part(J), Moved(J),
           \A k \in DOMAIN J : J[k].step = "claimed" => <<J[k].life, J[k].dialog>> \notin storedFrom',
           \/ jobs' = J
           \/ \E n : /\ jobs' = Append(J, n)
                     /\ Len(J) < MaxJobs
                     /\ JobOK(n)'
                     /\ n.step = "claimed" => n.life = life
    PROVE  JobsOK' /\ ClaimsApart'
<1>1. /\ J \in Seq(Range1(jobs)) /\ Len(J) \in Nat /\ DOMAIN J = 1..Len(J)
      /\ Len(J) <= Len(jobs) /\ Len(jobs) \in Nat /\ MaxJobs \in Nat
  BY LenProperties, DialogsAssumption DEF Part, JobsOK
<1>2. ASSUME NEW k \in DOMAIN J
      PROVE  /\ JobOK(J[k])
             /\ JobOK(J[k])'
  <2>1. JobOK(J[k])
    BY DEF Part, JobsOK
  <2>2. J # <<>>
    BY <1>1
  <2>3. overlap' /\ (life' = life \/ life' = life + 1)
    BY <2>2 DEF Moved
  <2>4. \A j : /\ JobOK(j)
               /\ j.step = "claimed" => <<j.life, j.dialog>> \notin storedFrom'
               => JobOK(j)'
    BY <2>3, Survives
  <2> QED
    BY <2>1, <2>4
<1>3. \A k, l \in DOMAIN J :
         k # l /\ J[k].step = "claimed" /\ J[l].step = "claimed" => J[k].life # J[l].life
  BY DEF Part, ClaimsApart
<1>4. CASE jobs' = J
  <2>1. J \in Seq(Range1(J))
    <3>1. \A k \in 1..Len(J) : J[k] \in Range1(J)
      BY <1>1 DEF Range1
    <3> QED
      BY <3>1, <1>1, IsASeq
  <2>2. (jobs \in Seq(Range1(jobs)))'
    BY <2>1, <1>4 DEF Range1
  <2> QED
    BY <2>2, <1>1, <1>2, <1>3, <1>4 DEF JobsOK, ClaimsApart
<1>5. ASSUME NEW n, jobs' = Append(J, n), Len(J) < MaxJobs, JobOK(n)',
             n.step = "claimed" => n.life = life
      PROVE  JobsOK' /\ ClaimsApart'
  <2> DEFINE K == Append(J, n)
             T == Range1(jobs) \cup {n}
  <2>1. /\ K \in Seq(T) /\ Len(K) = Len(J) + 1 /\ DOMAIN K = 1..(Len(J) + 1)
        /\ K[Len(J) + 1] = n
        /\ \A k \in 1..Len(J) : K[k] = J[k]
    <3>1. J \in Seq(T) /\ n \in T
      <4>1. \A k \in 1..Len(J) : J[k] \in T
        BY <1>1, ElementOfSeq
      <4> QED
        BY <4>1, <1>1, IsASeq
    <3>2. K \in Seq(T) /\ Len(K) = Len(J) + 1
          /\ \A k \in 1..Len(J) : K[k] = J[k]
          /\ K[Len(J) + 1] = n
      BY <3>1, AppendProperties
    <3> QED
      BY <3>2, LenProperties
  <2> HIDE DEF K
  <2>2. K \in Seq(Range1(K))
    <3>1. \A k \in 1..Len(K) : K[k] \in Range1(K)
      BY <1>1, <2>1 DEF Range1
    <3>2. K = [k \in 1..Len(K) |-> K[k]]
      BY <1>1, <2>1
    <3> QED
      BY <3>1, <3>2, <2>1, <1>1, IsASeq
  <2>3. jobs' = K
    BY <1>5 DEF K
  <2>4. (jobs \in Seq(Range1(jobs)))'
    BY <2>2, <2>3 DEF Range1
  <2>5. Len(K) <= MaxJobs
    <3>1. Len(J) < MaxJobs /\ Len(J) \in Nat /\ MaxJobs \in Nat /\ Len(K) = Len(J) + 1
      BY <2>1, <1>1, <1>5
    <3> QED
      BY <3>1
  <2>6. \A k \in DOMAIN K : JobOK(K[k])'
    <3>1. SUFFICES ASSUME NEW k \in DOMAIN K PROVE JobOK(K[k])'
      OBVIOUS
    <3>2. CASE k = Len(J) + 1
      <4>1. K[k] = n
        BY <3>2, <2>1
      <4> QED
        BY <4>1, <1>5
    <3>3. CASE k # Len(J) + 1
      <4>1. k \in DOMAIN J /\ K[k] = J[k]
        BY <3>3, <2>1, <1>1
      <4> QED
        BY <4>1, <1>2
    <3> QED
      BY <3>2, <3>3
  <2>7. JobsOK'
    BY <2>3, <2>4, <2>5, <2>6 DEF JobsOK
  <2>8. ASSUME NEW k \in DOMAIN J, J[k].step = "claimed", n.step = "claimed"
        PROVE  J[k].life # n.life
    <3>1. J[k].life \in 0..life /\ J[k].life < life
      BY <1>2, <2>8 DEF JobOK
    <3>2. n.life = life
      BY <1>5, <2>8
    <3> QED
      BY <3>1, <3>2
  <2>9. \A k, l \in DOMAIN K :
           k # l /\ K[k].step = "claimed" /\ K[l].step = "claimed" => K[k].life # K[l].life
    <3>1. SUFFICES ASSUME NEW k \in DOMAIN K, NEW l \in DOMAIN K, k # l,
                          K[k].step = "claimed", K[l].step = "claimed"
                   PROVE  K[k].life # K[l].life
      OBVIOUS
    <3>2. \A m \in DOMAIN K : \/ m = Len(J) + 1 /\ K[m] = n
                              \/ m \in DOMAIN J /\ K[m] = J[m]
      BY <2>1, <1>1
    <3> QED
      BY <3>1, <3>2, <2>8, <1>3
  <2> QED
    BY <2>3, <2>7, <2>9 DEF ClaimsApart
<1> QED
  BY <1>4, <1>5
-----------------------------------------------------------------------------
(* A step that stores nothing.                                             *)

LEMMA NothingStored ==
    ASSUME wrote' = NoRow
    PROVE  AnswersGoWhereAsked' /\ OncePerForm'
BY DEF NoRow, Nothing, AnswersGoWhereAsked, OncePerForm

LEMMA SameCatalog ==
    ASSUME CatalogOK, UNCHANGED catalogVars
    PROVE  CatalogOK'
BY DEF CatalogOK, catalogVars, Product, Fixed, Variable

LEMMA SilentStep ==
    ASSUME DialogsInv, wrote' = NoRow, NEW more, Lost(more), \A e \in more : e[2] \notin Catching,
           UNCHANGED <<isAdmin, inPlay, catalogVars>>, ChatOK', presses' \in 0..MaxPresses,
           NEW J, Part(J), Moved(J),
           life' = life + 1 \/ (jobs' = <<>> /\ data' = Empty) \/ Left(J, more),
           \/ jobs' = J
           \/ \E n : /\ jobs' = Append(J, n)
                     /\ Len(J) < MaxJobs
                     /\ JobOK(n)'
                     /\ n.step = "claimed" => n.life = life
    PROVE  DialogsInv'
<1>1. Scalars /\ CatalogOK /\ JobsOK /\ ClaimsApart /\ StoredOK /\ BrokenOK
  BY DEF DialogsInv
<1>2. isAdmin' = isAdmin /\ inPlay' = inPlay /\ UNCHANGED catalogVars
      /\ storedFrom' = (IF jobs' = <<>> /\ data' = Empty THEN {} ELSE storedFrom)
      /\ broken' = (IF jobs' = <<>> /\ data' = Empty THEN {} ELSE broken \cup more)
  BY DEF Lost, Remembered
<1>3. life \in Nat /\ life' \in Nat /\ overlap' \in BOOLEAN
  <2>1. life \in Nat /\ life' \in Nat
    BY <1>1 DEF Scalars, Moved
  <2>2. overlap' \in BOOLEAN
    BY <1>1, Zenon DEF Scalars, Moved
  <2> QED
    BY <2>1, <2>2
<1>4. Scalars'
  BY <1>1, <1>2, <1>3 DEF Scalars, AdminDialogs, AllDialogs, UserDialogs, Edits, Forms
<1>5. CatalogOK'
  BY <1>1, <1>2, SameCatalog
<1>6. StoredOK'
  <2>1. SUFFICES ASSUME NEW e \in storedFrom'
                 PROVE  /\ e[1] \in 0..life'
                        /\ \/ e[1] < life'
                           \/ e[2] \notin Claiming /\ (overlap' \/ e \in broken' \/ Lingers(e)')
    BY DEF StoredOK, Claiming
  <2>2. e \in storedFrom /\ broken' = broken \cup more /\ ~ (jobs' = <<>> /\ data' = Empty)
    BY <2>1, <1>2
  <2>3. /\ e[1] \in 0..life
        /\ e[1] < life \/ (e[2] \notin Claiming /\ (overlap \/ e \in broken \/ Lingers(e)))
    BY <2>2, <1>1 DEF StoredOK
  <2>4. CASE life' = life + 1
    BY <2>3, <2>4, <1>3
  <2>5. CASE life' # life + 1
    <3>1. life' = life /\ overlap' = (overlap \/ J # <<>>) /\ Left(J, more)
      BY <2>2, <2>5 DEF Moved
    <3>2. Lingers(e) /\ J = <<>> => e \in more
      <4>1. SUFFICES ASSUME Lingers(e), J = <<>> PROVE e \in more
        OBVIOUS
      <4>2. 1 \in DOMAIN jobs
        BY <4>1, <1>1, LenProperties DEF Lingers, JobsOK
      <4> QED
        BY <4>1, <4>2, <3>1 DEF Lingers, Left
    <3> QED
      BY <3>1, <3>2, <2>2, <2>3
  <2> QED
    BY <2>4, <2>5
<1>7. BrokenOK'
  BY <1>1, <1>2 DEF BrokenOK, Catching
<1>8. \A k \in DOMAIN J : J[k].step = "claimed" => <<J[k].life, J[k].dialog>> \notin storedFrom'
  BY <1>1, <1>2 DEF Part, JobsOK, JobOK
<1>9. JobsOK' /\ ClaimsApart'
  BY <1>1, <1>2, <1>3, <1>8, JobsAfter
<1>10. AnswersGoWhereAsked' /\ OncePerForm'
  BY NothingStored
<1> QED
  BY <1>4, <1>5, <1>6, <1>7, <1>9, <1>10 DEF DialogsInv

LEMMA QuietStep ==
    ASSUME DialogsInv, Quiet, ChatOK', presses' \in 0..MaxPresses,
           NEW J, Part(J), Moved(J),
           life' = life + 1 \/ (jobs' = <<>> /\ data' = Empty) \/ Left(J, {}),
           \/ jobs' = J
           \/ \E n : /\ jobs' = Append(J, n)
                     /\ Len(J) < MaxJobs
                     /\ JobOK(n)'
                     /\ n.step = "claimed" => n.life = life
    PROVE  DialogsInv'
<1>1. wrote' = NoRow /\ Lost({}) /\ UNCHANGED <<isAdmin, inPlay, catalogVars>>
  BY DEF Quiet, NoStore
<1>2. \A e \in {} : e[2] \notin Catching
  OBVIOUS
<1> QED
  BY <1>1, <1>2, SilentStep
-----------------------------------------------------------------------------
(* The chat after a step.                                                  *)

\* Nothing that the state promises has changed.
LEMMA ChatStays ==
    ASSUME ChatOK, isAdmin' = isAdmin, overlap => overlap',
           state' = state, asked' = asked, SameOn(Special, data, data')
    PROVE  ChatOK'
<1>1. ~ overlap' /\ state' = "RECEIPT" => Announced(data', asked')
  <2>1. {"deposit_type", "amount", "token_amount"} \subseteq Special
    BY DEF Special
  <2> QED
    BY <2>1, SameAnnounced DEF ChatOK
<1>2. state' = "PRODUCT_BUTTON_COLUMNS" => Sellable(data')
  <2>1. {"product_type", "min_qty", "max_qty"} \subseteq Special
    BY DEF Special
  <2> QED
    BY <2>1, SameSellable DEF ChatOK
<1>3. state' \in DOMAIN Edits =>
          /\ Edits[state'].key \in DOMAIN data'
          /\ asked' = Asked(data'[Edits[state'].key], 0)
  <2>1. ASSUME state \in DOMAIN Edits
        PROVE  Edits[state].key \in Special
    BY <2>1, EditTable DEF Special
  <2> QED
    BY <2>1 DEF ChatOK, SameOn
<1>4. \A k \in {"min_qty", "max_qty"} : k \in DOMAIN data' => data'[k] \in 1..MaxQty
  BY DEF ChatOK, SameOn, Special
<1>5. state' = "PRODUCT_FIXED_PRICE" =>
          "product_type" \in DOMAIN data' /\ data'["product_type"] = "FIXED"
  BY DEF ChatOK, SameOn, Special
<1>6. state' \in States /\ (isAdmin' \/ state' \in UserStates \cup {"None"})
  BY DEF ChatOK
<1> HIDE DEF States
<1> QED
  BY <1>1, <1>2, <1>3, <1>4, <1>5, <1>6 DEF ChatOK, Announced, TypeIn, Sellable, States

\* The new state promises nothing.
LEMMA ChatMoves ==
    ASSUME ChatOK, isAdmin' = isAdmin, state' \in PlainStates,
           isAdmin \/ state' \in UserStates \cup {"None"},
           SameOn({"min_qty", "max_qty"}, data, data')
    PROVE  ChatOK'
<1>1. state' \in States /\ state' \notin DOMAIN Edits
      /\ state' \notin {"RECEIPT", "PRODUCT_FIXED_PRICE", "PRODUCT_BUTTON_COLUMNS"}
  BY StatesAre, EditTable DEF PlainStates
<1>2. \A k \in {"min_qty", "max_qty"} : k \in DOMAIN data' => data'[k] \in 1..MaxQty
  BY DEF ChatOK, SameOn
<1> QED
  BY <1>1, <1>2 DEF ChatOK, States

\* The data are gone.
LEMMA ChatWiped ==
    ASSUME isAdmin' = isAdmin, state' = "None", data' = Empty
    PROVE  ChatOK'
<1>1. state' \in PlainStates /\ DOMAIN data' = {}
  BY StatesAre, EmptyHasNothing
<1>2. state' \in States /\ state' \notin DOMAIN Edits
      /\ state' \notin {"RECEIPT", "PRODUCT_FIXED_PRICE", "PRODUCT_BUTTON_COLUMNS"}
  BY <1>1, StatesAre, EditTable DEF PlainStates
<1> QED
  BY <1>1, <1>2 DEF ChatOK, States

\* The prompt of an edit names the object under its key.
LEMMA ChatEdits ==
    ASSUME ChatOK, isAdmin' = isAdmin,
           NEW d \in EditNames, isAdmin \/ d \in UserStates, state' = d,
           Edits[d].key \in DOMAIN data', asked' = Asked(data'[Edits[d].key], 0),
           SameOn({"min_qty", "max_qty"}, data, data')
    PROVE  ChatOK'
<1>1. state' \in States
      /\ state' \notin {"RECEIPT", "PRODUCT_FIXED_PRICE", "PRODUCT_BUTTON_COLUMNS"}
  BY StatesAre DEF EditNames
<1>2. \A k \in {"min_qty", "max_qty"} : k \in DOMAIN data' => data'[k] \in 1..MaxQty
  BY DEF ChatOK, SameOn
<1> QED
  BY <1>1, <1>2 DEF ChatOK, States

LEMMA SameData ==
    ASSUME NEW S, NEW f
    PROVE  SameOn(S, f, f)
BY DEF SameOn
-----------------------------------------------------------------------------
(* A handler that is suspended, with what it read.                         *)

LEMMA JobFields ==
    ASSUME NEW step, NEW dialog, NEW seen, NEW ask
    PROVE  LET n == Job(step, dialog, seen, ask)
           IN  /\ n.step = step /\ n.dialog = dialog /\ n.seen = seen /\ n.asked = ask
               /\ n.life = life /\ n.overlap = overlap
BY DEF Job

LEMMA KeepsAndSuspends ==
    ASSUME DialogsInv, Quiet, ChatOK', presses' \in 0..MaxPresses,
           NEW J, Part(J), Left(J, {}), life' = life, overlap' = (overlap \/ J # <<>>),
           NEW step, step # "claimed", NEW dialog, NEW seen, NEW ask,
           Suspend(J, Job(step, dialog, seen, ask)),
           \A n : n = Job(step, dialog, seen, ask) => JobTyped(n)' /\ (~ overlap' => Current(n)')
    PROVE  DialogsInv'
<1>1. life \in Nat /\ overlap \in BOOLEAN
  BY DEF DialogsInv, Scalars
<1>2. PICK n : n = Job(step, dialog, seen, ask)
  OBVIOUS
<1>3. n.step = step /\ n.life = life /\ n.overlap = overlap
  BY <1>2, JobFields
<1>4. JobTyped(n)' /\ (~ overlap' => Current(n)')
  BY <1>2
<1>5. n.life \in 0..life' /\ n.step # "claimed"
  BY <1>1, <1>3
<1>6. ~ overlap' => ~ n.overlap /\ n.life = life'
  BY <1>1, <1>3
<1>7. JobOK(n)'
  BY <1>4, <1>5, <1>6 DEF JobOK, Fresh
<1>8. jobs' = Append(J, n) /\ Len(J) < MaxJobs
  BY <1>2 DEF Suspend
<1>9. Moved(J)
  BY DEF Moved
<1> QED
  BY <1>5, <1>7, <1>8, <1>9, QuietStep

LEMMA TakesAndSuspends ==
    ASSUME DialogsInv, Quiet, presses' \in 0..MaxPresses, NEW J, Part(J), Take(J),
           Len(J) < MaxJobs,
           NEW dialog \in Claiming, NEW seen, NEW ask,
           jobs' = Append(J, Job("claimed", dialog, seen, ask)),
           dialog \in EditNames =>
              \/ Edits[dialog].key \in DOMAIN seen => Asked(seen[Edits[dialog].key], 0) = ask
              \/ overlap /\ dialog \in Mixing
    PROVE  DialogsInv'
<1>1. life \in Nat /\ StoredOK
  BY DEF DialogsInv, Scalars
<1>2. PICK n : n = Job("claimed", dialog, seen, ask)
  OBVIOUS
<1>3. /\ n.step = "claimed" /\ n.dialog = dialog /\ n.seen = seen /\ n.asked = ask
      /\ n.life = life /\ n.overlap = overlap
  BY <1>2, JobFields
<1>4. /\ state' = "None" /\ data' = Empty /\ overlap' = (J # <<>>) /\ life' = life + 1
      /\ isAdmin' = isAdmin
      /\ storedFrom' = IF jobs' = <<>> /\ data' = Empty THEN {} ELSE storedFrom
  BY DEF Take, Wipe, Quiet, NoStore, Lost, Remembered
<1>5. JobTyped(n)'
  BY <1>3, EditTable DEF JobTyped, Honest
<1>6. <<n.life, n.dialog>> \notin storedFrom'
  <2>1. ASSUME <<n.life, n.dialog>> \in storedFrom
        PROVE  FALSE
    <3>1. <<n.life, n.dialog>>[1] < life
      BY <2>1, <1>1, <1>3 DEF StoredOK
    <3>2. n.life < life
      BY <3>1
    <3> QED
      BY <3>2, <1>1, <1>3
  <2> QED
    BY <2>1, <1>4
<1>7. n.life \in 0..life' /\ n.life < life'
  BY <1>1, <1>3, <1>4
<1>8. JobOK(n)'
  BY <1>3, <1>5, <1>6, <1>7 DEF JobOK
<1>9. Moved(J)
  BY <1>4 DEF Moved
<1>10. ChatOK'
  BY <1>4, ChatWiped
<1> QED
  BY <1>2, <1>3, <1>4, <1>8, <1>9, <1>10, QuietStep

LEMMA LeavesNothing ==
    ASSUME DialogsInv, Quiet, ChatOK', presses' \in 0..MaxPresses,
           NEW J, Part(J), Left(J, {}), life' = life, overlap' = (overlap \/ J # <<>>), jobs' = J
    PROVE  DialogsInv'
<1>1. Moved(J)
  BY DEF Moved
<1> QED
  BY <1>1, QuietStep

LEMMA ClearsAll ==
    ASSUME DialogsInv, Quiet, presses' \in 0..MaxPresses, NEW J, Part(J), Clear(J), jobs' = J
    PROVE  DialogsInv'
<1>1. /\ state' = "None" /\ data' = Empty /\ overlap' = (J # <<>>)
      /\ \/ J = <<>> /\ life' = 0
         \/ J # <<>> /\ life' \in {life, life + 1}
      /\ isAdmin' = isAdmin
  BY DEF Clear, Wipe, Quiet
<1>2. Moved(J)
  BY <1>1 DEF Moved
<1>3. ChatOK'
  BY <1>1, ChatWiped
<1>4. (jobs' = <<>> /\ data' = Empty) \/ Left(J, {})
  BY <1>1 DEF Left
<1> QED
  BY <1>2, <1>3, <1>4, QuietStep
-----------------------------------------------------------------------------
(* Buttons.                                                                *)

LEMMA InvParts ==
    ASSUME DialogsInv
    PROVE  /\ Scalars /\ CatalogOK /\ ChatOK /\ JobsOK /\ ClaimsApart /\ StoredOK /\ BrokenOK
           /\ life \in Nat /\ overlap \in BOOLEAN /\ presses \in 0..MaxPresses
           /\ Part(jobs) /\ Part(<<>>) /\ Left(jobs, {})
           /\ \A i \in DOMAIN jobs : JobOK(jobs[i]) /\ Part(Rest(i))
           /\ \A i \in DOMAIN jobs : jobs[i].step # "stored" => Left(Rest(i), {})
<1>1. Left(jobs, {})
  BY DEF Left
<1>2. \A i \in DOMAIN jobs : jobs[i].step # "stored" => Left(Rest(i), {})
  BY LeftInRest DEF DialogsInv
<1> QED
  BY <1>1, <1>2, WholeIsPart, NoneIsPart, RestIsPart DEF DialogsInv, Scalars, JobsOK

LEMMA PressIsCounted ==
    ASSUME presses \in 0..MaxPresses, Pressed \/ UNCHANGED presses
    PROVE  presses' \in 0..MaxPresses
<1>1. MaxPresses \in Nat
  BY DialogsAssumption
<1> QED
  BY <1>1 DEF Pressed

LEMMA DialogsInPlay ==
    ASSUME Scalars, NEW d \in inPlay
    PROVE  isAdmin \/ d \in UserDialogs
BY DEF Scalars

LEMMA OpenFormStep ==
    ASSUME DialogsInv, NEW d \in inPlay, NEW v, OpenForm(d, v)
    PROVE  DialogsInv'
<1>1. presses' \in 0..MaxPresses
  BY InvParts, PressIsCounted DEF OpenForm
<1>2. d \in FormNames
  BY FormTable DEF OpenForm
<1>3. /\ state' = Forms[d].first
      /\ data' = IF Forms[d].key = "" THEN data ELSE With(Forms[d].key, v, data)
      /\ overlap' = (overlap \/ jobs # <<>>) /\ life' = life
      /\ jobs' = jobs /\ Quiet /\ isAdmin' = isAdmin
  BY DEF OpenForm, Ask, Quiet
<1>4. SameOn({"min_qty", "max_qty"}, data, data')
  <2>1. Forms[d].key \notin {"min_qty", "max_qty"}
    BY <1>2, FormTable
  <2> QED
    BY <2>1, <1>3, WithElsewhere, SameData
<1>5. ChatOK'
  BY <1>2, <1>3, <1>4, FormTable, InvParts, DialogsInPlay, ChatMoves
<1> QED
  BY <1>1, <1>3, <1>5, InvParts, LeavesNothing

LEMMA OpenEditStep ==
    ASSUME DialogsInv, NEW d \in inPlay, NEW o, OpenEdit(d, o)
    PROVE  DialogsInv'
<1>1. presses' \in 0..MaxPresses
  BY InvParts, PressIsCounted DEF OpenEdit
<1>2. d \in EditNames /\ (isAdmin \/ d \in UserStates)
  BY EditTable, InvParts, DialogsInPlay DEF OpenEdit
<1>3. Quiet /\ isAdmin' = isAdmin
  BY DEF OpenEdit, Quiet
<1>4. CASE Edits[d].late
  <2> DEFINE seen == With(Edits[d].key, o, Empty)
  <2>1. /\ Suspend(jobs, Job("open", d, seen, Asked(o, 0)))
        /\ state' = state /\ data' = data /\ asked' = asked
        /\ overlap' = (overlap \/ jobs # <<>>) /\ life' = life
    BY <1>4 DEF OpenEdit, Keep, Goto, Ask
  <2>2. ChatOK'
    BY <2>1, <1>3, InvParts, SameData, ChatStays
  <2>3. ASSUME NEW n, n = Job("open", d, seen, Asked(o, 0))
        PROVE  JobTyped(n)' /\ Current(n)'
    <3>1. n.step = "open" /\ n.dialog = d /\ n.seen = seen /\ n.asked = Asked(o, 0)
      BY <2>3, JobFields
    <3>2. n.asked.what = o
      BY <3>1 DEF Asked
    <3>3. JobTyped(n)'
      BY <3>1, <3>2, <1>2, <1>3, EditTable DEF JobTyped
    <3>4. Current(n)'
      BY <3>1 DEF Current
    <3> QED
      BY <3>3, <3>4
  <2> HIDE DEF seen
  <2> QED
    BY <1>1, <1>3, <2>1, <2>2, <2>3, InvParts, KeepsAndSuspends
<1>5. CASE ~ Edits[d].late
  <2>1. /\ state' = d /\ data' = With(Edits[d].key, o, data) /\ asked' = Asked(o, 0)
        /\ overlap' = (overlap \/ jobs # <<>>) /\ life' = life /\ jobs' = jobs
    BY <1>5 DEF OpenEdit, Ask
  <2>2. Edits[d].key \in DOMAIN data' /\ asked' = Asked(data'[Edits[d].key], 0)
    <3>1. With(Edits[d].key, o, data)[Edits[d].key] = o
          /\ Edits[d].key \in DOMAIN With(Edits[d].key, o, data)
      BY DEF With, Over
    <3> QED
      BY <2>1, <3>1
  <2>3. SameOn({"min_qty", "max_qty"}, data, data')
    <3>1. Edits[d].key \notin {"min_qty", "max_qty"}
      BY <1>2, EditTable DEF EditKeys
    <3> QED
      BY <3>1, <2>1, WithElsewhere
  <2>4. ChatOK'
    BY <1>2, <1>3, <2>1, <2>2, <2>3, InvParts, ChatEdits
  <2> QED
    BY <1>1, <1>3, <2>1, <2>4, InvParts, LeavesNothing
<1> QED
  BY <1>4, <1>5

LEMMA OnlyAdmins ==
    ASSUME DialogsInv, NEW d \in inPlay, d \in {"PRODUCT", "BROADCAST"}
    PROVE  isAdmin
BY InvParts, DialogsInPlay DEF UserDialogs

LEMMA PickCategoryStep ==
    ASSUME DialogsInv, NEW c, PickCategory(c)
    PROVE  DialogsInv'
<1>1. presses' \in 0..MaxPresses
  BY InvParts, PressIsCounted DEF PickCategory, Keyboard
<1>2. /\ state' = state /\ asked' = asked /\ data' = With("category_id", c, data)
      /\ overlap' = (overlap \/ jobs # <<>>) /\ life' = life /\ jobs' = jobs
      /\ Quiet /\ isAdmin' = isAdmin
  BY DEF PickCategory, Goto, Ask, Quiet
<1>3. SameOn(Special, data, data')
  <2>1. "category_id" \notin Special
    BY DEF Special, EditKeys
  <2> QED
    BY <2>1, <1>2, WithElsewhere
<1>4. ChatOK'
  BY <1>2, <1>3, InvParts, ChatStays
<1> QED
  BY <1>1, <1>2, <1>4, InvParts, LeavesNothing

LEMMA PickTypeStep ==
    ASSUME DialogsInv, NEW t, PickType(t)
    PROVE  DialogsInv'
<1>1. presses' \in 0..MaxPresses
  BY InvParts, PressIsCounted DEF PickType, Keyboard
<1>2. /\ state' = IF t = "FIXED" THEN "PRODUCT_FIXED_PRICE" ELSE "PRODUCT_UNIT_PRICE"
      /\ data' = With("product_type", t, data)
      /\ overlap' = (overlap \/ jobs # <<>>) /\ life' = life /\ jobs' = jobs
      /\ Quiet /\ isAdmin' = isAdmin
  BY DEF PickType, Goto, Ask, Quiet
<1>3. isAdmin
  BY OnlyAdmins DEF PickType
<1>4. SameOn({"min_qty", "max_qty"}, data, data')
  BY <1>2, WithElsewhere
<1>5. ChatOK'
  <2>1. CASE t = "FIXED"
    <3>1. "product_type" \in DOMAIN data' /\ data'["product_type"] = "FIXED"
      BY <2>1, <1>2 DEF With, Over
    <3>2. state' = "PRODUCT_FIXED_PRICE" /\ state' \in States /\ state' \notin DOMAIN Edits
      BY <2>1, <1>2, StatesAre, EditTable DEF EditNames
    <3>3. \A k \in {"min_qty", "max_qty"} : k \in DOMAIN data' => data'[k] \in 1..MaxQty
      BY <1>4, InvParts DEF SameOn, ChatOK
    <3> QED
      BY <3>1, <3>2, <3>3, <1>2, <1>3 DEF ChatOK, States
  <2>2. CASE t # "FIXED"
    <3>1. state' \in PlainStates
      BY <2>2, <1>2, StatesAre
    <3> QED
      BY <3>1, <1>2, <1>3, <1>4, InvParts, ChatMoves
  <2> QED
    BY <2>1, <2>2
<1> QED
  BY <1>1, <1>2, <1>5, InvParts, LeavesNothing

LEMMA ConfirmBroadcastStep ==
    ASSUME DialogsInv, ConfirmBroadcast
    PROVE  DialogsInv'
<1>1. presses' \in 0..MaxPresses
  BY InvParts, PressIsCounted DEF ConfirmBroadcast
<1>2. /\ Quiet /\ Take(jobs) /\ Len(jobs) < MaxJobs
      /\ jobs' = Append(jobs, Job("claimed", "BROADCAST", Of("BROADCAST"), Nothing))
  BY DEF ConfirmBroadcast, Suspend
<1>3. "BROADCAST" \in Claiming /\ "BROADCAST" \notin EditNames
  BY DEF Claiming, EditNames
<1> QED
  BY <1>1, <1>2, <1>3, InvParts, TakesAndSuspends

LEMMA MenuStep ==
    ASSUME DialogsInv, Menu
    PROVE  DialogsInv'
<1>1. presses' \in 0..MaxPresses
  BY InvParts, PressIsCounted DEF Menu
<1> QED
  BY <1>1, InvParts, ClearsAll DEF Menu

LEMMA RestartStep ==
    ASSUME DialogsInv, Restart
    PROVE  DialogsInv'
<1>1. presses' \in 0..MaxPresses
  BY InvParts, PressIsCounted DEF Restart
<1> QED
  BY <1>1, InvParts, ClearsAll DEF Restart
-----------------------------------------------------------------------------
(* Messages: s is the state a message was routed by, J are the handlers    *)
(* beside its own, ask is what its prompt asked for.                       *)

RoutedBy(s, J, ask) ==
    /\ Part(J)
    /\ Left(J, {})
    /\ s \in States \ {"None"}
    /\ isAdmin => s = state /\ ask = asked
    /\ isAdmin \/ s \in UserStates
    /\ ~ overlap => s = state /\ (s \in EditNames \cup {"RECEIPT"} => ask = asked)

LEMMA AnswerStepStep ==
    ASSUME DialogsInv, Quiet, presses' \in 0..MaxPresses, NEW s, NEW J, NEW ask,
           RoutedBy(s, J, ask), AnswerStep(s, J)
    PROVE  DialogsInv'
<1>1. s \in StepNames
  BY StepTable DEF AnswerStep
<1>2. isAdmin /\ s = state
  BY <1>1 DEF RoutedBy, StepNames, UserStates
<1>3. /\ state' = Steps[s].next /\ data' = With(Steps[s].key, Given, data) /\ asked' = asked
      /\ overlap' = (overlap \/ J # <<>>) /\ life' = life /\ jobs' = J /\ isAdmin' = isAdmin
  BY DEF AnswerStep, Goto, Ask, Quiet
<1>4. SameOn(Special, data, data')
  BY <1>1, <1>3, StepTable, WithElsewhere
<1>5. SameOn({"min_qty", "max_qty"}, data, data')
  BY <1>4 DEF SameOn, Special
<1>6. ChatOK'
  <2>1. CASE state' \in PlainStates
    BY <2>1, <1>2, <1>3, <1>5, InvParts, ChatMoves
  <2>2. CASE state' = "PRODUCT_BUTTON_COLUMNS"
    <3>1. state = "PRODUCT_FIXED_PRICE"
      BY <2>2, <1>1, <1>2, <1>3, StepTable
    <3>2. "product_type" \in DOMAIN data /\ data["product_type"] = "FIXED"
      BY <3>1, InvParts DEF ChatOK
    <3>3. Sellable(data')
      BY <3>2, <1>4 DEF SameOn, Special, Sellable
    <3>4. \A k \in {"min_qty", "max_qty"} : k \in DOMAIN data' => data'[k] \in 1..MaxQty
      BY <1>5, InvParts DEF SameOn, ChatOK
    <3>5. state' \in States /\ state' \notin DOMAIN Edits
      BY <2>2, StatesAre, EditTable DEF EditNames
    <3> QED
      BY <2>2, <3>3, <3>4, <3>5, <1>2, <1>3 DEF ChatOK, States, Sellable
  <2> QED
    BY <2>1, <2>2, <1>1, <1>3, StepTable, StatesAre
<1> QED
  BY <1>3, <1>6, LeavesNothing DEF RoutedBy

LEMMA AnswerMinQtyStep ==
    ASSUME DialogsInv, Quiet, presses' \in 0..MaxPresses, NEW s, NEW J, NEW ask,
           RoutedBy(s, J, ask), AnswerMinQty(s, J)
    PROVE  DialogsInv'
<1>1. isAdmin /\ s = state
  BY DEF RoutedBy, AnswerMinQty, UserStates
<1>2. PICK q \in 1..MaxQty : Goto("PRODUCT_MAX_QTY", With("min_qty", q, data), J)
  BY DEF AnswerMinQty
<1>3. /\ state' = "PRODUCT_MAX_QTY" /\ data' = With("min_qty", q, data) /\ asked' = asked
      /\ overlap' = (overlap \/ J # <<>>) /\ life' = life /\ jobs' = J /\ isAdmin' = isAdmin
  BY <1>2 DEF AnswerMinQty, Goto, Ask, Quiet
<1>4. \A k \in {"min_qty", "max_qty"} : k \in DOMAIN data' => data'[k] \in 1..MaxQty
  BY <1>3, InvParts DEF ChatOK, With, Over
<1>5. state' \in States /\ state' \notin DOMAIN Edits
      /\ state' \notin {"RECEIPT", "PRODUCT_FIXED_PRICE", "PRODUCT_BUTTON_COLUMNS"}
  BY <1>3, StatesAre, EditTable DEF PlainStates
<1>6. ChatOK'
  BY <1>1, <1>3, <1>4, <1>5 DEF ChatOK, States
<1> QED
  BY <1>3, <1>6, LeavesNothing DEF RoutedBy

LEMMA AnswerMaxQtyStep ==
    ASSUME DialogsInv, Quiet, presses' \in 0..MaxPresses, NEW s, NEW J, NEW ask,
           RoutedBy(s, J, ask), AnswerMaxQty(s, J)
    PROVE  DialogsInv'
<1>1. isAdmin /\ s = state
  BY DEF RoutedBy, AnswerMaxQty, UserStates
<1>2. PICK q \in 1..MaxQty :
         /\ "min_qty" \in DOMAIN data => q >= data["min_qty"]
         /\ Goto("PRODUCT_BUTTON_COLUMNS", With("max_qty", q, data), J)
  BY DEF AnswerMaxQty
<1>3. /\ state' = "PRODUCT_BUTTON_COLUMNS" /\ data' = With("max_qty", q, data) /\ asked' = asked
      /\ overlap' = (overlap \/ J # <<>>) /\ life' = life /\ jobs' = J /\ isAdmin' = isAdmin
  BY <1>2 DEF AnswerMaxQty, Goto, Ask, Quiet
<1>4. \A k \in {"min_qty", "max_qty"} : k \in DOMAIN data' => data'[k] \in 1..MaxQty
  BY <1>3, InvParts DEF ChatOK, With, Over
<1>5. Sellable(data')
  <2>1. ASSUME "min_qty" \in DOMAIN data'
        PROVE  data'["min_qty"] <= data'["max_qty"]
    <3>1. "min_qty" \in DOMAIN data /\ data'["min_qty"] = data["min_qty"] /\ data'["max_qty"] = q
      BY <2>1, <1>3 DEF With, Over
    <3>2. data["min_qty"] \in 1..MaxQty
      BY <3>1, InvParts DEF ChatOK
    <3> QED
      BY <3>1, <3>2, <1>2
  <2> QED
    BY <2>1, <1>4 DEF Sellable
<1>6. state' \in States /\ state' \notin DOMAIN Edits
  BY <1>3, StatesAre, EditTable DEF EditNames
<1>7. ChatOK'
  BY <1>1, <1>3, <1>4, <1>5, <1>6 DEF ChatOK, States, Sellable
<1> QED
  BY <1>3, <1>7, LeavesNothing DEF RoutedBy

LEMMA AnswerProductNameStep ==
    ASSUME DialogsInv, Quiet, presses' \in 0..MaxPresses, NEW s, NEW J, NEW ask,
           RoutedBy(s, J, ask), AnswerProductName(s, J)
    PROVE  DialogsInv'
<1>1. /\ state' = state /\ data' = With("product_name", Given, data) /\ asked' = asked
      /\ overlap' = (overlap \/ J # <<>>) /\ life' = life /\ isAdmin' = isAdmin
      /\ Suspend(J, Job("look", "PRODUCT", Empty, Nothing))
  BY DEF AnswerProductName, Goto, Ask, Quiet
<1>2. "product_name" \notin Special
  BY DEF Special, EditKeys
<1>3. ChatOK'
  BY <1>1, <1>2, WithElsewhere, InvParts, ChatStays
<1>4. ASSUME NEW n, n = Job("look", "PRODUCT", Empty, Nothing)
      PROVE  JobTyped(n)' /\ Current(n)'
  <2>1. n.step = "look" /\ n.dialog = "PRODUCT"
    BY <1>4, JobFields
  <2> QED
    BY <2>1 DEF JobTyped, Current
<1> QED
  BY <1>1, <1>3, <1>4, KeepsAndSuspends DEF RoutedBy

LEMMA KeepStays ==
    ASSUME DialogsInv, Quiet, NEW J, Keep(J)
    PROVE  /\ ChatOK' /\ state' = state /\ data' = data /\ asked' = asked
           /\ overlap' = (overlap \/ J # <<>>) /\ life' = life /\ isAdmin' = isAdmin
<1>1. /\ state' = state /\ data' = data /\ asked' = asked
      /\ overlap' = (overlap \/ J # <<>>) /\ life' = life /\ isAdmin' = isAdmin
  BY DEF Keep, Goto, Ask, Quiet
<1> QED
  BY <1>1, SameData, InvParts, ChatStays

LEMMA AnswerSearchStep ==
    ASSUME DialogsInv, Quiet, presses' \in 0..MaxPresses, NEW s, NEW J, NEW ask,
           RoutedBy(s, J, ask), AnswerSearch(s, J)
    PROVE  DialogsInv'
<1> DEFINE dialog == IF s = "QUERY" THEN "SEARCH" ELSE "USERS"
<1>1. Keep(J) /\ Suspend(J, Job("look", dialog, Empty, Nothing))
  BY DEF AnswerSearch
<1>2. dialog \in {"USERS", "SEARCH"}
  OBVIOUS
<1> HIDE DEF dialog
<1>3. ASSUME NEW n, n = Job("look", dialog, Empty, Nothing)
      PROVE  JobTyped(n)' /\ Current(n)'
  <2>1. n.step = "look" /\ n.dialog = dialog
    BY <1>3, JobFields
  <2> QED
    BY <2>1, <1>2 DEF JobTyped, Current
<1> QED
  BY <1>1, <1>3, KeepStays, KeepsAndSuspends DEF RoutedBy

\* The object under an edit's key is the one the prompt named.
LEMMA EditIsHonest ==
    ASSUME DialogsInv, NEW s \in EditNames, NEW ask, s = state, ask = asked
    PROVE  /\ Edits[s].key \in DOMAIN Of(s)
           /\ Asked(Of(s)[Edits[s].key], 0) = ask
<1>1. Edits[s].key \in DOMAIN data /\ asked = Asked(data[Edits[s].key], 0)
  BY InvParts, EditTable DEF ChatOK
<1>2. Answers(s) = {Edits[s].key}
  BY EditTable DEF Answers
<1> QED
  BY <1>1, <1>2 DEF Of

LEMMA AnswerEditStep ==
    ASSUME DialogsInv, Quiet, presses' \in 0..MaxPresses, NEW s, NEW J, NEW ask,
           RoutedBy(s, J, ask), AnswerEdit(s, J, ask)
    PROVE  DialogsInv'
<1>1. s \in EditNames /\ Edits[s].reads \in {"keeps", "claims", "late"}
  BY EditTable DEF AnswerEdit
<1>2. /\ isAdmin => s = state /\ ask = asked
      /\ ~ isAdmin => Edits[s].reads = "keeps" /\ s \in Mixing
      /\ ~ overlap => s = state /\ ask = asked
  BY <1>1, EditTable DEF RoutedBy
<1>3. s = state /\ ask = asked =>
         Edits[s].key \in DOMAIN Of(s) /\ Asked(Of(s)[Edits[s].key], 0) = ask
  BY <1>1, EditIsHonest
<1>4. CASE Edits[s].reads = "keeps"
  <2>1. Keep(J) /\ Suspend(J, Job("store", s, Of(s), ask))
    BY <1>4, Zenon DEF AnswerEdit
  <2>2. s \notin Claiming /\ s # "PRODUCT" /\ s # "DEPOSIT"
    BY <1>1, <1>4, EditTable DEF EditNames
  <2>3. ASSUME NEW n, n = Job("store", s, Of(s), ask)
        PROVE  JobTyped(n)' /\ (~ overlap' => Current(n)')
    <3>1. n.step = "store" /\ n.dialog = s /\ n.seen = Of(s) /\ n.asked = ask
      BY <2>3, JobFields
    <3>2. s = state /\ ask = asked => Honest(n)
      BY <3>1, <1>3 DEF Honest
    <3>3. s \notin Mixing => Honest(n)
      BY <3>2, <1>2
    <3>4. ~ overlap' => Honest(n)
      BY <3>2, <1>2, <2>1, KeepStays
    <3>5. JobTyped(n)'
      BY <3>1, <3>3, <2>2, EditTable DEF JobTyped, Honest
    <3>6. ~ overlap' => Current(n)'
      BY <3>1, <3>4, <2>2 DEF Current, Honest
    <3> QED
      BY <3>5, <3>6
  <2> QED
    BY <2>1, <2>3, KeepStays, KeepsAndSuspends DEF RoutedBy
<1>5. CASE Edits[s].reads = "claims"
  <2>1. Take(J) /\ Suspend(J, Job("claimed", s, Of(s), ask))
    BY <1>5, Zenon DEF AnswerEdit
  <2>2. s \in Claiming /\ isAdmin
    BY <1>1, <1>2, <1>5, EditTable
  <2> QED
    BY <2>1, <2>2, <1>2, <1>3, TakesAndSuspends DEF RoutedBy, Suspend
<1>6. CASE Edits[s].reads = "late"
  <2>1. Keep(J) /\ Suspend(J, Job("late", s, Empty, ask))
    BY <1>6, Zenon DEF AnswerEdit
  <2>2. isAdmin /\ s = "PROVIDER_EDIT_API_KEY"
    BY <1>1, <1>2, <1>6, EditTable
  <2>3. ASSUME NEW n, n = Job("late", s, Empty, ask)
        PROVE  JobTyped(n)' /\ (~ overlap' => Current(n)')
    <3>1. n.step = "late" /\ n.dialog = s /\ n.asked = ask
      BY <2>3, JobFields
    <3>2. JobTyped(n)'
      BY <3>1, <2>1, <2>2, KeepStays DEF JobTyped
    <3>3. Current(n)'
      BY <3>1, <2>1, <2>2, <1>2, KeepStays DEF Current
    <3> QED
      BY <3>2, <3>3
  <2> QED
    BY <2>1, <2>3, KeepStays, KeepsAndSuspends DEF RoutedBy
<1> QED
  BY <1>1, <1>4, <1>5, <1>6

LEMMA AnswerChannelUsernameStep ==
    ASSUME DialogsInv, Quiet, presses' \in 0..MaxPresses, NEW s, NEW J, NEW ask,
           RoutedBy(s, J, ask), AnswerChannelUsername(s, J)
    PROVE  DialogsInv'
<1> DEFINE seen == [channel_username |-> Given]
<1>1. Keep(J) /\ Suspend(J, Job("next", "CHANNEL", seen, Nothing))
  BY DEF AnswerChannelUsername
<1>2. isAdmin /\ isAdmin' = isAdmin
  BY <1>1, KeepStays DEF RoutedBy, AnswerChannelUsername, UserStates
<1>3. DOMAIN seen = {"channel_username"}
  OBVIOUS
<1> HIDE DEF seen
<1>4. ASSUME NEW n, n = Job("next", "CHANNEL", seen, Nothing)
      PROVE  JobTyped(n)' /\ Current(n)'
  <2>1. n.step = "next" /\ n.dialog = "CHANNEL" /\ n.seen = seen
    BY <1>4, JobFields
  <2> QED
    BY <2>1, <1>2, <1>3 DEF JobTyped, Current
<1> QED
  BY <1>1, <1>4, KeepStays, KeepsAndSuspends DEF RoutedBy

LEMMA AnswerBroadcastStep ==
    ASSUME DialogsInv, Quiet, presses' \in 0..MaxPresses, NEW s, NEW J, NEW ask,
           RoutedBy(s, J, ask), AnswerBroadcast(s, J)
    PROVE  DialogsInv'
<1> DEFINE seen == [broadcast_message_id |-> Given]
<1>1. Keep(J) /\ Suspend(J, Job("next", "BROADCAST", seen, Nothing))
  BY DEF AnswerBroadcast
<1>2. isAdmin /\ isAdmin' = isAdmin
  BY <1>1, KeepStays DEF RoutedBy, AnswerBroadcast, UserStates
<1>3. DOMAIN seen = {"broadcast_message_id"}
  OBVIOUS
<1> HIDE DEF seen
<1>4. ASSUME NEW n, n = Job("next", "BROADCAST", seen, Nothing)
      PROVE  JobTyped(n)' /\ Current(n)'
  <2>1. n.step = "next" /\ n.dialog = "BROADCAST" /\ n.seen = seen
    BY <1>4, JobFields
  <2> QED
    BY <2>1, <1>2, <1>3 DEF JobTyped, Current
<1> QED
  BY <1>1, <1>4, KeepStays, KeepsAndSuspends DEF RoutedBy

LEMMA AnswerPanelPasswordStep ==
    ASSUME DialogsInv, Quiet, presses' \in 0..MaxPresses, NEW s, NEW J, NEW ask,
           RoutedBy(s, J, ask), AnswerPanelPassword(s, J)
    PROVE  DialogsInv'
<1>1. /\ state' = state /\ data' = With("vpn_panel_password", Given, data) /\ asked' = asked
      /\ overlap' = (overlap \/ J # <<>>) /\ life' = life /\ isAdmin' = isAdmin
      /\ Suspend(J, Job("late", "VPN_PANEL", Empty, Nothing))
  BY DEF AnswerPanelPassword, Goto, Ask, Quiet
<1>2. "vpn_panel_password" \notin Special
  BY DEF Special, EditKeys
<1>3. ChatOK'
  BY <1>1, <1>2, WithElsewhere, InvParts, ChatStays
<1>4. isAdmin
  BY DEF RoutedBy, AnswerPanelPassword, UserStates
<1>5. ASSUME NEW n, n = Job("late", "VPN_PANEL", Empty, Nothing)
      PROVE  JobTyped(n)' /\ Current(n)'
  <2>1. n.step = "late" /\ n.dialog = "VPN_PANEL"
    BY <1>5, JobFields
  <2> QED
    BY <2>1, <1>1, <1>4, EditTable DEF JobTyped, Current, EditNames
<1> QED
  BY <1>1, <1>3, <1>5, KeepsAndSuspends DEF RoutedBy

LEMMA AnswerProviderKeyStep ==
    ASSUME DialogsInv, Quiet, presses' \in 0..MaxPresses, NEW s, NEW J, NEW ask,
           RoutedBy(s, J, ask), AnswerProviderKey(s, J)
    PROVE  DialogsInv'
<1>1. Keep(J) /\ Suspend(J, Job("late", "PROVIDER", Empty, Nothing))
  BY DEF AnswerProviderKey
<1>2. isAdmin /\ isAdmin' = isAdmin
  BY <1>1, KeepStays DEF RoutedBy, AnswerProviderKey, UserStates
<1>3. ASSUME NEW n, n = Job("late", "PROVIDER", Empty, Nothing)
      PROVE  JobTyped(n)' /\ Current(n)'
  <2>1. n.step = "late" /\ n.dialog = "PROVIDER"
    BY <1>3, JobFields
  <2> QED
    BY <2>1, <1>2, EditTable DEF JobTyped, Current, EditNames
<1> QED
  BY <1>1, <1>3, KeepStays, KeepsAndSuspends DEF RoutedBy

LEMMA AnswerPanelInboundStep ==
    ASSUME DialogsInv, Quiet, presses' \in 0..MaxPresses, NEW s, NEW J, NEW ask,
           RoutedBy(s, J, ask), AnswerPanelInbound(s, J)
    PROVE  DialogsInv'
<1>1. /\ Take(J) /\ Len(J) < MaxJobs
      /\ jobs' = Append(J, Job("claimed", "VPN_PANEL", Of("VPN_PANEL"), Nothing))
  BY DEF AnswerPanelInbound, Suspend
<1>2. "VPN_PANEL" \in Claiming /\ "VPN_PANEL" \notin EditNames
  BY DEF Claiming, EditNames
<1> QED
  BY <1>1, <1>2, TakesAndSuspends DEF RoutedBy

LEMMA AnswerAmountStep ==
    ASSUME DialogsInv, Quiet, presses' \in 0..MaxPresses, NEW s, NEW J, NEW ask,
           RoutedBy(s, J, ask), AnswerAmount(s, J)
    PROVE  DialogsInv'
<1>1. PICK v \in 1..MaxQty :
         Suspend(J, Job("next", "DEPOSIT",
                        IF DepositType = "TOKEN" THEN [amount |-> v, token_amount |-> v]
                                                 ELSE [amount |-> v],
                        Asked(DepositType, v)))
  BY DEF AnswerAmount
<1> DEFINE seen == IF DepositType = "TOKEN" THEN [amount |-> v, token_amount |-> v]
                                            ELSE [amount |-> v]
<1>2. /\ Suspend(J, Job("next", "DEPOSIT", seen, Asked(DepositType, v)))
      /\ Keep(J)
  BY <1>1 DEF AnswerAmount
<1>3. /\ DOMAIN seen \subseteq {"amount", "token_amount"}
      /\ "amount" \in DOMAIN seen /\ seen["amount"] = v
      /\ DepositType = "TOKEN" => "token_amount" \in DOMAIN seen /\ seen["token_amount"] = v
  <2>1. CASE DepositType = "TOKEN"
    <3>1. seen = [amount |-> v, token_amount |-> v]
      BY <2>1
    <3> QED
      BY <3>1
  <2>2. CASE DepositType # "TOKEN"
    <3>1. seen = [amount |-> v]
      BY <2>2
    <3> QED
      BY <3>1, <2>2
  <2> QED
    BY <2>1, <2>2
<1> HIDE DEF seen
<1> DEFINE both == Over(seen, data)
<1>4. /\ "deposit_type" \in DOMAIN both <=> "deposit_type" \in DOMAIN data
      /\ "deposit_type" \in DOMAIN data => both["deposit_type"] = data["deposit_type"]
      /\ \A k \in DOMAIN seen : k \in DOMAIN both /\ both[k] = seen[k]
  <2>1. "deposit_type" \notin DOMAIN seen
    BY <1>3
  <2>2. DOMAIN both = DOMAIN seen \cup DOMAIN data
    BY DEF Over
  <2>3. \A k \in DOMAIN both : both[k] = IF k \in DOMAIN seen THEN seen[k] ELSE data[k]
    BY DEF Over
  <2> HIDE DEF both
  <2> QED
    BY <2>1, <2>2, <2>3
<1> HIDE DEF both
<1>5. Announced(both, Asked(DepositType, v))
  <2>1. TypeIn(both) = DepositType
    BY <1>4 DEF TypeIn, DepositType
  <2> QED
    BY <2>1, <1>3, <1>4 DEF Announced
<1>6. ASSUME NEW n, n = Job("next", "DEPOSIT", seen, Asked(DepositType, v))
      PROVE  JobTyped(n)' /\ Current(n)'
  <2>1. n.step = "next" /\ n.dialog = "DEPOSIT" /\ n.seen = seen /\ n.asked = Asked(DepositType, v)
    BY <1>6, JobFields
  <2>2. data' = data
    BY <1>2, KeepStays
  <2>3. JobTyped(n)'
    BY <2>1, <1>3 DEF JobTyped
  <2>4. Announced(Over(n.seen, data'), n.asked)
    BY <2>1, <2>2, <1>5 DEF both
  <2>5. Current(n)'
    BY <2>1, <2>4 DEF Current, Announced, TypeIn, Over
  <2> QED
    BY <2>3, <2>5
<1> QED
  BY <1>2, <1>6, KeepStays, KeepsAndSuspends DEF RoutedBy

LEMMA FinishFormStep ==
    ASSUME DialogsInv, Quiet, presses' \in 0..MaxPresses, NEW s, NEW J, NEW ask,
           RoutedBy(s, J, ask), FinishForm(s, J, ask)
    PROVE  DialogsInv'
<1> DEFINE d == Finish[s]
<1>1. s \in FinishNames
  BY FinishTable DEF FinishForm
<1>2. /\ d \in {"CATEGORY", "PRODUCT", "CHANNEL", "COUPON", "TOURNAMENT", "TRONADO", "DEPOSIT"}
      /\ d = "PRODUCT" => s = "PRODUCT_BUTTON_COLUMNS"
      /\ d = "DEPOSIT" => s = "RECEIPT"
  BY <1>1, FinishTable
<1>3. CASE Expired(d)
  BY <1>3, ClearsAll DEF FinishForm, RoutedBy
<1>4. CASE ~ Expired(d)
  <2>1. Keep(J) /\ Suspend(J, Job("store", d, Of(d), ask))
    BY <1>4 DEF FinishForm
  <2> HIDE DEF d
  <2>2. d \notin Claiming /\ d \notin DOMAIN Edits
    BY <1>2, EditTable DEF Claiming, EditNames
  <2>3. d = "PRODUCT" => Sellable(Of(d))
    <3>1. SUFFICES ASSUME d = "PRODUCT" PROVE Sellable(Of(d))
      OBVIOUS
    <3>2. state = "PRODUCT_BUTTON_COLUMNS"
      BY <3>1, <1>2 DEF RoutedBy, UserStates
    <3>3. {"product_type", "min_qty", "max_qty"} \subseteq Answers(d)
      BY <3>1, <2>2 DEF Answers, FormAnswers
    <3> QED
      BY <3>2, <3>3, OfIsPart, SameSellable, InvParts DEF ChatOK
  <2>4. ~ overlap /\ d = "DEPOSIT" => Announced(Of(d), ask)
    <3>1. SUFFICES ASSUME ~ overlap, d = "DEPOSIT" PROVE Announced(Of(d), ask)
      OBVIOUS
    <3>2. Announced(data, ask)
      BY <3>1, <1>2, InvParts DEF RoutedBy, ChatOK
    <3>3. {"deposit_type", "amount", "token_amount"} \subseteq Answers(d)
      BY <3>1, <2>2 DEF Answers, FormAnswers
    <3> QED
      BY <3>2, <3>3, OfIsPart, SameAnnounced
  <2>5. ASSUME NEW n, n = Job("store", d, Of(d), ask)
        PROVE  JobTyped(n)' /\ (~ overlap' => Current(n)')
    <3>1. n.step = "store" /\ n.dialog = d /\ n.seen = Of(d) /\ n.asked = ask
      BY <2>5, JobFields
    <3>2. d = "PRODUCT" => Sellable(n.seen)
      BY <3>1, <2>3
    <3>3. JobTyped(n)'
      BY <3>1, <3>2, <2>2 DEF JobTyped, Sellable
    <3>4. ~ overlap' /\ d = "DEPOSIT" => Announced(n.seen, n.asked)
      BY <3>1, <2>1, <2>4, KeepStays
    <3>5. ~ overlap' => Current(n)'
      BY <3>1, <3>4, <2>2 DEF Current, Announced, TypeIn
    <3> QED
      BY <3>3, <3>5
  <2> QED
    BY <2>1, <2>5, KeepStays, KeepsAndSuspends DEF RoutedBy
<1> QED
  BY <1>3, <1>4

LEMMA HandleStep ==
    ASSUME DialogsInv, NEW s, NEW J, NEW ask, RoutedBy(s, J, ask), Handle(s, J, ask)
    PROVE  DialogsInv'
<1>1. Quiet /\ presses' \in 0..MaxPresses
  BY InvParts DEF Handle
<1>2. \/ AnswerStep(s, J) \/ AnswerMinQty(s, J) \/ AnswerMaxQty(s, J)
      \/ AnswerProductName(s, J) \/ AnswerSearch(s, J)
      \/ AnswerEdit(s, J, ask)
      \/ AnswerChannelUsername(s, J) \/ AnswerBroadcast(s, J)
      \/ AnswerPanelPassword(s, J) \/ AnswerProviderKey(s, J) \/ AnswerPanelInbound(s, J)
      \/ AnswerAmount(s, J) \/ FinishForm(s, J, ask)
  BY DEF Handle
<1> QED
  BY <1>1, <1>2, AnswerStepStep, AnswerMinQtyStep, AnswerMaxQtyStep, AnswerProductNameStep,
     AnswerSearchStep, AnswerEditStep, AnswerChannelUsernameStep, AnswerBroadcastStep,
     AnswerPanelPasswordStep, AnswerProviderKeyStep, AnswerPanelInboundStep, AnswerAmountStep,
     FinishFormStep

LEMMA MessageStep ==
    ASSUME DialogsInv, Message
    PROVE  DialogsInv'
<1>1. isAdmin /\ state # "None" /\ Handle(state, jobs, asked)
  BY DEF Message
<1>2. RoutedBy(state, jobs, asked)
  BY <1>1, InvParts DEF RoutedBy, ChatOK
<1> QED
  BY <1>1, <1>2, HandleStep

LEMMA RouteStep ==
    ASSUME DialogsInv, Route
    PROVE  DialogsInv'
<1> DEFINE ask == IF state \in DOMAIN Edits \cup {"RECEIPT"} THEN asked ELSE Nothing
<1>1. /\ ~ isAdmin /\ state # "None" /\ Keep(jobs) /\ Quiet
      /\ Suspend(jobs, Job("routed", state, Empty, ask))
      /\ presses' \in 0..MaxPresses
  BY InvParts DEF Route
<1>2. state \in UserStates
  BY <1>1, InvParts DEF ChatOK
<1>3. ASSUME NEW n, n = Job("routed", state, Empty, ask)
      PROVE  JobTyped(n)' /\ Current(n)'
  <2>1. n.step = "routed" /\ n.dialog = state /\ n.asked = ask
    BY <1>3, JobFields
  <2>2. state' = state /\ asked' = asked /\ isAdmin' = isAdmin
    BY <1>1, KeepStays
  <2>3. JobTyped(n)'
    BY <2>1, <2>2, <1>1, <1>2 DEF JobTyped
  <2>4. Current(n)'
    BY <2>1, <2>2 DEF Current
  <2> QED
    BY <2>3, <2>4
<1> HIDE DEF ask
<1> QED
  BY <1>1, <1>3, InvParts, KeepStays, KeepsAndSuspends

LEMMA DeliverStep ==
    ASSUME DialogsInv, NEW i \in DOMAIN jobs, Deliver(i)
    PROVE  DialogsInv'
<1> DEFINE j == jobs[i]
<1>1. j.step = "routed" /\ Handle(j.dialog, Rest(i), j.asked)
  BY DEF Deliver, Rest
<1>2. JobOK(j) /\ Part(Rest(i)) /\ Left(Rest(i), {})
  BY <1>1, InvParts
<1>3. ~ isAdmin /\ j.dialog \in UserStates
  BY <1>1, <1>2 DEF JobOK, JobTyped
<1>4. ~ overlap => j.dialog = state /\ (j.dialog \in EditNames \cup {"RECEIPT"} => j.asked = asked)
  BY <1>1, <1>2, EditTable DEF JobOK, Fresh, Current
<1>5. UserStates \subseteq States \ {"None"}
  BY EditTable, FinishTable DEF UserStates, States, EditNames, FinishNames
<1>6. RoutedBy(j.dialog, Rest(i), j.asked)
  BY <1>2, <1>3, <1>4, <1>5 DEF RoutedBy
<1> QED
  BY <1>1, <1>6, HandleStep
-----------------------------------------------------------------------------
(* The catalogue.                                                          *)

LEMMA CreateProductKeeps ==
    ASSUME CatalogOK, NEW row, CreateProduct(row), row \in Product
    PROVE  CatalogOK'
<1> DEFINE p == CHOOSE id \in Products : id \notin issued
<1>1. p \in Products /\ p \notin issued /\ row.category \in categories
  BY DEF CreateProduct, CanCreateProduct
<1>2. /\ products' = With(p, row, products) /\ issued' = issued \cup {p}
      /\ categories' = categories /\ ordered' = ordered /\ deleting' = deleting
  BY DEF CreateProduct
<1> HIDE DEF p
<1>3. DOMAIN products' = {p} \cup DOMAIN products
  BY <1>2, WithOne
<1>4. \A q \in DOMAIN products' : products'[q] = IF q = p THEN row ELSE products[q]
  BY <1>2 DEF With, Over
<1>5. \A q \in DOMAIN products' :
         products'[q] \in Product /\ products'[q].category \in categories'
  BY <1>1, <1>2, <1>3, <1>4 DEF CatalogOK
<1>6. /\ DOMAIN products' \subseteq Products
      /\ categories' \subseteq Categories
      /\ ordered' \subseteq DOMAIN products'
      /\ deleting' \subseteq Products \cup Categories
      /\ DOMAIN products' \cup categories' \subseteq issued'
  BY <1>1, <1>2, <1>3 DEF CatalogOK
<1> QED
  BY <1>5, <1>6 DEF CatalogOK, Product, Fixed, Variable

LEMMA CreateCategoryKeeps ==
    ASSUME CatalogOK, CreateCategory
    PROVE  CatalogOK'
<1>1. PICK c \in Categories : categories' = categories \cup {c} /\ issued' = issued \cup {c}
  BY DEF CreateCategory, CanCreateCategory
<1>2. UNCHANGED <<products, ordered, deleting>>
  BY DEF CreateCategory
<1> QED
  BY <1>1, <1>2 DEF CatalogOK, Product, Fixed, Variable

LEMMA OthersKeepCatalog ==
    ASSUME CatalogOK,
           \/ \E p \in Products : PlaceOrder(p) \/ CountOrders(p) \/ DeleteProduct(p)
           \/ \E c \in Categories : CountProducts(c) \/ DeleteCategory(c)
    PROVE  CatalogOK'
<1>1. ASSUME NEW p \in Products, PlaceOrder(p)
      PROVE  CatalogOK'
  BY <1>1 DEF PlaceOrder, CatalogOK, Product, Fixed, Variable
<1>2. ASSUME NEW p \in Products, CountOrders(p)
      PROVE  CatalogOK'
  BY <1>2 DEF CountOrders, CatalogOK, Product, Fixed, Variable
<1>3. ASSUME NEW p \in Products, DeleteProduct(p)
      PROVE  CatalogOK'
  <2>1. /\ UNCHANGED <<categories, ordered, issued>> /\ deleting' = deleting \ {p}
        /\ DOMAIN products' \subseteq DOMAIN products
        /\ ordered \subseteq DOMAIN products => ordered \subseteq DOMAIN products'
        /\ \A q \in DOMAIN products' : products'[q] = products[q]
    <3>1. CASE p \in ordered
      BY <3>1, <1>3 DEF DeleteProduct
    <3>2. CASE p \notin ordered
      <4>1. products' = [q \in DOMAIN products \ {p} |-> products[q]]
        BY <3>2, <1>3 DEF DeleteProduct
      <4> QED
        BY <4>1, <3>2, <1>3 DEF DeleteProduct
    <3> QED
      BY <3>1, <3>2
  <2> QED
    BY <2>1 DEF CatalogOK, Product, Fixed, Variable
<1>4. ASSUME NEW c \in Categories, CountProducts(c)
      PROVE  CatalogOK'
  BY <1>4 DEF CountProducts, CatalogOK, Product, Fixed, Variable
<1>5. ASSUME NEW c \in Categories, DeleteCategory(c)
      PROVE  CatalogOK'
  <2>1. /\ UNCHANGED <<products, ordered, issued>> /\ deleting' = deleting \ {c}
        /\ categories' \subseteq categories
        /\ \A p \in DOMAIN products :
              products[p].category \in categories => products[p].category \in categories'
    BY <1>5 DEF DeleteCategory
  <2> QED
    BY <2>1 DEF CatalogOK, Product, Fixed, Variable
<1> QED
  BY <1>1, <1>2, <1>3, <1>4, <1>5

LEMMA OfficeWorkStep ==
    ASSUME DialogsInv, OfficeWork
    PROVE  DialogsInv'
<1>1. /\ UNCHANGED <<isAdmin, inPlay, state, data, asked, life, overlap, jobs>>
      /\ wrote' = NoRow
      /\ storedFrom' = (IF jobs' = <<>> /\ data' = Empty THEN {} ELSE storedFrom)
      /\ broken' = (IF jobs' = <<>> /\ data' = Empty THEN {} ELSE broken)
      /\ presses' \in 0..MaxPresses
  BY InvParts, PressIsCounted DEF OfficeWork, chatVars, NoStore, Lost, Remembered
<1>2. storedFrom' \subseteq storedFrom /\ broken' \subseteq broken
      /\ (storedFrom' # {} => broken' = broken)
  BY <1>1
<1>3. CatalogOK'
  BY InvParts, OthersKeepCatalog DEF OfficeWork
<1>4. ChatOK'
  BY <1>1, SameData, InvParts, ChatStays
<1>5. Scalars' /\ BrokenOK'
  BY <1>1, <1>2, InvParts DEF Scalars, BrokenOK, Catching, AdminDialogs, AllDialogs, UserDialogs,
                              Edits, Forms
<1>9. StoredOK'
  BY <1>1, <1>2, InvParts DEF StoredOK, Lingers, Claiming
<1>6. ASSUME NEW j, JobOK(j)
      PROVE  JobOK(j)'
  <2>1. JobTyped(j)'
    BY <1>1, <1>6 DEF JobOK, JobTyped, Honest, Sellable, Claiming, Mixing
  <2>2. Current(j) => Current(j)'
    BY <1>1 DEF Current, Honest, Announced, TypeIn, Over
  <2> QED
    BY <2>1, <2>2, <1>1, <1>2, <1>6 DEF JobOK, Fresh
<1>7. JobsOK'
  <2>1. \A k \in DOMAIN jobs : JobOK(jobs[k])'
    <3>1. \A k \in DOMAIN jobs : JobOK(jobs[k])
      BY InvParts
    <3>2. \A j : JobOK(j) => JobOK(j)'
      BY <1>6
    <3>3. ASSUME NEW k \in DOMAIN jobs
          PROVE  JobOK(jobs[k])'
      <4>1. PICK j : j = jobs[k]
        OBVIOUS
      <4>2. jobs'[k] = j
        BY <4>1, <1>1
      <4> QED
        BY <4>1, <4>2, <3>1, <3>2
    <3> QED
      BY <3>3
  <2> QED
    BY <2>1, <1>1, InvParts DEF JobsOK, Range1
<1>8. ClaimsApart'
  BY <1>1, InvParts DEF ClaimsApart
<1> QED
  BY <1>1, <1>3, <1>4, <1>5, <1>7, <1>8, <1>9, NothingStored DEF DialogsInv
-----------------------------------------------------------------------------
(* The rest of a suspended handler.                                        *)

LEMMA FinishOpenStep ==
    ASSUME DialogsInv, UNCHANGED presses, NEW i \in DOMAIN jobs, FinishOpen(i)
    PROVE  DialogsInv'
<1> DEFINE j == jobs[i]
           key == Edits[j.dialog].key
<1>1. /\ j.step = "open" /\ Quiet /\ isAdmin' = isAdmin
      /\ state' = j.dialog /\ data' = Over(j.seen, data) /\ asked' = j.asked
      /\ overlap' = (overlap \/ Rest(i) # <<>>) /\ life' = life
      /\ jobs' = Rest(i) /\ presses' \in 0..MaxPresses
  BY InvParts DEF FinishOpen, Ask, Quiet
<1>2. JobTyped(j)
  BY InvParts DEF JobOK
<1>3. /\ j.dialog \in EditNames /\ (isAdmin \/ j.dialog \in UserStates)
      /\ j.asked = Asked(j.asked.what, 0)
      /\ j.seen = With(key, j.asked.what, Empty)
  BY <1>1, <1>2, EditTable DEF JobTyped
<1>4. DOMAIN j.seen = {key} /\ j.seen[key] = j.asked.what
  <2> HIDE DEF j, key
  <2>1. PICK k, v : k = key /\ v = j.asked.what
    OBVIOUS
  <2>2. j.seen = With(k, v, Empty)
    BY <1>3, <2>1
  <2>3. DOMAIN With(k, v, Empty) = {k} /\ With(k, v, Empty)[k] = v
    BY SingleEntry
  <2> QED
    BY <2>1, <2>2, <2>3
<1>5. key \in EditKeys
  BY <1>3, EditTable
<1> HIDE DEF j, key
<1>6. key \in DOMAIN data' /\ data'[key] = j.asked.what
  <2>1. data' = Over(j.seen, data)
    BY <1>1
  <2>2. DOMAIN data' = {key} \cup DOMAIN data
    BY <2>1, <1>4 DEF Over
  <2>3. data'[key] = j.seen[key]
    BY <2>1, <1>4 DEF Over
  <2> QED
    BY <2>2, <2>3, <1>4
<1>7. asked' = Asked(data'[key], 0)
  BY <1>1, <1>3, <1>6
<1>8. SameOn({"min_qty", "max_qty"}, data, data')
  <2>1. {"min_qty", "max_qty"} \cap DOMAIN j.seen = {}
    BY <1>4, <1>5 DEF EditKeys
  <2>2. data' = Over(j.seen, data)
    BY <1>1
  <2> QED
    BY <2>1, <2>2 DEF SameOn, Over
<1>9. ChatOK'
  BY <1>1, <1>3, <1>6, <1>7, <1>8, InvParts, ChatEdits DEF key
<1>10. Part(Rest(i)) /\ Left(Rest(i), {})
  BY <1>1, InvParts DEF j
<1> QED
  BY <1>1, <1>9, <1>10, LeavesNothing

LEMMA ContinueStep ==
    ASSUME DialogsInv, UNCHANGED presses, NEW i \in DOMAIN jobs, Continue(i)
    PROVE  DialogsInv'
<1> DEFINE j == jobs[i]
<1>1. /\ j.step = "next" /\ Quiet /\ isAdmin' = isAdmin
      /\ state' = NextState[j.dialog] /\ data' = Over(j.seen, data) /\ asked' = j.asked
      /\ overlap' = (overlap \/ Rest(i) # <<>>) /\ life' = life
      /\ jobs' = Rest(i) /\ presses' \in 0..MaxPresses
  BY InvParts DEF Continue, Ask, Quiet
<1>2. JobTyped(j) /\ (~ overlap => Current(j))
  BY <1>1, InvParts DEF JobOK, Fresh
<1>3. /\ j.dialog \in {"CHANNEL", "BROADCAST", "DEPOSIT"}
      /\ DOMAIN j.seen \subseteq {"channel_username", "broadcast_message_id", "amount",
                                  "token_amount"}
      /\ isAdmin \/ j.dialog = "DEPOSIT"
  BY <1>1, <1>2 DEF JobTyped
<1>4. /\ j.dialog = "CHANNEL" => NextState[j.dialog] = "CHANNEL_INVITE_LINK"
      /\ j.dialog = "BROADCAST" => NextState[j.dialog] = "None"
      /\ j.dialog = "DEPOSIT" => NextState[j.dialog] = "RECEIPT"
  BY DEF NextState
<1>5. ~ overlap /\ j.dialog = "DEPOSIT" => Announced(Over(j.seen, data), j.asked)
  BY <1>1, <1>2 DEF Current
<1> HIDE DEF j
<1>6. SameOn({"min_qty", "max_qty"}, data, data')
  <2>1. {"min_qty", "max_qty"} \cap DOMAIN j.seen = {}
    BY <1>3
  <2>2. data' = Over(j.seen, data)
    BY <1>1
  <2> QED
    BY <2>1, <2>2 DEF SameOn, Over
<1>7. ChatOK'
  <2>1. CASE j.dialog = "DEPOSIT"
    <3>1. /\ state' = "RECEIPT" /\ state' \in States /\ state' \notin DOMAIN Edits
          /\ state' \in UserStates
      BY <2>1, <1>1, <1>4, StatesAre, EditTable DEF EditNames, UserStates
    <3>2. ~ overlap' => Announced(data', asked')
      BY <2>1, <1>1, <1>5
    <3>3. \A k \in {"min_qty", "max_qty"} : k \in DOMAIN data' => data'[k] \in 1..MaxQty
      BY <1>6, InvParts DEF SameOn, ChatOK
    <3> QED
      BY <3>1, <3>2, <3>3, <1>1 DEF ChatOK, States, Announced, TypeIn
  <2>2. CASE j.dialog # "DEPOSIT"
    <3>1. state' \in PlainStates /\ isAdmin
      BY <2>2, <1>1, <1>3, <1>4, StatesAre
    <3> QED
      BY <3>1, <1>1, <1>6, InvParts, ChatMoves
  <2> QED
    BY <2>1, <2>2
<1>8. Part(Rest(i)) /\ Left(Rest(i), {})
  BY <1>1, InvParts DEF j
<1> QED
  BY <1>1, <1>7, <1>8, LeavesNothing

LEMMA ChannelExistsStep ==
    ASSUME DialogsInv, UNCHANGED presses, NEW i \in DOMAIN jobs, ChannelExists(i)
    PROVE  DialogsInv'
BY InvParts, ClearsAll DEF ChannelExists

LEMMA FinishLookStep ==
    ASSUME DialogsInv, UNCHANGED presses, NEW i \in DOMAIN jobs, FinishLook(i)
    PROVE  DialogsInv'
<1> DEFINE j == jobs[i]
<1>1. j.step = "look" /\ jobs' = Rest(i) /\ Quiet /\ isAdmin' = isAdmin
      /\ presses' \in 0..MaxPresses /\ Part(Rest(i)) /\ Left(Rest(i), {})
  BY InvParts DEF FinishLook, Quiet
<1>2. j.dialog \in {"PRODUCT", "USERS", "SEARCH"}
  BY <1>1, InvParts DEF JobOK, JobTyped
<1>3. \/ Goto("None", data, Rest(i)) \/ Clear(Rest(i)) \/ Keep(Rest(i))
  <2>1. CASE j.dialog = "SEARCH"
    BY <2>1, Zenon DEF FinishLook
  <2>2. CASE j.dialog = "USERS"
    BY <2>2, Zenon DEF FinishLook
  <2>3. CASE j.dialog = "PRODUCT"
    BY <2>3, Zenon DEF FinishLook
  <2> QED
    BY <2>1, <2>2, <2>3, <1>2
<1>4. CASE Goto("None", data, Rest(i))
  <2>1. /\ state' = "None" /\ data' = data /\ asked' = asked
        /\ overlap' = (overlap \/ Rest(i) # <<>>) /\ life' = life
    BY <1>4 DEF Goto, Ask
  <2>2. ChatOK'
    BY <2>1, <1>1, StatesAre, SameData, InvParts, ChatMoves
  <2> QED
    BY <2>1, <2>2, <1>1, LeavesNothing
<1>5. CASE Clear(Rest(i))
  BY <1>5, <1>1, ClearsAll
<1>6. CASE Keep(Rest(i))
  BY <1>6, <1>1, KeepStays, LeavesNothing
<1> QED
  BY <1>3, <1>4, <1>5, <1>6

LEMMA ReadLateStep ==
    ASSUME DialogsInv, UNCHANGED presses, NEW i \in DOMAIN jobs, ReadLate(i)
    PROVE  DialogsInv'
<1> DEFINE j == jobs[i]
           more == /\ j.dialog = "VPN_PANEL" /\ "vpn_panel_type" \in DOMAIN data
                   /\ data["vpn_panel_type"] = "SANAEI"
<1>1. /\ j.step = "late" /\ Quiet /\ isAdmin' = isAdmin
      /\ presses' \in 0..MaxPresses /\ Part(Rest(i)) /\ Left(Rest(i), {})
  BY InvParts DEF ReadLate, Quiet
<1>2. JobTyped(j) /\ (~ overlap => Current(j))
  BY <1>1, InvParts DEF JobOK, Fresh
<1>3. isAdmin /\ j.dialog \in {"VPN_PANEL", "PROVIDER", "PROVIDER_EDIT_API_KEY"}
  BY <1>1, <1>2 DEF JobTyped
<1>4. CASE more
  <2>1. /\ state' = "VPN_PANEL_INBOUND_ID" /\ data' = data /\ asked' = asked
        /\ overlap' = (overlap \/ Rest(i) # <<>>) /\ life' = life /\ jobs' = Rest(i)
    BY <1>4 DEF ReadLate, Goto, Ask
  <2>2. ChatOK'
    BY <2>1, <1>1, <1>3, StatesAre, SameData, InvParts, ChatMoves
  <2> QED
    BY <2>1, <2>2, <1>1, LeavesNothing
<1>5. CASE ~ more
  <2>1. /\ Take(Rest(i))
        /\ jobs' = Append(Rest(i), Job("claimed", j.dialog, Of(j.dialog), j.asked))
    BY <1>5 DEF ReadLate
  <2>2. j.dialog \in Claiming
    BY <1>3 DEF Claiming
  <2>3. Len(Rest(i)) < MaxJobs
    <3>1. /\ Len(jobs) \in Nat /\ MaxJobs \in Nat /\ Len(jobs) <= MaxJobs
          /\ Len(Rest(i)) = Len(jobs) - 1
      BY InvParts, RestIsPart, LenProperties, DialogsAssumption DEF JobsOK
    <3> QED
      BY <3>1
  <2>4. ASSUME j.dialog \in EditNames, ~ overlap
        PROVE  Asked(Of(j.dialog)[Edits[j.dialog].key], 0) = j.asked
    <3>1. state = j.dialog /\ j.asked = asked
      BY <2>4, <1>1, <1>2, EditTable DEF Current
    <3> QED
      BY <2>4, <3>1, EditIsHonest
  <2>5. j.dialog \in EditNames => j.dialog \in Mixing
    BY <1>3 DEF EditNames, Mixing
  <2> HIDE DEF j, more
  <2> QED
    BY <1>1, <2>1, <2>2, <2>3, <2>4, <2>5, TakesAndSuspends
<1> QED
  BY <1>4, <1>5

\* What the chat and the handlers are after the row of jobs[i].
LEMMA LingerLeaves ==
    ASSUME DialogsInv, NEW i \in DOMAIN jobs, jobs[i].step \in {"store", "claimed"}, Linger(i),
           isAdmin' = isAdmin
    PROVE  /\ ChatOK'
           /\ life' = life /\ overlap' = (overlap \/ Rest(i) # <<>>)
           /\ \/ jobs[i].step = "claimed" /\ jobs' = Rest(i)
              \/ /\ jobs[i].step = "store"
                 /\ \E n : /\ jobs' = Append(Rest(i), n)
                           /\ n.step = "stored"
                           /\ n.life = jobs[i].life /\ n.overlap = FALSE
                           /\ n.dialog = jobs[i].dialog
<1>1. CASE jobs[i].step = "claimed"
  <2>1. Keep(Rest(i)) /\ jobs' = Rest(i)
    BY <1>1 DEF Linger, Rest
  <2>2. /\ state' = state /\ data' = data /\ asked' = asked
        /\ overlap' = (overlap \/ Rest(i) # <<>>) /\ life' = life
    BY <2>1 DEF Keep, Goto, Ask
  <2> QED
    BY <1>1, <2>1, <2>2, SameData, InvParts, ChatStays
<1>2. CASE jobs[i].step = "store"
  <2> DEFINE new == IF jobs[i].dialog \in {"QUANTITY", "CODE"} THEN "None" ELSE state
             n == [step |-> "stored", dialog |-> jobs[i].dialog, seen |-> Empty,
                   asked |-> Nothing, life |-> jobs[i].life, overlap |-> FALSE]
  <2>1. Goto(new, data, Rest(i)) /\ jobs' = Append(Rest(i), n)
    BY <1>2 DEF Linger, Rest
  <2>2. /\ state' = new /\ data' = data /\ asked' = asked
        /\ overlap' = (overlap \/ Rest(i) # <<>>) /\ life' = life
    BY <2>1 DEF Goto, Ask
  <2>3. ChatOK'
    <3>1. CASE new = "None"
      BY <3>1, <2>2, StatesAre, SameData, InvParts, ChatMoves
    <3>2. CASE new = state
      BY <3>2, <2>2, SameData, InvParts, ChatStays
    <3> QED
      BY <3>1, <3>2
  <2>4. n.step = "stored" /\ n.life = jobs[i].life /\ n.overlap = FALSE
        /\ n.dialog = jobs[i].dialog
    OBVIOUS
  <2> HIDE DEF n, new
  <2> QED
    BY <1>2, <2>1, <2>2, <2>3, <2>4
<1> QED
  BY <1>1, <1>2

\* A handler stores its row: got, where ask was asked for.
LEMMA StoreStep ==
    ASSUME DialogsInv, NEW i \in DOMAIN jobs, jobs[i].step \in {"store", "claimed"},
           Linger(i), NEW got, NEW ask, Stored(jobs[i], got, ask),
           CatalogOK', UNCHANGED <<isAdmin, inPlay, presses>>,
           got = ask \/ ((jobs[i].overlap \/ overlap) /\ jobs[i].dialog \in Mixing)
    PROVE  DialogsInv'
<1> DEFINE j == jobs[i]
           J == Rest(i)
           taken == <<j.life, j.dialog>>
<1>1. /\ JobTyped(j) /\ j.life \in 0..life
      /\ j.step = "claimed" => j.life < life /\ taken \notin storedFrom
      /\ j.step = "store" => j.dialog \notin Claiming
      /\ j.step = "claimed" => j.dialog \in Claiming
      /\ j.step = "store" /\ ~ overlap => ~ j.overlap /\ j.life = life
  BY InvParts DEF JobOK, JobTyped, Fresh
<1>2. /\ wrote'.dialog = j.dialog /\ wrote'.got = got /\ wrote'.asked = ask
      /\ wrote'.again = (taken \in storedFrom)
      /\ wrote'.overlap = (j.overlap \/ overlap)
      /\ wrote'.broken = (taken \in broken)
      /\ storedFrom' = (IF jobs' = <<>> /\ data' = Empty THEN {} ELSE storedFrom \cup {taken})
      /\ broken' = (IF jobs' = <<>> /\ data' = Empty THEN {} ELSE broken)
  BY DEF Stored, Remembered
<1>3. /\ life \in Nat /\ overlap \in BOOLEAN /\ StoredOK /\ BrokenOK /\ ChatOK /\ Scalars
      /\ JobsOK /\ ClaimsApart /\ Part(J) /\ Left(J, {})
      /\ isAdmin' = isAdmin
  BY InvParts
<1>4. AnswersGoWhereAsked'
  BY <1>2 DEF AnswersGoWhereAsked
<1>20. ~ Lingers(taken) /\ \A e : Lingers(e) => J # <<>>
  <2>1. SUFFICES ASSUME NEW e, Lingers(e) PROVE FALSE
    OBVIOUS
  <2>2. DOMAIN jobs = 1..1
    BY <2>1, <1>3, LenProperties DEF Lingers, JobsOK
  <2>3. i = 1
    BY <2>2
  <2> QED
    BY <2>1, <2>3 DEF Lingers
<1>5. OncePerForm'
  <2>1. SUFFICES ASSUME taken \in storedFrom
                 PROVE  /\ j.dialog \notin Claiming
                        /\ j.overlap \/ overlap \/ (taken \in broken /\ j.dialog \notin Catching)
    BY <1>2 DEF OncePerForm, Claiming, Catching
  <2>2. j.step = "store"
    BY <1>1, <2>1
  <2>3. taken[1] = j.life /\ taken[2] = j.dialog
    OBVIOUS
  <2>4. CASE ~ overlap
    <3>1. ~ (taken[1] < life)
      BY <2>2, <2>3, <2>4, <1>1, <1>3
    <3>2. taken \in broken
      BY <2>1, <2>4, <3>1, <1>3, <1>20 DEF StoredOK
    <3> QED
      BY <3>2, <2>2, <2>3, <1>1, <1>3 DEF BrokenOK
  <2> QED
    BY <2>2, <2>4, <1>1
<1>6. /\ ChatOK'
      /\ life' = life /\ overlap' = (overlap \/ J # <<>>)
      /\ \/ j.step = "claimed" /\ jobs' = J
         \/ /\ j.step = "store"
            /\ \E n : /\ jobs' = Append(J, n)
                      /\ n.step = "stored" /\ n.life = j.life /\ n.overlap = FALSE
                      /\ n.dialog = j.dialog
  BY <1>3, LingerLeaves
<1>7. Moved(J)
  BY <1>6 DEF Moved
<1>8. J \in Seq(Range1(jobs)) /\ Len(J) < MaxJobs
  <2>1. /\ Len(jobs) \in Nat /\ MaxJobs \in Nat /\ Len(jobs) <= MaxJobs
        /\ Len(J) = Len(jobs) - 1 /\ J \in Seq(Range1(jobs))
    BY <1>3, RestIsPart, LenProperties, DialogsAssumption DEF JobsOK, Part
  <2> QED
    BY <2>1
<1>9. \A k \in DOMAIN J : J[k].step = "claimed" => <<J[k].life, J[k].dialog>> \notin storedFrom'
  <2>1. SUFFICES ASSUME NEW k \in DOMAIN J, J[k].step = "claimed"
                 PROVE  <<J[k].life, J[k].dialog>> \notin storedFrom \cup {taken}
    BY <1>2
  <2>2. PICK m \in DOMAIN jobs : m # i /\ J[k] = jobs[m]
    BY <2>1, <1>3, RestIsPart DEF J
  <2>3. JobOK(jobs[m])
    BY InvParts
  <2>4. /\ <<J[k].life, J[k].dialog>> \notin storedFrom
        /\ J[k].dialog \in Claiming
    BY <2>1, <2>2, <2>3 DEF JobOK, JobTyped
  <2>5. J[k].life # j.life \/ J[k].dialog # j.dialog
    <3>1. CASE j.step = "claimed"
      BY <3>1, <2>1, <2>2, <1>3 DEF ClaimsApart, j
    <3>2. CASE j.step = "store"
      BY <3>2, <2>4, <1>1
    <3> QED
      BY <3>1, <3>2
  <2> QED
    BY <2>4, <2>5 DEF taken
<1> HIDE DEF j, J
<1>10. JobsOK' /\ ClaimsApart'
  <2>1. CASE j.step = "claimed" /\ jobs' = J
    BY <2>1, <1>3, <1>7, <1>9, JobsAfter
  <2>2. CASE j.step = "store"
    <3>1. PICK n : /\ jobs' = Append(J, n)
                   /\ n.step = "stored" /\ n.life = j.life /\ n.overlap = FALSE
                   /\ n.dialog = j.dialog
      BY <2>2, <1>6
    <3>2. JobTyped(n)' /\ Current(n)'
      BY <3>1 DEF JobTyped, Current
    <3>3. ~ overlap' => ~ n.overlap /\ n.life = life'
      BY <3>1, <2>2, <1>1, <1>6
    <3>4. n.life \in 0..life' /\ n.step # "claimed"
      BY <3>1, <1>1, <1>6
    <3>5. JobOK(n)'
      BY <3>2, <3>3, <3>4 DEF JobOK, Fresh
    <3> QED
      BY <3>1, <3>4, <3>5, <1>3, <1>7, <1>8, <1>9, JobsAfter
  <2> QED
    BY <2>1, <2>2, <1>6
<1>11. StoredOK'
  <2>1. SUFFICES ASSUME NEW e \in storedFrom'
                 PROVE  /\ e[1] \in 0..life'
                        /\ \/ e[1] < life'
                           \/ e[2] \notin Claiming /\ (overlap' \/ e \in broken' \/ Lingers(e)')
    BY DEF StoredOK, Claiming
  <2>2. (e \in storedFrom \/ e = taken) /\ broken' = broken
    BY <2>1, <1>2
  <2>3. CASE e \in storedFrom
    <3>1. /\ e[1] \in 0..life
          /\ e[1] < life \/ (e[2] \notin Claiming /\ (overlap \/ e \in broken \/ Lingers(e)))
      BY <2>3, <1>3 DEF StoredOK
    <3> QED
      BY <3>1, <2>2, <1>6, <1>20
  <2>4. CASE e = taken
    <3>1. e[1] = j.life /\ e[2] = j.dialog
      BY <2>4 DEF taken
    <3>2. CASE j.step = "claimed"
      BY <3>1, <3>2, <1>1, <1>6
    <3>3. CASE j.step = "store" /\ J # <<>>
      BY <3>1, <3>3, <1>1, <1>6
    <3>4. CASE j.step = "store" /\ J = <<>>
      <4>1. PICK n : /\ jobs' = Append(J, n)
                     /\ n.step = "stored" /\ n.life = j.life /\ n.dialog = j.dialog
        BY <3>4, <1>6
      <4>2. jobs' = <<n>>
        BY <4>1, <3>4
      <4>3. Lingers(e)'
        BY <4>1, <4>2, <2>4 DEF Lingers, taken
      <4> QED
        BY <3>1, <3>4, <4>3, <1>1, <1>6
    <3> QED
      BY <3>2, <3>3, <3>4, <1>6
  <2> QED
    BY <2>2, <2>3, <2>4
<1>12. BrokenOK'
  BY <1>2, <1>3 DEF BrokenOK, Catching
<1>13. Scalars'
  BY <1>3, <1>6 DEF Scalars, AdminDialogs, AllDialogs, UserDialogs, Edits, Forms
<1> QED
  BY <1>4, <1>5, <1>6, <1>10, <1>11, <1>12, <1>13 DEF DialogsInv

LEMMA StoreEditStep ==
    ASSUME DialogsInv, NEW i \in DOMAIN jobs, StoreEdit(i)
    PROVE  DialogsInv'
<1> DEFINE j == jobs[i]
           got == Asked(j.seen[Edits[j.dialog].key], 0)
<1>1. /\ j.step \in {"store", "claimed"} /\ j.dialog \in DOMAIN Edits
      /\ Edits[j.dialog].key \in DOMAIN j.seen
      /\ Linger(i) /\ Stored(j, got, j.asked)
      /\ UNCHANGED <<isAdmin, inPlay, presses>> /\ UNCHANGED catalogVars
  BY DEF StoreEdit
<1>2. CatalogOK'
  BY <1>1, InvParts, SameCatalog
<1>3. JobTyped(j) /\ (j.step = "store" /\ ~ overlap => Current(j))
  BY InvParts DEF JobOK, Fresh
<1>4. Honest(j) \/ ((j.overlap \/ overlap) /\ j.dialog \in Mixing)
  <2>1. CASE j.step = "store"
    BY <2>1, <1>1, <1>3, EditTable DEF JobTyped, Current, Honest
  <2>2. CASE j.step = "claimed"
    BY <2>2, <1>1, <1>3 DEF JobTyped, Honest
  <2> QED
    BY <2>1, <2>2, <1>1
<1>5. got = j.asked \/ ((j.overlap \/ overlap) /\ j.dialog \in Mixing)
  BY <1>1, <1>4 DEF Honest
<1> HIDE DEF got
<1> QED
  BY <1>1, <1>2, <1>5, StoreStep

LEMMA NewProductIsProduct ==
    ASSUME CatalogOK, NEW seen, Sellable(seen), NewProduct(seen).category \in categories,
           Needs("PRODUCT", seen) \subseteq DOMAIN seen
    PROVE  NewProduct(seen) \in Product
<1>1. CASE seen["product_type"] = "FIXED"
  <2>1. NewProduct(seen) = Fixed(seen["category_id"])
    BY <1>1 DEF NewProduct
  <2>2. Fixed(seen["category_id"]).category = seen["category_id"]
    BY DEF Fixed
  <2>3. seen["category_id"] \in Categories
    BY <2>1, <2>2 DEF CatalogOK
  <2> QED
    BY <2>1, <2>3 DEF Product
<1>2. CASE seen["product_type"] # "FIXED"
  <2>1. NewProduct(seen) = Variable(seen["category_id"], seen["min_qty"], seen["max_qty"])
    BY <1>2 DEF NewProduct
  <2>2. Variable(seen["category_id"], seen["min_qty"], seen["max_qty"]).category = seen["category_id"]
    BY DEF Variable
  <2>3. seen["category_id"] \in Categories
    BY <2>1, <2>2 DEF CatalogOK
  <2>4. {"min_qty", "max_qty"} \subseteq DOMAIN seen
    BY <1>2 DEF Needs
  <2>5. /\ seen["min_qty"] \in 1..MaxQty /\ seen["max_qty"] \in 1..MaxQty
        /\ seen["min_qty"] <= seen["max_qty"]
    BY <1>2, <2>4 DEF Sellable
  <2>6. PICK q : q = <<seen["min_qty"], seen["max_qty"]>>
    OBVIOUS
  <2>7. q \in {r \in (1..MaxQty) \X (1..MaxQty) : r[1] <= r[2]}
    BY <2>5, <2>6
  <2>8. NewProduct(seen) = Variable(seen["category_id"], q[1], q[2])
    BY <2>1, <2>6
  <2> QED
    BY <2>3, <2>7, <2>8 DEF Product
<1> QED
  BY <1>1, <1>2

LEMMA StoreFormStep ==
    ASSUME DialogsInv, UNCHANGED presses, NEW i \in DOMAIN jobs, StoreForm(i)
    PROVE  DialogsInv'
<1> DEFINE j == jobs[i]
<1>1. /\ j.step \in {"store", "claimed"} /\ j.dialog \in DOMAIN Forms
      /\ Needs(j.dialog, j.seen) \subseteq DOMAIN j.seen
      /\ Linger(i)
      /\ UNCHANGED <<isAdmin, inPlay, presses>>
  BY DEF StoreForm
<1>2. JobTyped(j) /\ (j.step = "store" /\ ~ overlap => Current(j))
  BY InvParts DEF JobOK, Fresh
<1>3. CatalogOK'
  <2>1. CASE j.dialog = "PRODUCT"
    <3>1. CreateProduct(NewProduct(j.seen))
      BY <2>1, Zenon DEF StoreForm
    <3>2. j.step = "store"
      BY <2>1, <1>1, <1>2 DEF JobTyped, Claiming
    <3>3. Sellable(j.seen)
      BY <2>1, <3>2, <1>2 DEF JobTyped
    <3>4. NewProduct(j.seen).category \in categories
      BY <3>1 DEF CreateProduct, CanCreateProduct
    <3>5. NewProduct(j.seen) \in Product
      BY <2>1, <3>3, <3>4, <1>1, InvParts, NewProductIsProduct
    <3> QED
      BY <3>1, <3>5, InvParts, CreateProductKeeps
  <2>2. CASE j.dialog = "CATEGORY"
    <3>1. CreateCategory
      BY <2>2, Zenon DEF StoreForm
    <3> QED
      BY <3>1, InvParts, CreateCategoryKeeps
  <2>3. CASE j.dialog \notin {"PRODUCT", "CATEGORY"}
    <3>1. UNCHANGED catalogVars
      BY <2>3, Zenon DEF StoreForm
    <3> QED
      BY <3>1, InvParts, SameCatalog
  <2> QED
    BY <2>1, <2>2, <2>3
<1>4. CASE j.dialog = "DEPOSIT"
  <2>1. Stored(j, DepositOf(j.seen), j.asked)
    BY <1>4 DEF StoreForm
  <2>2. j.step = "store"
    BY <1>1, <1>2, <1>4 DEF JobTyped, Claiming
  <2>3. ~ overlap => DepositOf(j.seen) = j.asked
    <3>1. SUFFICES ASSUME ~ overlap PROVE DepositOf(j.seen) = j.asked
      OBVIOUS
    <3>2. Announced(j.seen, j.asked)
      BY <3>1, <2>2, <1>2, <1>4 DEF Current
    <3> QED
      BY <3>2 DEF Announced, TypeIn, DepositOf
  <2>4. j.dialog \in Mixing
    BY <1>4 DEF Mixing
  <2> HIDE DEF j
  <2> DEFINE got == DepositOf(j.seen)
  <2>5. Stored(j, got, j.asked) /\ (got = j.asked \/ ((j.overlap \/ overlap) /\ j.dialog \in Mixing))
    BY <2>1, <2>3, <2>4
  <2> HIDE DEF got
  <2> QED
    BY <2>5, <1>1, <1>3, StoreStep DEF j
<1>5. CASE j.dialog # "DEPOSIT"
  <2>1. Stored(j, Nothing, Nothing)
    BY <1>5 DEF StoreForm
  <2> QED
    BY <2>1, <1>1, <1>3, StoreStep
<1> QED
  BY <1>4, <1>5

LEMMA FailStep ==
    ASSUME DialogsInv, NEW i \in DOMAIN jobs, Fail(i)
    PROVE  DialogsInv'
<1>1. /\ Clear(Rest(i)) \/ Keep(Rest(i))
      /\ jobs' = Rest(i) /\ Quiet /\ presses' \in 0..MaxPresses
      /\ Part(Rest(i)) /\ Left(Rest(i), {})
  BY InvParts DEF Fail
<1>2. CASE Clear(Rest(i))
  BY <1>1, <1>2, ClearsAll
<1>3. CASE Keep(Rest(i))
  BY <1>1, <1>3, KeepStays, LeavesNothing
<1> QED
  BY <1>1, <1>2, <1>3

LEMMA FinishStoreStep ==
    ASSUME DialogsInv, UNCHANGED presses, NEW i \in DOMAIN jobs, FinishStore(i)
    PROVE  DialogsInv'
BY InvParts, ClearsAll DEF FinishStore

LEMMA FailStoredStep ==
    ASSUME DialogsInv, NEW i \in DOMAIN jobs, FailStored(i)
    PROVE  DialogsInv'
<1> DEFINE left == <<jobs[i].life, jobs[i].dialog>>
<1>1. /\ Keep(Rest(i)) /\ jobs' = Rest(i) /\ wrote' = NoRow /\ Lost({left})
      /\ UNCHANGED <<isAdmin, inPlay, catalogVars>> /\ jobs[i].dialog \notin Catching
      /\ Part(Rest(i)) /\ presses' \in 0..MaxPresses
  BY InvParts, PressIsCounted DEF FailStored
<1>2. /\ state' = state /\ data' = data /\ asked' = asked
      /\ overlap' = (overlap \/ Rest(i) # <<>>) /\ life' = life
  BY <1>1 DEF Keep, Goto, Ask
<1>3. ChatOK'
  BY <1>1, <1>2, SameData, InvParts, ChatStays
<1>4. \A e \in {left} : e[2] \notin Catching
  BY <1>1
<1>5. Left(Rest(i), {left})
  BY InvParts, LeftInRest
<1>6. Moved(Rest(i))
  BY <1>2 DEF Moved
<1> HIDE DEF left
<1> QED
  BY <1>1, <1>3, <1>4, <1>5, <1>6, SilentStep

LEMMA ResumeStep ==
    ASSUME DialogsInv, NEW i \in DOMAIN jobs, Resume(i)
    PROVE  DialogsInv'
BY DeliverStep, FinishOpenStep, ContinueStep, ChannelExistsStep, FinishLookStep, ReadLateStep,
   StoreEditStep, StoreFormStep, FinishStoreStep, FailStoredStep, FailStep DEF Resume
-----------------------------------------------------------------------------
(* The specification.                                                      *)

LEMMA NoStep ==
    ASSUME DialogsInv, UNCHANGED vars
    PROVE  DialogsInv'
<1>1. /\ UNCHANGED <<isAdmin, inPlay, state, data, jobs, asked, wrote, life, storedFrom,
                    broken, overlap, presses>>
      /\ UNCHANGED catalogVars
  BY DEF vars
<1>2. /\ Scalars' /\ StoredOK' /\ BrokenOK' /\ ClaimsApart' /\ AnswersGoWhereAsked'
      /\ OncePerForm'
  BY <1>1 DEF DialogsInv, Scalars, StoredOK, BrokenOK, Lingers, ClaimsApart, AnswersGoWhereAsked,
              OncePerForm, Claiming, Catching, Mixing, AdminDialogs, AllDialogs, UserDialogs, Edits,
              Forms
<1>3. CatalogOK'
  BY <1>1, InvParts, SameCatalog
<1>4. ChatOK'
  BY <1>1, SameData, InvParts, ChatStays
<1>5. JobsOK'
  <2>1. \A j : JobOK(j) => JobOK(j)'
    BY <1>1 DEF JobOK, JobTyped, Fresh, Current, Honest, Announced, TypeIn, Sellable, Over,
                Claiming, Mixing, Edits
  <2> QED
    BY <2>1, <1>1 DEF DialogsInv, JobsOK, Range1
<1> QED
  BY <1>2, <1>3, <1>4, <1>5 DEF DialogsInv

LEMMA InitOK ==
    ASSUME Init
    PROVE  DialogsInv
<1>1. /\ isAdmin \in BOOLEAN /\ overlap = FALSE /\ life = 0 /\ presses = 0
      /\ state = "None" /\ data = Empty /\ jobs = <<>> /\ wrote = NoRow /\ storedFrom = {}
      /\ broken = {}
      /\ inPlay \subseteq IF isAdmin THEN AdminDialogs ELSE UserDialogs
      /\ CatalogInit
  BY DEF Init
<1>2. Scalars
  <2>1. MaxPresses \in Nat
    BY DialogsAssumption
  <2>2. presses \in 0..MaxPresses /\ life \in Nat
    BY <1>1, <2>1
  <2>3. isAdmin \in BOOLEAN /\ overlap \in BOOLEAN
    BY <1>1
  <2> QED
    BY <1>1, <2>2, <2>3 DEF Scalars
<1>3. CatalogOK
  <2>1. FirstCategory \in FirstCategories
    BY CatalogAssumption DEF FirstCategory
  <2>2. CASE products = <<>> /\ categories = {}
    <3>1. DOMAIN products = {}
      BY <2>2
    <3> QED
      BY <3>1, <2>2, <1>1, CatalogAssumption DEF CatalogInit, CatalogOK
  <2>3. CASE products = [p \in FirstProducts |-> Fixed(FirstCategory)] /\ categories = FirstCategories
    <3>1. DOMAIN products = FirstProducts
          /\ \A p \in FirstProducts : products[p] = Fixed(FirstCategory)
      BY <2>3
    <3>2. Fixed(FirstCategory) \in Product /\ Fixed(FirstCategory).category = FirstCategory
      BY <2>1, CatalogAssumption DEF Product, Fixed
    <3> QED
      BY <3>1, <3>2, <2>1, <2>3, <1>1, CatalogAssumption DEF CatalogInit, CatalogOK
  <2> QED
    BY <2>2, <2>3, <1>1 DEF CatalogInit
<1>4. ChatOK
  <2>1. DOMAIN data = {}
    BY <1>1, EmptyHasNothing
  <2>2. state \in States /\ state \notin DOMAIN Edits
        /\ state \notin {"RECEIPT", "PRODUCT_FIXED_PRICE", "PRODUCT_BUTTON_COLUMNS"}
    BY <1>1, StatesAre, EditTable DEF PlainStates
  <2> QED
    BY <1>1, <2>1, <2>2 DEF ChatOK, States
<1>5. JobsOK /\ ClaimsApart
  <2>1. <<>> \in Seq(Range1(jobs)) /\ Len(<<>>) = 0 /\ DOMAIN <<>> = {}
    OBVIOUS
  <2>2. MaxJobs \in Nat
    BY DialogsAssumption
  <2> QED
    BY <2>1, <2>2, <1>1 DEF JobsOK, ClaimsApart
<1>6. StoredOK /\ BrokenOK /\ AnswersGoWhereAsked /\ OncePerForm
  BY <1>1 DEF StoredOK, BrokenOK, AnswersGoWhereAsked, OncePerForm, NoRow, Nothing
<1> QED
  BY <1>2, <1>3, <1>4, <1>5, <1>6 DEF DialogsInv

LEMMA NextOK ==
    ASSUME DialogsInv, Next
    PROVE  DialogsInv'
BY OpenFormStep, OpenEditStep, PickCategoryStep, PickTypeStep, ConfirmBroadcastStep, MenuStep,
   MessageStep, RouteStep, ResumeStep, RestartStep, OfficeWorkStep DEF Next

\* In every reachable state of every instance the chat keeps what its prompt promises
\* (ChatOK), every suspended handler what it carries (JobsOK), and no two of them hold
\* the answers of one form that they took away (ClaimsApart).
THEOREM DialogsInvariant == Spec => []DialogsInv
<1>1. Init => DialogsInv
  BY InitOK
<1>2. DialogsInv /\ [Next]_vars => DialogsInv'
  BY NextOK, NoStep
<1> QED
  BY <1>1, <1>2, PTL DEF Spec

\* The chat's variables have their types, and the catalogue that the product and category
\* forms and both deletes build stays sound: a product can always be priced, its category
\* exists, and a product that was ordered is not deleted.
THEOREM DialogTypes == Spec => []DialogsTypeOK
<1>1. DialogsInv => DialogsTypeOK
  BY DEF DialogsInv, Scalars, ChatOK, JobsOK, States, DialogsTypeOK, AdminDialogs, AllDialogs,
         UserDialogs, Edits, Forms
<1> QED
  BY <1>1, DialogsInvariant, PTL

\* An answer changes the product, setting or provider its prompt named, and a deposit has
\* the type and the amount it was announced with, unless two updates of the chat were in
\* flight at once in one of the dialogs of Mixing.
THEOREM AnswersGoWhereTheyWereAsked == Spec => []AnswersGoWhereAsked
<1>1. DialogsInv => AnswersGoWhereAsked
  BY DEF DialogsInv
<1> QED
  BY <1>1, DialogsInvariant, PTL

\* A form's answers make one row, although a handler may fail at any await before its row
\* or after it: a second one needs updates of the chat that overlapped, or a failure
\* between the row and the clearing of the form, of a handler that does not catch it; and
\* in the dialogs that clear their answers before they store there is never a second one.
THEOREM FormsMakeOneRow == Spec => []OncePerForm
<1>1. DialogsInv => OncePerForm
  BY DEF DialogsInv
<1> QED
  BY <1>1, DialogsInvariant, PTL
=============================================================================
