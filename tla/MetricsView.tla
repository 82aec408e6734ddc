------------------------------ MODULE MetricsView ------------------------------
(***************************************************************************)
(* The page of the usage metrics: src/views/MetricsView.vue.  It loads the *)
(* usage of a period, of the user or, for an administrator, of another     *)
(* one, and lets the user keep the prices of the models.                   *)
(*                                                                         *)
(* A price is a number, 0 when a field of its row is empty or there is no  *)
(* row: save leaves both out.                                              *)
(***************************************************************************)
EXTENDS PageRequests

CONSTANT Models     \* models the two users have used

ASSUME MetricsAssumption == IsFiniteSet(Models) /\ Models # {}

VARIABLES
    metrics,    \* the state of the page
    rates       \* server: the prices of the user

metricsVars == <<metrics, rates>>

Periods == {7, 30}
Subjects == {"me", "other"}

(***************************************************************************)
(* number: the newest load.  checked: the users were asked for, loaded:    *)
(* the prices came.  of: whose usage of which period is shown.  Not in the *)
(* code: edited, the models whose price was typed in.                      *)
(***************************************************************************)
NoUsage == [user |-> "me", days |-> 0]

OpenedMetrics ==
    [days |-> 30, user |-> "me", loading |-> TRUE, error |-> FALSE, of |-> NoUsage, number |-> 1,
     checked |-> TRUE, filter |-> FALSE, prices |-> [m \in Models |-> 0], loaded |-> FALSE,
     saving |-> FALSE, edited |-> {}, csv |-> NoUsage]

MetricsWish ==
    [number |-> 0, days |-> 0, user |-> "me", background |-> FALSE, save |-> FALSE, prices |-> [m \in Models |-> 0]]

HasCurrentData(p) == p.of.days = p.days

(* A longer period has more models. *)
ModelsUsed(of) == CHOOSE s \in SUBSET Models : Cardinality(s) = IF of.days = 7 THEN Cardinality(Models) - 1 ELSE Cardinality(Models)

MetricsClick(act, p, asks) == metrics' = p /\ Click(act, asks) /\ UNCHANGED rates

ServeMetrics ==
    /\ \E r \in net :
          /\ r.state = "sent"
          /\ rates' = IF r.op = "pricing" THEN r.arg.prices ELSE rates
          /\ \/ Answered(r, [r.arg EXCEPT !.prices = rates])
             \/ r.op = "users" /\ Refused(r)
    /\ UNCHANGED <<metrics, task, clicks, faults>>

(***************************************************************************)
(* load().  The users are asked for once; then the usage and, unless they  *)
(* came before, the prices are asked for together.                         *)
(***************************************************************************)
Numbered(p, wish) == [wish EXCEPT !.number = p.number + 1]

UsageAsks(p, wish) ==
    <<Ask("usage", TRUE, [wish EXCEPT !.user = p.user])>>
    \o IF p.user = "other" \/ p.loaded THEN <<>> ELSE <<Ask("prices", TRUE, wish)>>

(* Slip: the prices count as loaded once they are asked for. *)
LoadStartsOnce(p, wish) ==
    [p EXCEPT !.number = @ + 1, !.days = wish.days, !.loading = ~wish.background \/ @,
              !.error = wish.background /\ @, !.loaded = @ \/ p.user = "me"]
LoadStarts(p, wish) ==
    [p EXCEPT !.number = @ + 1, !.days = wish.days, !.loading = ~wish.background \/ @, !.error = wish.background /\ @]

ChoosePeriod ==
    \E d \in Periods :
        LET wish == Numbered(metrics, [MetricsWish EXCEPT !.days = d])
        IN  MetricsClick("period", LoadStarts(metrics, wish), UsageAsks(metrics, wish))

ChooseUser ==
    \E u \in Subjects \ {metrics.user} :
        LET p == [metrics EXCEPT !.user = u]
            wish == Numbered(p, [MetricsWish EXCEPT !.days = p.days])
        IN  metrics.filter /\ MetricsClick("user", LoadStarts(p, wish), UsageAsks(p, wish))

RefreshMetrics ==
    LET wish == Numbered(metrics, [MetricsWish EXCEPT !.days = metrics.days, !.background = TRUE])
    IN  /\ ~metrics.loading /\ HasCurrentData(metrics)
        /\ MetricsClick("refresh", LoadStarts(metrics, wish), UsageAsks(metrics, wish))

UserListBack ==
    \E r \in Back("users") :
        /\ metrics' = [metrics EXCEPT !.filter = r.state = "answered"]
        /\ React({r}, UsageAsks(metrics, r.arg))
        /\ UNCHANGED rates

IsNewestLoad(p, r) == r.arg.number = p.number

UsageShown(p, r, answers) ==
    LET priced == {q \in answers : q.state = "answered"}
    IN  [p EXCEPT !.of = [user |-> r.arg.user, days |-> r.arg.days], !.error = FALSE,
                  !.loaded = @ \/ priced # {}, !.loading = @ /\ r.arg.background,
                  !.prices = IF priced = {} THEN @ ELSE (CHOOSE q \in priced : TRUE).got.prices]

UsageBack ==
    \E r \in Back("usage") :
        LET asked == {q \in Open("prices") : q.arg.number = r.arg.number}
            p == IF ~IsNewestLoad(metrics, r) THEN metrics
                 ELSE IF r.state = "failed"
                 THEN [metrics EXCEPT !.error = TRUE, !.loading = @ /\ r.arg.background]
                 ELSE UsageShown(metrics, r, asked)
        IN  /\ r.state = "failed" \/ asked \subseteq Back("prices")
            /\ metrics' = IF r.arg.save THEN [p EXCEPT !.saving = FALSE] ELSE p
            /\ React({r} \cup asked, <<>>)
            /\ UNCHANGED rates

(***************************************************************************)
(* The rows of the prices are those of the models shown.                   *)
(***************************************************************************)
PricesShown(p) == ~p.loading /\ HasCurrentData(p) /\ p.user = "me"

EditPrice ==
    \E m \in ModelsUsed(metrics.of) : \E price \in {0, 2} \ {metrics.prices[m]} :
        /\ PricesShown(metrics)
        /\ MetricsClick("price", [metrics EXCEPT !.prices[m] = price, !.edited = @ \cup {m}], <<>>)

SavePricing ==
    /\ PricesShown(metrics) /\ ~metrics.saving
    /\ MetricsClick("save", [metrics EXCEPT !.saving = TRUE],
                    <<Ask("pricing", FALSE, [MetricsWish EXCEPT !.prices = metrics.prices])>>)

PricingSaved ==
    \E r \in Back("pricing") :
        LET wish == Numbered(metrics, [MetricsWish EXCEPT !.days = metrics.days, !.background = TRUE, !.save = TRUE])
            again == r.state = "answered" /\ ~metrics.loading /\ HasCurrentData(metrics)
        IN  /\ metrics' = IF again THEN LoadStarts(metrics, wish) ELSE [metrics EXCEPT !.saving = FALSE]
            /\ React({r}, IF again THEN UsageAsks(metrics, wish) ELSE <<>>)
            /\ UNCHANGED rates

DownloadCsv == ~metrics.loading /\ HasCurrentData(metrics) /\ MetricsClick("csv", [metrics EXCEPT !.csv = metrics.of], <<>>)

InitMetrics ==
    /\ metrics = OpenedMetrics
    /\ rates = [m \in Models |-> 1]
    /\ net = Sent(<<Ask("users", TRUE, [MetricsWish EXCEPT !.number = 1, !.days = 30])>>, <<1>>)

NextMetrics ==
    \/ ServeMetrics \/ ChoosePeriod \/ ChooseUser \/ RefreshMetrics \/ UserListBack \/ UsageBack
    \/ EditPrice \/ SavePricing \/ PricingSaved \/ DownloadCsv

=============================================================================
