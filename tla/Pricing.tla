------------------------------- MODULE Pricing -------------------------------
(***************************************************************************)
(* What the calls of a run cost (src/pricing.js): the price of a model, listed *)
(* and overridden; the cost of one call, which the provider may have answered *)
(* under another id and may have charged itself; and the sums over the calls   *)
(* of a question and over the questions of a run, which a budget in dollars    *)
(* counts.                                                                 *)
(*                                                                         *)
(* A model id is its vendor ("" for none), its name, and whether it is a dated *)
(* snapshot.  Prices are amounts per token; Unsaid stands for a number the    *)
(* provider, or the override, does not give or gives no number for.           *)
(***************************************************************************)
EXTENDS Integers, SequencesExt

CONSTANTS
    ListedPrices,   \* name -> the price fields of a listed model
    PricedRuns      \* model requested, budgeted or not, overrides, calls that may come and at most how many

Unsaid == -1
ASSUME PricingAssumption == \A r \in PricedRuns : r.budgeted \in BOOLEAN /\ r.most \in Nat

VARIABLES
    order,      \* the run
    running,
    question,   \* the usage and cost of each call of the question at hand
    reported,   \* those reported for each question before
    made        \* history: the calls of the run

pricingVars == <<order, running, question, reported, made>>

-----------------------------------------------------------------------------
(* The price of a model.                                                    *)

IsSnapshotOf(id, name) == id.name = name.name /\ (id.dated = name.dated \/ id.dated)

AppliesToVendor(entry, vendor) == entry.id.vendor \in {"", vendor}

\* Vendor-specific entries last, otherwise in the order they are written.
ByVendorSpecificity(entries) ==
    SelectSeq(entries, LAMBDA e : e.id.vendor = "") \o SelectSeq(entries, LAMBDA e : e.id.vendor # "")

\* The valid fields of an override: neither a negative price nor an empty currency.
PriceFieldsOf(fields) ==
    LET valid == {f \in DOMAIN fields : IF f = "currency" THEN fields[f] # "" ELSE fields[f] >= 0}
    IN [f \in valid |-> fields[f]]

Assign(fields, more) ==
    [f \in DOMAIN fields \cup DOMAIN more |-> IF f \in DOMAIN more THEN more[f] ELSE fields[f]]

PricingOverrides(overrides) ==
    LET Of(e) == [id |-> e.id, fields |-> PriceFieldsOf(e.fields)]
    IN FoldLeft(LAMBDA done, e : Append(done, Of(e)), <<>>, overrides)

NoPrice == [f \in {} |-> 0]

ResolveModelPricing(overrides, id) ==
    LET entries == SelectSeq(PricingOverrides(overrides), LAMBDA e : AppliesToVendor(e, id.vendor))
        own == SelectSeq(entries, LAMBDA e : ~e.id.dated /\ e.id.name = id.name)
        added == SelectSeq(entries, LAMBDA e : {"input", "output"} \subseteq DOMAIN e.fields /\ IsSnapshotOf(id, e.id))
    IN IF id.name \in DOMAIN ListedPrices
       THEN FoldLeft(LAMBDA price, e : Assign(price, e.fields), ListedPrices[id.name], ByVendorSpecificity(own))
       ELSE IF added = <<>> THEN NoPrice
       ELSE Assign([currency |-> "USD"], Last(ByVendorSpecificity(added)).fields)

HasPrice(price) == price # NoPrice

\* budgetPricingRefusal: no price, or one that is not in dollars.
BudgetRefused(overrides, id) ==
    LET price == ResolveModelPricing(overrides, id) IN ~HasPrice(price) \/ price.currency # "USD"

-----------------------------------------------------------------------------
(* The cost of one call.                                                    *)

Least(a, b) == IF a < b THEN a ELSE b
Most(a, b) == IF a < b THEN b ELSE a

HasTokens(usage) == usage.prompt # Unsaid /\ usage.completion # Unsaid

\* The provider's charge in dollars, with the upstream one of a key of the user's own.
ProviderChargeOf(usage) ==
    IF usage.cost = Unsaid \/ (usage.byok = "yes" /\ usage.upstream = Unsaid) THEN Unsaid
    ELSE IF usage.byok = "no" \/ usage.upstream = Unsaid THEN usage.cost
    ELSE usage.cost + usage.upstream

NoCost == [currency |-> ""]

TokensOf(usage) ==
    LET cached == Least(usage.prompt, Most(0, usage.cached)) IN
    [prompt |-> usage.prompt, cached |-> cached, uncached |-> usage.prompt - cached, completion |-> usage.completion,
     reasoning |-> usage.reasoning]

\* The local estimate: cached and cache-written input at their own prices, if there are any.
EstimateFor(price, tokens, written) ==
    LET Of(field) == IF field \in DOMAIN price THEN price[field] ELSE price.input
        input == (tokens.uncached - written) * price.input + written * Of("cacheWrite") + tokens.cached * Of("cachedInput")
    IN [input |-> input, output |-> tokens.completion * price.output]

\* The total is the provider's charge when there is one in the currency of the price.
CostAt(price, charge, usage) ==
    LET tokens == TokensOf(usage)
        written == Least(tokens.uncached, Most(0, usage.written))
        split == IF HasPrice(price) THEN EstimateFor(price, tokens, written) ELSE [input |-> 0, output |-> 0]
        Cost(currency, source, total, estimate) ==
            tokens @@ split @@ [currency |-> currency, source |-> source, total |-> total, provider |-> charge, estimate |-> estimate]
    IN IF ~HasTokens(usage) \/ (~HasPrice(price) /\ charge = Unsaid) THEN NoCost
       ELSE IF ~HasPrice(price) THEN Cost("USD", "provider", charge, Unsaid)
       ELSE IF charge # Unsaid /\ price.currency = "USD" THEN Cost("USD", "provider", charge, split.input + split.output)
       ELSE Cost(price.currency, "estimate", split.input + split.output, Unsaid)
CalculateCost(overrides, id, usage) == CostAt(ResolveModelPricing(overrides, id), ProviderChargeOf(usage), usage)

SameModel(answered, requested) == IsSnapshotOf(answered, requested) /\ answered.vendor \in {"", requested.vendor}

\* Faulty: an answer under an id without a price costs nothing.
CallCostOfAnswer(overrides, requested, answered, usage) ==
    IF SameModel(answered, requested) THEN CalculateCost(overrides, requested, usage)
    ELSE CalculateCost(overrides, answered, usage)

CalculateCallCost(overrides, requested, answered, usage) ==
    LET own == CalculateCost(overrides, answered, usage) IN
    IF SameModel(answered, requested) \/ own = NoCost THEN CalculateCost(overrides, requested, usage) ELSE own

-----------------------------------------------------------------------------
(* Sums: of the calls of a question, and of the questions of a run.           *)

UsageFields == {"prompt", "completion", "total", "cached", "written", "reasoning", "cost"}
NoUsage == [f \in UsageFields |-> Unsaid]

\* What a call adds to a sum: details at most the whole they are part of, no count of what is not said.
CountedUsage(u) ==
    LET Within(part, all) == IF part = Unsaid THEN Unsaid ELSE Least(all, part) IN
    [prompt |-> u.prompt, completion |-> u.completion, cost |-> u.cost,
     total |-> IF u.total = Unsaid THEN u.prompt + u.completion ELSE u.total,
     cached |-> Within(u.cached, u.prompt), written |-> Within(u.written, u.prompt),
     reasoning |-> Within(u.reasoning, u.completion)]

EstimateOf(cost) ==
    IF cost.estimate # Unsaid THEN cost.estimate
    ELSE IF cost.source = "estimate" THEN cost.total ELSE Unsaid

Known(costs) == SelectSeq(costs, LAMBDA c : c # NoCost)

\* Merging costs of several currencies throws.
OneCurrency(costs) == Cardinality({c.currency : c \in ToSet(Known(costs))}) <= 1

SumOf(costs, field) ==
    FoldLeft(LAMBDA sum, c : IF c[field] = Unsaid THEN sum ELSE sum + c[field], 0, costs)
SumSaid(costs, field) ==
    IF \A c \in ToSet(costs) : c[field] = Unsaid THEN Unsaid ELSE SumOf(costs, field)

MergeUsage(usages) ==
    LET counted == FoldLeft(LAMBDA done, u : IF HasTokens(u) THEN Append(done, CountedUsage(u)) ELSE done, <<>>, usages)
    IN [f \in UsageFields |-> SumSaid(counted, f)]

MergedSource(costs) ==
    LET sources == {c.source : c \in ToSet(costs)} IN
    IF Cardinality(sources) = 1 THEN CHOOSE s \in sources : TRUE ELSE "mixed"

\* The estimate stands beside a total that is not one, when there is one for every cost.
MergedEstimate(costs) ==
    LET estimates == FoldLeft(LAMBDA done, c : Append(done, EstimateOf(c)), <<>>, costs)
        replaced == \E c \in ToSet(costs) : c.source # "estimate"
    IN IF replaced /\ Unsaid \notin ToSet(estimates) THEN FoldLeft(LAMBDA sum, e : sum + e, 0, estimates) ELSE Unsaid

MergeCosts(costs) ==
    LET known == Known(costs)
        Sums(fields) == [f \in fields |-> SumOf(known, f)]
    IN IF known = <<>> THEN NoCost
       ELSE Sums({"prompt", "cached", "uncached", "completion", "input", "output", "total"})
            @@ [f \in {"reasoning", "provider"} |-> SumSaid(known, f)]
            @@ [currency |-> known[1].currency, source |-> MergedSource(known), estimate |-> MergedEstimate(known)]

AllOf(entries, field) == FoldLeft(LAMBDA done, e : Append(done, e[field]), <<>>, entries)
Summary(entries) == [usage |-> MergeUsage(AllOf(entries, "usage")), cost |-> MergeCosts(AllOf(entries, "cost"))]

\* costOfResult of the pool: what a question adds to what is spent.
CostOfResult(cost) == IF cost = NoCost THEN 0 ELSE cost.total

-----------------------------------------------------------------------------
PricingInit == order \in PricedRuns /\ running = "no" /\ question = <<>> /\ reported = <<>> /\ made = <<>>

StartRun ==
    /\ running = "no"
    /\ running' = IF order.budgeted /\ BudgetRefused(order.overrides, order.model) THEN "refused" ELSE "yes"
    /\ UNCHANGED <<order, question, reported, made>>

Made(c) ==
    [usage |-> c.usage, cost |-> CalculateCallCost(order.overrides, order.model, c.answered, c.usage)]

\* The provider answers a call, under an id of its own choice.
Answer ==
    /\ running = "yes" /\ Len(made) < order.most /\ OneCurrency(AllOf(question, "cost"))
    /\ \E c \in order.calls :
        /\ made' = Append(made, c)
        /\ question' = Append(question, Made(c))
    /\ UNCHANGED <<order, running, reported>>

\* The question is answered, or given up: its calls are summed up.
ReportQuestion ==
    /\ running = "yes" /\ question # <<>> /\ OneCurrency(AllOf(question, "cost"))
    /\ reported' = Append(reported, Summary(question))
    /\ question' = <<>>
    /\ UNCHANGED <<order, running, made>>

PricingNext == StartRun \/ Answer \/ ReportQuestion

PricingSpec == PricingInit /\ [][PricingNext]_pricingVars

-----------------------------------------------------------------------------
(* Correctness.                                                             *)

AllMade == FoldLeft(LAMBDA done, c : Append(done, Made(c)), <<>>, made)

\* An override that prices another model than the one requested in another currency.
PricedElsewhere(c) ==
    /\ ~SameModel(c.answered, order.model)
    /\ \E i \in DOMAIN order.overrides :
        LET e == order.overrides[i] IN
        e.id.name = c.answered.name /\ "currency" \in DOMAIN e.fields /\ e.fields.currency # "USD"

\* What a budget counts is what the calls cost.  In a run that may start with a budget, a call whose
\* tokens are known always costs something known, in dollars (unless it was answered as a model that an
\* override prices in another currency), and exactly what the provider says it charged if it says
\* so in full, whatever overrides, snapshots and vendors there are; and the calls of a run add up to
\* the same usage, cost and estimate however they are grouped into questions, with as many cached
\* tokens in the cost as in the usage.
ChargesAreCounted ==
    LET calls == AllMade
        costs == AllOf(calls, "cost")
        whole == Summary(Append(reported, Summary(question)))
    IN /\ running = "yes" /\ order.budgeted =>
            \A i \in {j \in DOMAIN calls : HasTokens(calls[j].usage)} :
                LET charge == ProviderChargeOf(calls[i].usage) IN
                /\ costs[i] # NoCost /\ costs[i].total >= 0
                /\ \/ costs[i].currency = "USD" /\ (charge # Unsaid => costs[i].total = charge)
                   \/ PricedElsewhere(made[i])
       /\ OneCurrency(costs) =>
            /\ whole = Summary(calls)
            /\ CostOfResult(whole.cost) = FoldLeft(LAMBDA sum, c : sum + CostOfResult(c), 0, costs)
            /\ (\A i \in DOMAIN calls : HasTokens(calls[i].usage) => costs[i] # NoCost) /\ whole.cost # NoCost =>
                   whole.cost.cached = Most(0, whole.usage.cached)
=============================================================================
