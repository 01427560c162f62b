----------------------------- MODULE MarketRegistry -----------------------------
(***************************************************************************)
(* Which markets there are and who serves them: tickers and their halves   *)
(* (instruments/domain.ts, config/asset.registry.ts), the kind of a market *)
(* told from its trading week (instruments/classify.ts), the tables of     *)
(* assets and instruments (instruments/asset.repository.ts,                *)
(* seed-registry.ts), the venues that serve a market at an interval        *)
(* (market/capability.ts, market/market.provider.ts) and the               *)
(* configurations a process starts with (config/market.env.ts,             *)
(* market.capabilities.ts, market.runtime.ts).                             *)
(*                                                                         *)
(* A ticker is the sequence of its letters, already trimmed and in upper   *)
(* case; the messages of a refusal are left out.                           *)
(***************************************************************************)
EXTENDS Integers, SequencesExt, FiniteSetsExt, TLC

CONSTANTS Day              \* milliseconds of a day

None == "none"
Unresolved == [resolved |-> FALSE]
Refused == [refused |-> TRUE]

-------------------------------------------------------------------------------
(* The longest quote a ticker ends in that leaves two letters for the base. *)
LooksLikeTicker(ticker) == Len(ticker) \in 3..32
BaseOf(ticker, quote) == SubSeq(ticker, 1, Len(ticker) - Len(quote))
SplitsAt(ticker, quote) ==
    Len(quote) > 0 /\ Len(BaseOf(ticker, quote)) >= 2 /\ IsSuffix(quote, ticker)
SplitTicker(ticker, quotes) ==
    LET found == {q \in quotes : SplitsAt(ticker, q)}
    IN IF ~LooksLikeTicker(ticker) \/ found = {} THEN Unresolved
       ELSE LET quote == CHOOSE q \in found : \A other \in found : Len(other) <= Len(q)
            IN [base |-> BaseOf(ticker, quote), quote |-> quote]

(* What the registry does not know is treated as crypto, and said to be unknown. *)
UnknownAsset == [category |-> "crypto", status |-> "unknown"]
AssetOf(registry, symbol) ==
    IF symbol \in DOMAIN registry.assets THEN registry.assets[symbol] ELSE UnknownAsset
MarketKind(base, quote) ==
    CASE quote.status = "unknown" -> "unknown"
      [] quote.status # "unknown" /\ quote.category # "crypto" -> "fiat"
      [] quote.status # "unknown" /\ quote.category = "crypto" ->
            IF base.status = "unknown" \/ base.category = "crypto" THEN "crypto" ELSE "mixed"
ResolveInstrument(registry, ticker) ==
    LET split == SplitTicker(ticker, registry.quotes)
    IN IF split = Unresolved THEN Unresolved
       ELSE [base |-> split.base, quote |-> split.quote,
             market |-> MarketKind(AssetOf(registry, split.base), AssetOf(registry, split.quote))]

-------------------------------------------------------------------------------
(* A market that trades on week-ends is crypto; one that was watched for a fortnight
   and did not is fiat. The epoch began on a Thursday. *)
MinimumWindow == 14 * Day
DayOf(timestamp) == timestamp \div Day
IsWeekend(day) == (day + 4) % 7 \in {0, 6}
Earliest(times) == CHOOSE t \in times : \A u \in times : t <= u
Newest(times) == CHOOSE t \in times : \A u \in times : u <= t
ClassifyByTradingWeek(times, now) ==
    IF times = {} THEN "unknown"
    ELSE LET first == Earliest(times)
             last == Newest(times)
             start == IF first > now - MinimumWindow THEN first ELSE now - MinimumWindow
             weekend == {t \in times : t >= start /\ IsWeekend(DayOf(t))}
         IN IF last - first < MinimumWindow \/ DayOf(last - start) < 2 THEN "unknown"
            ELSE IF weekend # {} THEN "crypto" ELSE "fiat"

-------------------------------------------------------------------------------
(* The tables: what is there stays, but for a category that was configured and that
   the trading week contradicts, and for an asset a person suspends. *)
NoTables == [asset |-> << >>, instrument |-> << >>]
Absent(table, key, row) == IF key \in DOMAIN table THEN table ELSE table @@ (key :> row)

SeedFromConfiguration(tables, registry) ==
    [tables EXCEPT !.asset =
        FoldSet(LAMBDA s, t : Absent(t, s, [category |-> registry.assets[s].category,
                                            status |-> "active", source |-> "configured"]),
                @, DOMAIN registry.assets)]
RecordInstrument(tables, registry, ticker) ==
    LET resolved == ResolveInstrument(registry, ticker)
        Half(t, s) == Absent(t, s, [category |-> AssetOf(registry, s).category,
                                    status |-> "unknown", source |-> "learned"])
    IN IF resolved = Unresolved THEN tables
       ELSE [asset |-> Half(Half(tables.asset, resolved.base), resolved.quote),
             instrument |-> Absent(tables.instrument, ticker,
                                   [base |-> resolved.base, quote |-> resolved.quote,
                                    market |-> resolved.market, status |-> "active"])]
SeedConfiguredRegistry(tables, registry, tickers) ==
    FoldLeft(LAMBDA t, ticker : RecordInstrument(t, registry, ticker),
             SeedFromConfiguration(tables, registry), tickers)
RecordLearnedCategory(tables, symbol, category) ==
    IF /\ symbol \in DOMAIN tables.asset
       /\ tables.asset[symbol].source = "configured" /\ tables.asset[symbol].category # category
    THEN [tables EXCEPT !.asset[symbol] = [@ EXCEPT !.category = category, !.source = "learned"]]
    ELSE tables
SuspendAsset(tables, symbol) ==
    IF symbol \in DOMAIN tables.asset THEN [tables EXCEPT !.asset[symbol].status = "inactive"]
    ELSE tables

(* One cycle of a market ends by learning the category of its base. *)
LearnCategory(tables, registry, market, times, now) ==
    LET verdict == ClassifyByTradingWeek(times, now)
        resolved == ResolveInstrument(registry, market)
    IN IF verdict = "unknown" \/ resolved = Unresolved THEN tables
       ELSE RecordLearnedCategory(tables, resolved.base, verdict)

(* Why an instrument is not tradable; the halves of an instrument are in the table. *)
Tradability(tables, ticker) ==
    IF ticker \notin DOMAIN tables.instrument THEN "unknown_instrument"
    ELSE LET i == tables.instrument[ticker]
             base == tables.asset[i.base].status
             quote == tables.asset[i.quote].status
         IN CASE i.status # "active" -> "instrument_inactive"
              [] i.status = "active" ->
                    IF base = "inactive" THEN "base_inactive"
                    ELSE IF quote = "inactive" THEN "quote_inactive"
                    ELSE IF base = "unknown" THEN "base_unknown"
                    ELSE IF quote = "unknown" THEN "quote_unknown" ELSE "tradable"
ListInstruments(tables) ==
    [ticker \in DOMAIN tables.instrument |->
        [market |-> tables.instrument[ticker].market, verdict |-> Tradability(tables, ticker)]]

-------------------------------------------------------------------------------
(* Of the venues in their order, the first that serves a market at an interval. A
   capability is [venue, instruments, intervals]. *)
Serves(capability, market, interval) ==
    market \in capability.instruments /\ interval \in capability.intervals
Rejected(reason) == [ok |-> FALSE, reason |-> reason]
Declared(capabilities, venue) ==
    SelectSeq(capabilities, LAMBDA c : c.venue = venue)
(* The last entry of a venue in the table that route builds. *)
CapabilityOf(capabilities, venue) == Last(Declared(capabilities, venue))
Knows(capabilities, venue) == Declared(capabilities, venue) # << >>
Route(capabilities, order, market, interval) ==
    LET known == SelectSeq(order, LAMBDA v : Knows(capabilities, v))
        able == SelectSeq(known, LAMBDA v : Serves(CapabilityOf(capabilities, v), market, interval))
    IN CASE order = << >> -> Rejected("no_venues_configured")
         [] order # << >> /\ able # << >> -> [ok |-> TRUE, venue |-> able[1]]
         [] order # << >> /\ able = << >> ->
               Rejected(IF \E i \in DOMAIN known :
                              market \in CapabilityOf(capabilities, known[i]).instruments
                        THEN "interval_not_served" ELSE "instrument_not_served")

(* The venues serving it, by the first entry of each in the table. *)
ConfiguredMarketVenues(config) == <<config.provider>> \o config.fallbacks
VenuesServing(config, market, interval) ==
    SelectSeq(ConfiguredMarketVenues(config),
              LAMBDA v : Knows(config.capabilities, v)
                           /\ Serves(Declared(config.capabilities, v)[1], market, interval))
RouteOf(config, market, interval) ==
    Route(config.capabilities, ConfiguredMarketVenues(config), market, interval)

(* The chain that is asked for a market, and the venue its rows are filed under. *)
MarketProviderFor(config, market, interval) ==
    LET found == RouteOf(config, market, interval)
        serving == VenuesServing(config, market, interval)
        Others(first) == SelectSeq(serving, LAMBDA v : v # first)
    IN IF market = config.symbol /\ interval = config.interval
       THEN <<config.provider>> \o SelectSeq(config.fallbacks, LAMBDA v :
                   v # config.provider /\ v \in Range(serving))
       ELSE IF ~found.ok THEN << >> ELSE <<found.venue>> \o Others(found.venue)
ConfiguredVenueFor(config, market, interval) ==
    LET found == RouteOf(config, market, interval)
    IN IF market = config.symbol THEN config.provider ELSE IF found.ok THEN found.venue ELSE None

-------------------------------------------------------------------------------
(* What a process refuses to start with. *)
Mock == "mock"
DefaultFallback == "bitget"
ParseFallbackProviders(names, primary) == SelectSeq(names, LAMBDA n : n # primary)
DefaultFallbackProviders(primary) == IF primary = Mock THEN << >> ELSE <<DefaultFallback>>
DefaultCapabilities(primary, symbol, fallbackSymbol, intervals) ==
    LET entry(v, s) == [venue |-> v, instruments |-> {s}, intervals |-> intervals]
    IN IF primary = DefaultFallback THEN <<entry(primary, symbol)>>
       ELSE <<entry(primary, symbol), entry(DefaultFallback, fallbackSymbol)>>
ObservedMarkets(primary, extra) ==
    FoldLeft(LAMBDA seen, name : IF name \in Range(seen) THEN seen ELSE Append(seen, name),
             <<primary>>, extra)

EveryMarketIsServed(config) ==
    \A i \in DOMAIN config.symbols : \E j \in DOMAIN config.capabilities :
        Serves(config.capabilities[j], config.symbols[i], config.interval)
FailoverIsAFailover(config) ==
    /\ config.fallbackSymbol = config.symbol
    /\ \A i \in DOMAIN config.fallbacks :
          /\ Knows(config.capabilities, config.fallbacks[i])
          /\ Serves(Declared(config.capabilities, config.fallbacks[i])[1], config.symbol, config.interval)
MarketConfig(registry, raw, mockAllowed) ==
    LET fallbacks == ParseFallbackProviders(raw.fallbacks, raw.provider)
        symbols == ObservedMarkets(raw.symbol, raw.extra)
        named == \A s \in Range(symbols) \cup {raw.fallbackSymbol} : ResolveInstrument(registry, s) # Unresolved
        config == [provider |-> raw.provider, fallbacks |-> fallbacks, symbol |-> raw.symbol,
                   fallbackSymbol |-> raw.fallbackSymbol, symbols |-> symbols,
                   interval |-> raw.interval, capabilities |-> raw.capabilities]
    IN IF /\ raw.provider = Mock => mockAllowed
          /\ Mock \notin Range(raw.fallbacks)
          /\ named /\ EveryMarketIsServed(config) /\ FailoverIsAFailover(config)
       THEN config ELSE Refused

-------------------------------------------------------------------------------
(* The watcher of the venue in use: what it says of the one it sees, by the last it
   saw; before the first look it has seen nothing. *)
NotLooked == "not looked"
WatchVenue(last, venue) ==
    [last |-> venue,
     says |-> CASE venue = last \/ venue = None -> "nothing"
                [] venue # last /\ venue # None -> IF last = NotLooked THEN "active" ELSE "switched"]
===============================================================================
