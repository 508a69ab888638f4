-------------------------------- MODULE Rules --------------------------------
(***************************************************************************)
(* The rules engine (src/src/rules.rs) and the rules of Zora premints      *)
(* (src/src/premints/zora_premint/rules.rs).  A rule returns               *)
(*   "accept", "ignore", "reject"   an Evaluation, or                      *)
(*   "err"                          an eyre::Report.                       *)
(* The engine keeps one result per rule; whether a premint is accepted     *)
(* only depends on which outcomes occur among them, so an evaluation is    *)
(* the SET of the failing outcomes (Results::only_failures).               *)
(***************************************************************************)
EXTENDS Storage

CONSTANTS UseRpc    \* Config.enable_rpc

ASSUME UseRpcAssumption == UseRpc \in BOOLEAN

Outcomes == {"accept", "ignore", "reject", "err"}
Failures == {"reject", "err"}

IsErr(results)    == "err" \in results
IsReject(results) == ~IsErr(results) /\ "reject" \in results
IsAccept(results) == ~IsReject(results)
OnlyFailures(outcomes) == outcomes \cap Failures

Verdict(ok) == IF ok THEN "accept" ELSE "reject"

(***************************************************************************)
(* Rules that only need the premint and the row read before the rules      *)
(* start (RuleContext.existing).                                           *)
(***************************************************************************)
TokenUriLength(p) ==
    LET max_allowed == IF p.uri.data THEN 8 * 1024 ELSE 2 * 1024
    IN  Verdict(p.uri.len # 0 /\ p.uri.len <= max_allowed)

(* Mutant: a rule that finds an existing premint and does not compare. *)
SignerUnchecked(p, existing) == IF existing = NoPremint THEN "ignore" ELSE "accept"

SignerMatches(p, existing) ==
    IF existing = NoPremint THEN "ignore" ELSE Verdict(existing.signer = p.signer)

VersionIsHigher(p, existing) ==
    IF existing = NoPremint THEN "ignore" ELSE Verdict(p.version > existing.version)

(* typed_rule!: only the V2 rules are registered, other types are ignored. *)
Typed(p, outcome) == IF p.kind = V2 THEN outcome ELSE "ignore"

(* Signature parsing and recovery errors are propagated with `?`. *)
IsValidSignature(p) ==
    Typed(p, IF p.sig = "malformed" THEN "err" ELSE Verdict(p.sig = "valid"))

IsChainSupported(p) ==
    Typed(p, Verdict(ChainOf[p.id] \in {7777777, 999999999, 8453}))

LocalRules(p, existing) ==
    {TokenUriLength(p), SignerMatches(p, existing), VersionIsHigher(p, existing),
     IsValidSignature(p), IsChainSupported(p)}

(***************************************************************************)
(* existing_token_uri, given a row that get_for_token_uri may return       *)
(* (NoPremint: no row).  It compares ids, not (kind, id) pairs.            *)
(***************************************************************************)
ExistingTokenUri(p, found) ==
    IF found = NoPremint THEN "accept" ELSE Verdict(found.id = p.id)

(***************************************************************************)
(* The rules that call the premint executor contract; without a provider   *)
(* they return Ignore, so they matter only for V2 with one.                *)
(***************************************************************************)
(* Mutant: the minted flag of the contract's answer is not looked at. *)
NotMintedIgnored(p, minted) == "accept"

NotMinted(p, minted) == Verdict(p.id \notin minted)

WantsRpc(p)   == UseRpc /\ ChainOf[p.id] # 0
ChainRules(p, rpc) == p.kind = V2 /\ rpc
=============================================================================
