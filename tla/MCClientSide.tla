---------------------------- MODULE MCClientSide ----------------------------
(* ClientSide for TLC.  A byte of Borsh has one bit, so a u64 is a number  *)
(* below 2^8; every function of a service is called with every argument    *)
(* left out, and answered with every field missing and null.               *)
EXTENDS MCEvmAbi, ClientSide

X == Val("x")

-----------------------------------------------------------------------------
(* Arguments and answers of a type: one with everything, and that one with *)
(* one thing at a time, at any depth, of another form.                     *)

RECURSIVE FullArg(_)
FullArg(t) ==
  CASE t.kind \in {"scalar", "truthy", "required"} -> X
    [] t.kind = "optional" -> FullArg(t.of)
    [] t.kind = "list"     -> List(<<FullArg(t.of), FullArg(t.of)>>)
    [] t.kind = "class"    ->
         LET shape == RequestShapes[t.name]
         IN Object(t.name, [f \in DOMAIN shape |-> FullArg(shape[f])])

RECURSIVE ArgForms(_)
ArgForms(t) ==
  CASE t.kind = "scalar"   ->
         {X, Val(""), EnumMember("x"), Float("whole"), Float("fraction"), Float("nan")}
    [] t.kind = "truthy"   -> {Null, Val(""), List(<<>>), X}
    [] t.kind = "required" -> {Null, Val(""), X}
    [] t.kind = "optional" -> {Null} \cup ArgForms(t.of)
    [] t.kind = "list"     -> {List(<<>>)} \cup {List(<<v>>) : v \in ArgForms(t.of)}
    [] t.kind = "class"    ->
         LET shape == RequestShapes[t.name] IN
         UNION {{Object(t.name, [FullArg(t).members EXCEPT ![f] = v]) : v \in ArgForms(shape[f])} :
                f \in DOMAIN shape}

ArgumentsOf(shape) ==
  LET full  == [f \in DOMAIN shape |-> FullArg(shape[f])]
      least == [f \in DOMAIN shape |-> IF shape[f].kind = "scalar" THEN X ELSE Null]
  IN {full, least} \cup
     UNION {{[base EXCEPT ![f] = v] : v \in ArgForms(shape[f]), base \in {full, least}} :
            f \in DOMAIN shape}

RECURSIVE FullBody(_)
FullBody(t) ==
  CASE t.kind = "scalar"   -> X
    [] t.kind = "optional" -> FullBody(t.of)
    [] t.kind = "list"     -> List(<<FullBody(t.of), FullBody(t.of)>>)
    [] t.kind = "map"      -> Obj("binance" :> FullBody(t.of) @@ "kucoin" :> FullBody(t.of))
    [] t.kind = "class"    ->
         LET shape == ResponseShapes[t.name] IN
         Obj([f \in DOMAIN shape \cup {"unknown"} |->
                IF f = "unknown" THEN X ELSE FullBody(shape[f])])

RECURSIVE BodyForms(_)
BodyForms(t) ==
  CASE t.kind = "scalar"   -> {X, Null}
    [] t.kind = "optional" -> {Null} \cup BodyForms(t.of)
    [] t.kind = "list"     -> {Null, List(<<>>)} \cup {List(<<v>>) : v \in BodyForms(t.of)}
    [] t.kind = "map"      -> {Null, Obj(Empty)} \cup {Obj("binance" :> v) : v \in BodyForms(t.of)}
    [] t.kind = "class"    ->
         LET shape == ResponseShapes[t.name]
             full  == FullBody(t).members IN
         {Null, Obj(Empty), Obj(full)}
         \cup {Obj([g \in DOMAIN full \ {f} |-> full[g]]) : f \in DOMAIN shape}
         \cup UNION {{Obj([full EXCEPT ![f] = v]) : v \in BodyForms(shape[f])} : f \in DOMAIN shape}

RequestJobs ==
  UNION {{[kind |-> "request", route |-> r, args |-> a] : a \in ArgumentsOf(r.takes)} : r \in Routes}
ResponseJobs ==
  UNION {{[kind |-> "response", route |-> r, raw |-> b] : b \in BodyForms(r.returns)} : r \in Routes}

EventJobs ==
  {[kind |-> "event", prefix |-> p, raw |-> b] :
     p \in {"ping"}, b \in {Obj(Empty), Obj("event" :> X)}}
  \cup UNION {{[kind |-> "event", prefix |-> p, raw |-> b] :
                  b \in BodyForms(A(EventByPrefix[p])) \ {Null}} : p \in DOMAIN EventByPrefix}

(* client.request: dicts, lists and None at every depth.                   *)
Leaves == {Null, X, Float("whole"), Float("huge"), Float("fraction"), Float("nan")}
Nested(values) ==
  {Obj("a" :> v @@ "b" :> w) : v \in values, w \in {Null, X}}
    \cup {List(<<v, X>>) : v \in values}
RawJobs ==
  {[kind |-> "raw", value |-> v] :
     v \in Leaves \cup Nested(Leaves) \cup Nested(Nested(Leaves))}

-----------------------------------------------------------------------------
(* The helpers.                                                            *)

Common == [network : {X}, from_address : {X}, url_callback : {Null, X}]
With(extra) == {c @@ e : c \in Common, e \in extra}
Amount == {Null, Val("0"), Val("7")}
Account  == Object("SolanaAccount", [f \in DOMAIN SolanaAccount |-> X])
Accounts == {List(<<>>), List(<<Account>>)}

HelperRequests ==
  [sign_evm_call    |-> With([contract : {X}, method : {X, Val("malformed")}, args : {List(<<>>)},
                              value : {Null, Val(""), Val("7")}]),
   erc20_transfer   |-> With([token_contract : {X}, recipient : {Val("carol")}, amount : {Val("7")}]),
   sign_anchor_call |-> With([program : {X}, method : {X, Val("malformed")}, args : {List(<<>>)},
                              accounts : Accounts]),
   sign_solana_call |-> With([program : {X}, instruction_data : {"data"}, accounts : Accounts]),
   sign_ton_call    |-> With([contract : {X}, body_cell : {"cell"}, value : {Null, Val(""), Val("7")},
                              bounce : {Null, Val("True"), Val("False")}]),
   nft_transfer     |-> With([nft_item : {X, Val("")}, new_owner : {Val("carol"), Val("malformed")},
                              response_destination : {Null, Val(""), X, Val("malformed")},
                              attached_ton : Amount, forward_ton_amount : Amount, query_id : Amount]),
   send_ton_comment |-> With([recipient : {Val("carol"), Val("")}, text : {X}, amount_ton : Amount])]

HelperJobs ==
  UNION {{[kind |-> "helper", helper |-> h, req |-> r] : r \in HelperRequests[h]} :
         h \in DOMAIN HelperRequests}

(* Two senders, two Jettons, recipients with and without a wallet.         *)
JettonRequest ==
  [network |-> X, from_address |-> Val("alice"), recipient |-> Val("carol"), amount |-> Val("7"),
   jetton_master |-> Val("usdt"), jetton_wallet_address |-> Null, response_destination |-> Null,
   attached_ton |-> Null, forward_ton_amount |-> Null, memo |-> Null, query_id |-> Null,
   url_callback |-> Null]
MCJettonRequests ==
  {[JettonRequest EXCEPT !.from_address = f, !.jetton_master = m, !.recipient = r] :
     f \in {Val("alice"), Val("bob")}, m \in {Val("usdt"), Val("not")},
     r \in {Val("alice"), Val("carol")}}
  \cup {[JettonRequest EXCEPT !.jetton_wallet_address = X],
        [JettonRequest EXCEPT !.jetton_wallet_address = X, !.jetton_master = Null],
        [JettonRequest EXCEPT !.jetton_master = Null], [JettonRequest EXCEPT !.recipient = Val("")],
        [JettonRequest EXCEPT !.recipient = Val("malformed")],
        [JettonRequest EXCEPT !.amount = Val("negative")],
        [JettonRequest EXCEPT !.attached_ton = Val("9"), !.memo = X]}
MCWallets == {Val("alice"), Val("bob"), Val("carol")} \X {Val("usdt"), Val("not")}

-----------------------------------------------------------------------------
(* Amounts: strings of up to four characters, up to three decimals.        *)
Characters == {0, 7, Dot, Minus, Exponent, Space, Letter}
Strings    == UNION {[1..n -> Characters] : n \in 0..4}
HumanJobs  == {[kind |-> "human", human |-> s, decimals |-> d] : s \in Strings, d \in -1..3}
BaseJobs   ==
  {[kind |-> "base", base |-> b, decimals |-> d] :
     b \in -20..120 \cup {700, 1070, 5000}, d \in -1..3}

(* Borsh: every type alone and in pairs, nested once.                      *)
U8 == [kind |-> "u", width |-> 1]
U64 == [kind |-> "u", width |-> 8]
I16 == [kind |-> "i", width |-> 2]
U128 == [kind |-> "u128"]
Bool == [kind |-> "bool"]
Text == [kind |-> "bytes"]
Two  == [kind |-> "fixed", size |-> 2]
Key  == [kind |-> "pubkey"]
Of(k, t) == [kind |-> k, of |-> t]
Struct(ts)  == [kind |-> "struct", fields |-> ts]

FlatTypes  == {U8, U64, I16, U128, Bool, Text, Two, Key}
BorshTypes == FlatTypes \cup {Of(k, t) : k \in {"option", "vec"}, t \in FlatTypes}
              \cup {Struct(<<U8, Text>>), Of("vec", Of("option", U8)),
                    Of("option", Struct(<<I16, Bool>>))}

RECURSIVE BorshValues(_)
BorshValues(t) ==
  CASE t.kind = "u"      -> {0, 2^t.width - 1, 2^t.width, -1}
    [] t.kind = "i"      -> {-2, -1, 1, 2}
    [] t.kind = "u128"   -> {-1, 0, 5, 65535, 65536}
    [] t.kind = "bool"   -> BOOLEAN
    [] t.kind = "bytes"  -> {<<>>, <<1, 0, 1>>}
    [] t.kind = "fixed"  -> {<<1>>, <<0, 1>>}
    [] t.kind = "pubkey" -> [form : {"bytes"}, of : {<<0, 1, 1>>, <<1>>}]
    [] t.kind = "option" -> {<<>>} \cup {<<v>> : v \in BorshValues(t.of)}
    [] t.kind = "vec"    -> {<<>>} \cup (BorshValues(t.of) \X BorshValues(t.of))
    [] t.kind = "struct" -> BorshValues(t.fields[1]) \X BorshValues(t.fields[2])

(* Keys as base58 texts, of digits below three and one that is none.       *)
Base58Texts == [form : {"base58"}, of : UNION {[1..n -> 0..3] : n \in 0..4}]

MCDiscriminator(method) ==
  IF method = "swap" THEN <<1, 0, 1, 1, 0, 0, 1, 0>> ELSE <<0, 1, 1, 0, 1, 0, 0, 0>>

MCAnchorTypes == {<<>>} \cup {<<t>> : t \in BorshTypes} \cup (FlatTypes \X FlatTypes)
MCAnchorArgs(types) ==
  CASE Len(types) = 0 -> {<<>>}
    [] Len(types) = 1 -> {<<v>> : v \in BorshValues(types[1])}
                         \cup IF types[1] = Key THEN {<<v>> : v \in Base58Texts} ELSE {}
    [] Len(types) = 2 -> BorshValues(types[1]) \X BorshValues(types[2])

MCJobs == RequestJobs \cup ResponseJobs \cup EventJobs \cup RawJobs \cup HelperJobs
          \cup HumanJobs \cup BaseJobs
=============================================================================
