----------------------------- MODULE MeterTypes ------------------------------
(***************************************************************************)
(* What a metering request may ask and how the tables are keyed: the       *)
(* validated payloads of POST /v1/events and of PUT and DELETE /v1/quotas, *)
(* and the primary and unique keys of events, quotas and usage_rollup.     *)
(*                                                                         *)
(* Quantities and limits are whole numbers of the smallest unit the        *)
(* NUMERIC(20, 6) columns can hold.                                        *)
(***************************************************************************)
EXTENDS Integers, FiniteSets

CONSTANTS
    Requests,      \* HTTP requests that pass authentication and validation
    Tenants,       \* api_key_id values
    IdemKeys,      \* idempotency_key values
    Meters,        \* (customer_id, metric) pairs
    Windows,       \* window_start values: hours
    MaxQuantity,   \* bound on an event's quantity
    MaxLimit,      \* bound on a quota's limit_per_window
    Ops,           \* the endpoints in use, of {"post", "put", "delete"}
    InitialLimits, \* the limits that may stand in the quotas table at the start
    Nobody,        \* the holder of a free row lock
    NoRow          \* the result of a query that finds no row

Quantities == 1..MaxQuantity
Limits     == 1..MaxLimit

NoLimit == 0   \* no row in the quotas table

EventKey == Tenants \X IdemKeys          \* uq_events_api_key_idempotency_key
Scope    == Tenants \X Meters            \* pk_quotas
Bucket   == Tenants \X Meters \X Windows \* pk_usage_rollup

\* An events row.  The identity column is named after the request that
\* inserted the row, so it also tells whose row it is.
EventRow == [id : Requests, meter : Meters, win : Windows, qty : Quantities]

PostPayload == [op : {"post"}, tenant : Tenants, idem : IdemKeys,
                meter : Meters, win : Windows, qty : Quantities]
PutPayload    == [op : {"put"}, tenant : Tenants, meter : Meters, limit : Limits]
DeletePayload == [op : {"delete"}, tenant : Tenants, meter : Meters]
Payload       == PostPayload \cup PutPayload \cup DeletePayload

ASSUME SetsAssumption ==
    /\ IsFiniteSet(Tenants)
    /\ IsFiniteSet(IdemKeys)
    /\ Ops \subseteq {"post", "put", "delete"}
ASSUME BoundsAssumption ==
    /\ MaxQuantity \in Nat
    /\ MaxLimit \in Nat
    /\ InitialLimits \subseteq Limits \cup {NoLimit}
ASSUME NullsAssumption ==
    /\ Nobody \notin Requests
    /\ NoRow \notin EventRow
    /\ NoRow \notin Payload

Usage   == [total : Nat, count : Nat]
NoUsage == [total |-> 0, count |-> 0]

\* Mutants of KeyIn and BucketIn: the tenant left out of the key.
KeyIn_NoTenant(p)    == <<CHOOSE t \in Tenants : TRUE, p.idem>>
BucketIn_NoTenant(p) == <<CHOOSE t \in Tenants : TRUE, p.meter, p.win>>

KeyIn(p)    == <<p.tenant, p.idem>>
ScopeIn(p)  == <<p.tenant, p.meter>>
BucketIn(p) == <<p.tenant, p.meter, p.win>>

\* The row the server builds from payload p of request r: tenant and window
\* are its own, never the client's.
RowIn(r, p) == [id |-> r, meter |-> p.meter, win |-> p.win, qty |-> p.qty]

=============================================================================
