----------------------------- MODULE HikariPool -----------------------------
(***************************************************************************)
(* The HikariCP connection pool of ledger-service, as the code in src/     *)
(* uses it: a fixed number of JDBC connections handed out one at a time    *)
(* by DataSource.getConnection() and returned by Connection.close().  The  *)
(* pool itself is a library; only its size comes from the configuration.   *)
(* Hikari gives up after connectionTimeout (30 s, never overridden), which *)
(* can only happen to a caller that finds no idle connection.              *)
(***************************************************************************)
EXTENDS Naturals

CONSTANT PoolMax    \* spring.datasource.hikari.maximum-pool-size

ASSUME PoolMaxAssumption == PoolMax \in Nat \ {0}

VARIABLE idle       \* how many connections sit in the pool

PoolInit == idle = PoolMax

\* getConnection() succeeds.
Borrow == idle > 0 /\ idle' = idle - 1

\* getConnection() throws SQLTransientConnectionException after the timeout.
BorrowTimesOut == idle = 0 /\ UNCHANGED idle

\* close() on a connection obtained from the pool.
GiveBack == idle' = idle + 1
=============================================================================
