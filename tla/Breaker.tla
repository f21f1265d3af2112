------------------------------ MODULE Breaker ------------------------------
(***************************************************************************)
(* guard/breaker.rs: what the two layers of the circuit breaker decide     *)
(* from what they read.  The decisions are pure; module Probe runs them in *)
(* the threads that take them.  Widths are those of the release build,     *)
(* where u8 arithmetic wraps.                                              *)
(***************************************************************************)
EXTENDS Integers

\* A procfs file that could not be read: the layer is skipped.
Unread == -1

\* The queue's fill in per cent.
FillPct(fill, capacity) == (fill * 100) \div capacity

\* hot_path_check: set at the watermark, clear below half of it, else keep.
HotVerdict(fill, capacity, watermark) ==
  IF FillPct(fill, capacity) >= watermark THEN "set"
  ELSE IF FillPct(fill, capacity) < watermark \div 2 THEN "clear"
  ELSE "keep"

\* `host_cpu_limit_pct * 8 / 10` on u8: the product wraps.
LoadBand(limit) == ((limit * 8) % 256) \div 10

\* `ram_limit_mb * 1024 * 1024 * 8 / 10` on u64, in the unit of the readings.
RssBand(limit) == (limit * 8) \div 10

\* `as u8` saturates.
LoadPct(percent) == IF percent > 255 THEN 255 ELSE percent

Verdict(reading, limit, band) ==
  IF reading = Unread THEN "low"
  ELSE IF reading > limit THEN "high"
  ELSE IF reading > band THEN "band"
  ELSE "low"

RssVerdict(reading, limit) == Verdict(reading, limit, RssBand(limit))
LoadVerdict(reading, limit) == Verdict(LoadPct(reading), limit, LoadBand(limit))

=============================================================================
