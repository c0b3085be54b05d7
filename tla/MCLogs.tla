------------------------------- MODULE MCLogs -------------------------------
EXTENDS Logs

MCLines == {[logger |-> "uvicorn.access", level |-> 20], [logger |-> "app", level |-> 30]}
MCAncestry ==
  [l \in {"uvicorn.access", "app"} |->
    IF l = "app" THEN <<"app", "root">> ELSE <<"uvicorn.access", "uvicorn", "root">>]
MCDirect == {"uvicorn", "uvicorn.access"}
MCSource == [l \in {"uvicorn.access", "app"} |-> IF l = "app" THEN "langperf" ELSE "uvicorn"]
MCFilters == {[sources |-> {}, min |-> 0], [sources |-> {"langperf"}, min |-> 30]}
MCConfigs == {[enabled |-> TRUE, rotate |-> TRUE, keep |-> 1, path |-> "good"],
              [enabled |-> TRUE, rotate |-> FALSE, keep |-> 1, path |-> "good"],
              [enabled |-> FALSE, rotate |-> TRUE, keep |-> 1, path |-> "good"],
              [enabled |-> TRUE, rotate |-> TRUE, keep |-> 1, path |-> "unlistable"],
              [enabled |-> TRUE, rotate |-> TRUE, keep |-> 1, path |-> "nameless"]}
=============================================================================
