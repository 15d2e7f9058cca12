\* Chunks of two ranges.  Lists of up to four rows and four instructions, in any transactions;
\* results of up to three rows and two runs of the query.
CONSTANTS
  MaxSize = 2
  MaxListRows = 4
  MaxInstructions = 4
  MaxResultRows = 3
  MaxRuns = 2
SPECIFICATION PartsSpec
\* The bounds end a behaviour.
CHECK_DEADLOCK FALSE
INVARIANTS ChangesAreRight MovesAreRight ModificationsAreRight StandsForTheSet AnswersAreRight
