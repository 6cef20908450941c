SPECIFICATION LiveSpec
CONSTANT MaxQueue = 2
PROPERTIES RequestsSettle ReadingResumes
CHECK_DEADLOCK FALSE
