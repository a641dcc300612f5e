CONSTANTS
    cpu = cpu  gpu = gpu
    Workers = {cpu, gpu}
    Rigs <- TwoRigs
    Handles <- Launched
    NoJob = NoJob
    AsyncWorkers = 2
    MaxVersion = 3
SPECIFICATION FairSpec
 
PROPERTIES NewsReaches WorkersEnd
